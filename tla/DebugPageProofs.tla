--------------------------- MODULE DebugPageProofs ---------------------------
(***************************************************************************)
(* For any number of gateways and activations: an activation of the debug  *)
(* backend reads open channels, the list of the server has the gateways    *)
(* that are active, each once, and the page comes to show the list.        *)
(***************************************************************************)
EXTENDS DebugPage, SequenceTheorems, WellFoundedInduction, TLAPS

\* The kinds of message, and the places of an activation of either side.
Kinds == {"uplink", "status", "downlink"}
Places == {"out", "connect", "list", "uplink", "status", "run", "disconnect", "unlist",
           "closeuplink", "closestatus"}
NorthPlaces == {"out", "downlink", "run", "closedownlink"}

\* Types; an activation has a gateway from its first step to its last.
PageTypeOK ==
  /\ apc \in [Acts -> Places \union NorthPlaces]
  /\ \A a \in Acts : apc[a] \in IF a \in South THEN Places ELSE NorthPlaces
  /\ agw \in [Acts -> Gateways \union {None}]
  /\ \A a \in Acts : agw[a] = None <=> apc[a] = "out"
  /\ chan \in [Gateways -> [Kinds -> Acts \union {None}]]
  /\ events \in [{"connect", "disconnect"} -> Nat]

\* The step that follows a step is one of the same side.
LEMMA FollowsPlaces ==
  ASSUME NEW a \in Acts, apc[a] \in IF a \in South THEN Places ELSE NorthPlaces
  PROVE  /\ Follows(a)[apc[a]] \in IF a \in South THEN Places ELSE NorthPlaces
         /\ Follows(a)[apc[a]] \in Places \union NorthPlaces
BY DEF Follows, Places, NorthPlaces

\* Who goes on to the next step leaves the others where they are.
LEMMA ProceedType ==
  ASSUME PageTypeOK, NEW a \in Acts, Proceed(a)
  PROVE  /\ apc' \in [Acts -> Places \union NorthPlaces]
         /\ \A b \in Acts : apc'[b] \in IF b \in South THEN Places ELSE NorthPlaces
         /\ agw' \in [Acts -> Gateways \union {None}]
         /\ apc'[a] = Follows(a)[apc[a]]
         /\ apc[a] # "out" => \A b \in Acts : agw'[b] = None <=> apc'[b] = "out"
         /\ \A b \in Acts \ {a} : apc'[b] = apc[b] /\ agw'[b] = agw[b]
         /\ apc'[a] # "out" => agw'[a] = agw[a]
BY FollowsPlaces DEF PageTypeOK, Proceed

\* The steps, each for any activation.
LEMMA StepKinds ==
  ASSUME [Next]_vars
  PROVE  \/ \E a \in Acts : \E k \in Kinds : Subscribe(a, k)
         \/ \E a \in Acts : \E k \in Kinds : Unsubscribe(a, k)
         \/ \E a \in Acts : \E e \in {"connect", "disconnect"} : Announce(a, e)
         \/ \E a \in Acts : List(a) \/ Unlist(a) \/ Leave(a)
         \/ \E a \in Acts : \E g \in Gateways : Activate(a, g)
         \/ \E e \in {"connect", "disconnect"} : Emit(e)
         \/ \E i \in 1 .. MaxFetches : Show(i)
         \/ UNCHANGED vars
<1>1. South \subseteq Acts /\ North \subseteq Acts
  BY DEF Acts
<1>2. ASSUME NEW a \in South, ActivateSouthbound(a)
      PROVE  \/ \E k \in Kinds : Subscribe(a, k) \/ Unsubscribe(a, k)
             \/ \E e \in {"connect", "disconnect"} : Announce(a, e)
             \/ List(a) \/ Unlist(a)
  BY <1>2 DEF ActivateSouthbound, SubscribeUplink, SubscribeStatus, UnsubscribeUplink, UnsubscribeStatus, Kinds
<1>3. ASSUME NEW a \in North, ActivateNorthbound(a) PROVE \E k \in Kinds : Subscribe(a, k) \/ Unsubscribe(a, k)
  BY <1>3 DEF ActivateNorthbound, SubscribeDownlink, UnsubscribeDownlink, Kinds
<1> QED BY <1>1, <1>2, <1>3 DEF Next

\* Every step keeps the variables within their types.
LEMMA PageTypeStep == PageTypeOK /\ [Next]_vars => PageTypeOK'
<1> SUFFICES ASSUME PageTypeOK, [Next]_vars PROVE PageTypeOK'
  OBVIOUS
<1>1. ASSUME NEW a \in Acts, Proceed(a), apc[a] # "out", chan' \in [Gateways -> [Kinds -> Acts \union {None}]],
             events' \in [{"connect", "disconnect"} -> Nat]
      PROVE PageTypeOK'
  BY <1>1, ProceedType DEF PageTypeOK
<1>2. ASSUME NEW a \in Acts, NEW k \in Kinds, Subscribe(a, k) PROVE PageTypeOK'
  <2>1. agw[a] \in Gateways /\ apc[a] # "out"
    BY <1>2 DEF Subscribe, PageTypeOK, Kinds
  <2>2. chan' \in [Gateways -> [Kinds -> Acts \union {None}]]
    BY <1>2, <2>1 DEF Subscribe, PageTypeOK
  <2> QED BY <1>1, <1>2, <2>1, <2>2 DEF Subscribe, PageTypeOK
<1>3. ASSUME NEW a \in Acts, NEW k \in Kinds, Unsubscribe(a, k) PROVE PageTypeOK'
  <2>1. agw[a] \in Gateways /\ apc[a] # "out"
    BY <1>3 DEF Unsubscribe, PageTypeOK, Kinds, Close
  <2>2. chan' \in [Gateways -> [Kinds -> Acts \union {None}]]
    BY <1>3, <2>1 DEF Unsubscribe, PageTypeOK
  <2> QED BY <1>1, <1>3, <2>1, <2>2 DEF Unsubscribe, PageTypeOK
<1>4. ASSUME NEW a \in Acts, NEW e \in {"connect", "disconnect"}, Announce(a, e) PROVE PageTypeOK'
  <2>1. events' \in [{"connect", "disconnect"} -> Nat] /\ apc[a] # "out"
    BY <1>4 DEF Announce, PageTypeOK
  <2> QED BY <1>1, <1>4, <2>1 DEF Announce, PageTypeOK, chanVars
<1>5. ASSUME NEW a \in Acts, List(a) \/ Unlist(a) \/ Leave(a) PROVE PageTypeOK'
  <2>1. Proceed(a) /\ apc[a] # "out" /\ UNCHANGED <<chan, events>>
    BY <1>5 DEF List, Unlist, Leave, chanVars
  <2> QED BY <1>1, <2>1 DEF PageTypeOK
<1>6. ASSUME NEW a \in Acts, NEW g \in Gateways, Activate(a, g) PROVE PageTypeOK'
  <2>1. Follows(a)["out"] \in IF a \in South THEN Places ELSE NorthPlaces
    BY DEF Follows, Places, NorthPlaces
  <2>2. Follows(a)["out"] # "out"
    BY DEF Follows
  <2> QED BY <1>6, <2>1, <2>2, PageSlotsAssumption DEF Activate, PageTypeOK, chanVars
<1>7. ASSUME NEW e \in {"connect", "disconnect"}, Emit(e) PROVE PageTypeOK'
  BY <1>7 DEF Emit, PageTypeOK, actVars, chanVars
<1>8. ASSUME NEW i \in 1 .. MaxFetches, Show(i) PROVE PageTypeOK'
  BY <1>8 DEF Show, PageTypeOK, actVars, chanVars
<1>9. CASE UNCHANGED vars
  BY <1>9 DEF PageTypeOK, vars
<1> QED
  BY <1>2, <1>3, <1>4, <1>5, <1>6, <1>7, <1>8, <1>9, StepKinds

-----------------------------------------------------------------------------
(* ReadsOpen *)

\* The kinds of message an activation has subscribed to.
Owned(a) ==
  CASE apc[a] = "status" -> {"uplink"}
    [] apc[a] \in {"run", "disconnect", "unlist", "closeuplink", "closedownlink"} -> KindsOf(a)
    [] apc[a] = "closestatus" -> {"status"}
    [] OTHER -> {}

\* Inductive: what an activation subscribed to is its own until it unsubscribes,
\* and no two activations on one side have the same gateway.
OwnInv ==
  /\ PageTypeOK
  /\ ~panicked
  /\ \A a, b \in Acts : a # b /\ agw[a] # None /\ agw[a] = agw[b] => (a \in South) # (b \in South)
  /\ \A a \in Acts : \A k \in Owned(a) : chan[agw[a]][k] = a /\ <<a, k>> \in open

\* An activation that unsubscribes a kind owned it, and keeps the others.
LEMMA OwnedStep ==
  ASSUME PageTypeOK, NEW a \in Acts, Proceed(a), apc[a] # "out"
  PROVE  /\ \A k \in Kinds : apc[a] = k => Owned(a)' \subseteq Owned(a) \union {k}
         /\ \A k \in Kinds : apc[a] = Close[k] => k \in Owned(a) /\ Owned(a)' \subseteq Owned(a) \ {k}
         /\ (\A k \in Kinds : apc[a] # k) => Owned(a)' \subseteq Owned(a)
         /\ \A b \in Acts \ {a} : Owned(b)' = Owned(b)
         /\ Owned(a) \subseteq KindsOf(a)
         /\ Owned(a)' # {} => agw'[a] = agw[a]
<1>1. apc'[a] = Follows(a)[apc[a]] /\ \A b \in Acts \ {a} : apc'[b] = apc[b]
  BY ProceedType
<1>2. (apc'[a] # "out" => agw'[a] = agw[a]) /\ apc[a] \in IF a \in South THEN Places ELSE NorthPlaces
  BY ProceedType DEF PageTypeOK
<1> QED BY <1>1, <1>2 DEF Owned, KindsOf, Follows, Kinds, Close, Places, NorthPlaces

\* Every step keeps to it while activations of a gateway do not overlap.
LEMMA OwnStep ==
  ASSUME "overlap" \notin faults
  PROVE  OwnInv /\ [Next]_vars => OwnInv'
<1> SUFFICES ASSUME OwnInv, [Next]_vars PROVE OwnInv'
  OBVIOUS
<1>t. PageTypeOK /\ PageTypeOK'
  BY PageTypeStep DEF OwnInv
<1>o. \A b \in Acts : /\ Owned(b) \subseteq Kinds
                      /\ Owned(b) # {} => agw[b] \in Gateways
                      /\ Owned(b) \subseteq KindsOf(b)
  <2>1. \A b \in Acts : apc[b] \in IF b \in South THEN Places ELSE NorthPlaces
    BY <1>t DEF PageTypeOK
  <2>2. \A b \in Acts : Owned(b) # {} => apc[b] # "out"
    BY DEF Owned
  <2> QED BY <1>t, <2>1, <2>2 DEF PageTypeOK, Owned, KindsOf, Kinds, Places, NorthPlaces
<1>d. \A a, b \in Acts : \A k \in Owned(a) : a # b /\ agw[a] = agw[b] => k \notin Owned(b)
  <2> SUFFICES ASSUME NEW a \in Acts, NEW b \in Acts, NEW k \in Owned(a), a # b, agw[a] = agw[b], k \in Owned(b)
               PROVE FALSE
    OBVIOUS
  <2>1. agw[a] # None /\ k \in KindsOf(a) /\ k \in KindsOf(b)
    BY <1>o, PageSlotsAssumption
  <2>2. (a \in South) # (b \in South)
    BY <2>1 DEF OwnInv
  <2> QED BY <2>1, <2>2 DEF KindsOf
<1>p. ASSUME NEW a \in Acts, Proceed(a)
      PROVE  \A c, b \in Acts : c # b /\ agw'[c] # None /\ agw'[c] = agw'[b] => (c \in South) # (b \in South)
  BY <1>t, <1>p DEF OwnInv, Proceed, PageTypeOK
<1>1. ASSUME NEW a \in Acts, NEW k \in Kinds, Subscribe(a, k) PROVE OwnInv'
  <2>1. /\ Proceed(a) /\ apc[a] = k /\ apc[a] # "out" /\ agw[a] \in Gateways
        /\ chan' = [chan EXCEPT ![agw[a]][k] = a] /\ open' = open \union {<<a, k>>} /\ ~panicked'
    BY <1>t, <1>1 DEF Subscribe, Kinds, PageTypeOK, OwnInv
  <2>2. /\ Owned(a)' \subseteq Owned(a) \union {k} /\ (Owned(a)' # {} => agw'[a] = agw[a])
        /\ \A b \in Acts \ {a} : Owned(b)' = Owned(b) /\ agw'[b] = agw[b]
    BY <1>t, <2>1, OwnedStep, ProceedType
  <2>3. chan'[agw[a]][k] = a
        /\ \A h \in Gateways : \A l \in Kinds : h # agw[a] \/ l # k => chan'[h][l] = chan[h][l]
    BY <1>t, <2>1 DEF PageTypeOK
  <2>4. \A b \in Acts \ {a} : agw[b] = agw[a] => k \notin Owned(b)
    <3>1. ASSUME NEW b \in Acts \ {a}, agw[b] = agw[a], k \in Owned(b) PROVE FALSE
      <4>1. (a \in South) # (b \in South) /\ k \in KindsOf(b)
        BY <1>o, <2>1, <3>1, PageSlotsAssumption DEF OwnInv
      <4>2. apc[a] \in IF a \in South THEN Places ELSE NorthPlaces
        BY <1>t DEF PageTypeOK
      <4> QED BY <2>1, <4>1, <4>2 DEF KindsOf, Places, NorthPlaces
    <3> QED BY <3>1
  <2>5. ASSUME NEW b \in Acts, NEW l \in Owned(b)' PROVE chan'[agw'[b]][l] = b /\ <<b, l>> \in open'
    <3>1. CASE b = a
      BY <1>o, <2>1, <2>2, <2>3, <2>5, <3>1 DEF OwnInv
    <3>2. CASE b # a
      BY <1>o, <2>1, <2>2, <2>3, <2>4, <2>5, <3>2 DEF OwnInv
    <3> QED BY <3>1, <3>2
  <2> QED BY <1>t, <1>p, <2>1, <2>5 DEF OwnInv
<1>2. ASSUME NEW a \in Acts, NEW k \in Kinds, Unsubscribe(a, k) PROVE OwnInv'
  <2>1. /\ Proceed(a) /\ apc[a] = Close[k] /\ apc[a] # "out" /\ agw[a] \in Gateways
        /\ chan' = [chan EXCEPT ![agw[a]][k] = None] /\ open' = open \ {<<chan[agw[a]][k], k>>}
        /\ panicked' = (chan[agw[a]][k] = None)
    BY <1>t, <1>2 DEF Unsubscribe, Kinds, Close, PageTypeOK
  <2>2. /\ k \in Owned(a) /\ Owned(a)' \subseteq Owned(a) \ {k} /\ (Owned(a)' # {} => agw'[a] = agw[a])
        /\ \A b \in Acts \ {a} : Owned(b)' = Owned(b) /\ agw'[b] = agw[b]
    BY <1>t, <2>1, OwnedStep, ProceedType
  <2>3. chan[agw[a]][k] = a
    BY <2>2 DEF OwnInv
  <2>4. /\ ~panicked' /\ open' = open \ {<<a, k>>}
    BY <2>1, <2>3, PageSlotsAssumption
  <2>5. \A h \in Gateways : \A l \in Kinds : h # agw[a] \/ l # k => chan'[h][l] = chan[h][l]
    BY <1>t, <2>1 DEF PageTypeOK
  <2>6. ASSUME NEW b \in Acts, NEW l \in Owned(b)' PROVE chan'[agw'[b]][l] = b /\ <<b, l>> \in open'
    <3>1. CASE b = a
      BY <1>o, <2>1, <2>2, <2>4, <2>5, <2>6, <3>1 DEF OwnInv
    <3>2. CASE b # a
      BY <1>o, <1>d, <2>1, <2>2, <2>4, <2>5, <2>6, <3>2 DEF OwnInv
    <3> QED BY <3>1, <3>2
  <2> QED BY <1>t, <1>p, <2>1, <2>4, <2>6 DEF OwnInv
<1>3. ASSUME NEW a \in Acts, Proceed(a), apc[a] # "out", \A k \in Kinds : apc[a] # k,
             UNCHANGED <<chan, open, panicked>>
      PROVE OwnInv'
  <2>1. /\ Owned(a)' \subseteq Owned(a) /\ (Owned(a)' # {} => agw'[a] = agw[a])
        /\ \A b \in Acts \ {a} : Owned(b)' = Owned(b) /\ agw'[b] = agw[b]
    BY <1>t, <1>3, OwnedStep, ProceedType
  <2>2. ASSUME NEW b \in Acts, NEW l \in Owned(b)' PROVE chan'[agw'[b]][l] = b /\ <<b, l>> \in open'
    BY <1>3, <2>1, <2>2 DEF OwnInv
  <2> QED BY <1>t, <1>p, <1>3, <2>2 DEF OwnInv
<1>4. ASSUME NEW a \in Acts, NEW e \in {"connect", "disconnect"}, Announce(a, e) PROVE OwnInv'
  BY <1>3, <1>4 DEF Announce, chanVars, Kinds
<1>5. ASSUME NEW a \in Acts, List(a) \/ Unlist(a) \/ Leave(a) PROVE OwnInv'
  <2>1. Proceed(a) /\ apc[a] \in {"list", "unlist", "run"} /\ UNCHANGED <<chan, open, panicked>>
    BY <1>5 DEF List, Unlist, Leave, chanVars
  <2> QED BY <1>3, <2>1 DEF Kinds
<1>6. ASSUME NEW a \in Acts, NEW g \in Gateways, Activate(a, g) PROVE OwnInv'
  <2>1. /\ \A b \in Acts : agw[b] = g => (b \in South) # (a \in South)
        /\ agw' = [agw EXCEPT ![a] = g] /\ apc' = [apc EXCEPT ![a] = Follows(a)[@]] /\ apc[a] = "out"
        /\ UNCHANGED <<chan, open, panicked>>
    BY <1>6 DEF Activate, chanVars
  <2>2. Owned(a)' = {} /\ \A b \in Acts \ {a} : Owned(b)' = Owned(b) /\ agw'[b] = agw[b]
    BY <1>t, <2>1 DEF Owned, PageTypeOK, Follows
  <2>3. \A c, b \in Acts : c # b /\ agw'[c] # None /\ agw'[c] = agw'[b] => (c \in South) # (b \in South)
    BY <1>t, <2>1 DEF OwnInv, PageTypeOK
  <2>4. ASSUME NEW b \in Acts, NEW l \in Owned(b)' PROVE chan'[agw'[b]][l] = b /\ <<b, l>> \in open'
    BY <2>1, <2>2, <2>4 DEF OwnInv
  <2> QED BY <1>t, <2>1, <2>3, <2>4 DEF OwnInv
<1>7. ASSUME UNCHANGED <<actVars, chanVars, panicked>> PROVE OwnInv'
  BY <1>t, <1>7 DEF OwnInv, Owned, actVars, chanVars
<1>8. ASSUME \/ \E e \in {"connect", "disconnect"} : Emit(e)
             \/ \E i \in 1 .. MaxFetches : Show(i)
             \/ UNCHANGED vars
      PROVE OwnInv'
  BY <1>7, <1>8 DEF Emit, Show, vars, actVars, chanVars
<1> QED BY <1>1, <1>2, <1>4, <1>5, <1>6, <1>8, StepKinds

\* The set of faults of a behaviour does not change.
LEMMA PageFaultsStay == [Next]_vars => faults' = faults
BY StepKinds DEF Subscribe, Unsubscribe, Announce, List, Unlist, Leave, Activate, Emit, Show, vars

\* At first nobody is active.
LEMMA PageInit == Init => OwnInv
BY PageSlotsAssumption DEF Init, OwnInv, PageTypeOK, Owned, Places, NorthPlaces, Kinds, Acts

\* A running activation reads open channels that its gateway's entry has, and no
\* channel is closed that is not there, unless activations of a gateway overlap
\* (dummy.go:122-210).
THEOREM OpenRead == Spec => []ReadsOpen
<1> DEFINE Good == "overlap" \notin faults
<1>1. Init => (Good => OwnInv)
  BY PageInit
<1>2. (Good => OwnInv) /\ [Next]_vars => (Good => OwnInv)'
  BY OwnStep, PageFaultsStay
<1>3. (Good => OwnInv) => ReadsOpen
  BY DEF ReadsOpen, OwnInv, Owned
<1> HIDE DEF Good
<1> QED BY <1>1, <1>2, <1>3, PTL DEF Spec

-----------------------------------------------------------------------------
(* PageAgrees *)

\* What the page shows once it has all the answers on their way.
Latest == IF answers = <<>> THEN page ELSE answers[Len(answers)]

\* Inductive: unless an event is still to be handled, the page has been told the
\* list, which is not about to change.
LatestInv ==
  /\ PageTypeOK
  /\ \E S : answers \in Seq(S)
  /\ \/ \E e \in {"connect", "disconnect"} : events[e] > 0
     \/ Latest = list /\ ~Changing

\* Removing the first element leaves the tail.
LEMMA RemoveHead ==
  ASSUME NEW S, NEW s \in Seq(S), s # <<>>
  PROVE  RemoveAt(s, 1) = Tail(s)
<1>1. RemoveAt(s, 1) = SubSeq(s, 1, 0) \o SubSeq(s, 2, Len(s))
  BY DEF RemoveAt
<1>2. SubSeq(s, 1, 0) = <<>>
  BY SubSeqEmpty
<1>3. SubSeq(s, 2, Len(s)) = Tail(s) /\ Tail(s) \in Seq(S)
  BY TailIsSubSeq, HeadTailProperties
<1> QED BY <1>1, <1>2, <1>3, ConcatEmptySeq

\* Taking the first element away leaves the last one last.
LEMMA LastOfTail ==
  ASSUME NEW S, NEW s \in Seq(S), s # <<>>
  PROVE  (IF Tail(s) = <<>> THEN s[1] ELSE Tail(s)[Len(Tail(s))]) = s[Len(s)]
<1>1. Len(s) \in Nat /\ Len(s) # 0
  BY EmptySeq
<1>2. Tail(s) \in Seq(S) /\ Len(Tail(s)) = Len(s) - 1 /\ \A i \in 1 .. Len(Tail(s)) : Tail(s)[i] = s[i + 1]
  BY HeadTailProperties
<1>3. CASE Len(s) = 1
  <2>1. Len(Tail(s)) = 0
    BY <1>2, <1>3
  <2>2. Tail(s) = <<>>
    BY <1>2, <2>1, EmptySeq
  <2> QED BY <1>3, <2>2
<1>4. CASE Len(s) # 1
  <2>1. Len(Tail(s)) \in 1 .. Len(Tail(s)) /\ Len(Tail(s)) # 0
    BY <1>1, <1>2, <1>4
  <2>2. Tail(s) # <<>>
    BY <2>1, EmptySeq
  <2>3. Tail(s)[Len(Tail(s))] = s[Len(Tail(s)) + 1]
    BY <1>2, <2>1
  <2>4. Len(Tail(s)) + 1 = Len(s)
    BY <1>1, <1>2
  <2> QED BY <2>2, <2>3, <2>4
<1> QED BY <1>3, <1>4

\* If the page is neither fast nor are answers reordered, every step keeps it so.
LEMMA LatestStep ==
  ASSUME faults \intersect {"hasty", "reorder"} = {}
  PROVE  LatestInv /\ [Next]_vars => LatestInv'
<1> SUFFICES ASSUME LatestInv, [Next]_vars PROVE LatestInv'
  OBVIOUS
<1> DEFINE Waiting == \E e \in {"connect", "disconnect"} : events[e] > 0
<1>t. PageTypeOK /\ PageTypeOK'
  BY PageTypeStep DEF LatestInv
<1>s. PICK S : answers \in Seq(S)
  BY DEF LatestInv
<1>1. ASSUME NEW a \in Acts, Proceed(a), apc[a] \in {"uplink", "status", "downlink", "run", "closeuplink", "closestatus", "closedownlink"},
             UNCHANGED <<list, events, answers, page>>
      PROVE LatestInv'
  <2>1. \A b \in Acts : apc'[b] \in {"list", "unlist"} => apc[b] = apc'[b]
    <3>1. apc'[a] = Follows(a)[apc[a]] /\ \A b \in Acts \ {a} : apc'[b] = apc[b]
      BY <1>t, <1>1, ProceedType
    <3>2. apc[a] \in IF a \in South THEN Places ELSE NorthPlaces
      BY <1>t DEF PageTypeOK
    <3>3. apc'[a] \notin {"list", "unlist"}
      BY <1>1, <3>1, <3>2 DEF Follows, Places, NorthPlaces
    <3> QED BY <3>1, <3>3
  <2>2. ~Changing => ~Changing'
    BY <2>1 DEF Changing, Acts
  <2> QED BY <1>t, <1>1, <2>2 DEF LatestInv, Latest
<1>2. ASSUME NEW a \in Acts, NEW k \in Kinds, Subscribe(a, k) \/ Unsubscribe(a, k) PROVE LatestInv'
  BY <1>1, <1>2 DEF Subscribe, Unsubscribe, Kinds, Close, pageVars
<1>3. ASSUME NEW a \in Acts, NEW e \in {"connect", "disconnect"}, Announce(a, e) PROVE LatestInv'
  <2>1. events'[e] > 0
    BY <1>t, <1>3, PageBufferAssumption DEF Announce, PageTypeOK
  <2> QED BY <1>t, <1>3, <2>1 DEF LatestInv, Announce, pageVars
<1>4. ASSUME NEW a \in South, List(a) \/ Unlist(a) PROVE LatestInv'
  <2>1. Changing /\ UNCHANGED <<events, answers>>
    BY <1>4 DEF List, Unlist, Changing, pageVars
  <2> QED BY <1>t, <2>1 DEF LatestInv
<1>5. ASSUME NEW a \in Acts, Leave(a) PROVE LatestInv'
  BY <1>1, <1>5 DEF Leave, pageVars
<1>6. ASSUME NEW a \in Acts, NEW g \in Gateways, Activate(a, g) PROVE LatestInv'
  <2>1. \A b \in Acts : apc'[b] \in {"list", "unlist"} => apc[b] = apc'[b]
    BY <1>t, <1>6 DEF Activate, PageTypeOK, Follows
  <2>2. ~Changing => ~Changing'
    BY <2>1 DEF Changing, Acts
  <2> QED BY <1>t, <1>6, <2>2 DEF LatestInv, Latest, Activate, pageVars
<1>7. ASSUME NEW e \in {"connect", "disconnect"}, Emit(e) PROVE LatestInv'
  <2>1. ~Changing /\ answers' = Append(answers, list) /\ UNCHANGED <<list, apc>>
    BY <1>7 DEF Emit, actVars
  <2>2. answers' \in Seq(S \union {list}) /\ answers' # <<>> /\ answers'[Len(answers')] = list
    BY <1>s, <2>1
  <2>3. Latest' = list' /\ ~Changing'
    BY <2>1, <2>2 DEF Latest, Changing
  <2> QED BY <1>t, <2>2, <2>3 DEF LatestInv
<1>8. ASSUME NEW i \in 1 .. MaxFetches, Show(i) PROVE LatestInv'
  <2>1. i \in DOMAIN answers /\ i = 1 /\ UNCHANGED <<list, events, apc>>
    BY <1>8 DEF Show, actVars
  <2>2. page' = answers[1] /\ answers' = RemoveAt(answers, 1)
    BY <1>8, <2>1 DEF Show
  <2>3. answers # <<>>
    BY <1>s, <2>1
  <2>4. answers' = Tail(answers) /\ answers' \in Seq(S)
    BY <1>s, <2>2, <2>3, RemoveHead, HeadTailProperties
  <2>5. Latest' = Latest
    BY <1>s, <2>2, <2>3, <2>4, LastOfTail DEF Latest
  <2> QED BY <1>t, <2>1, <2>4, <2>5 DEF LatestInv, Changing
<1>9. CASE UNCHANGED vars
  BY <1>t, <1>9 DEF LatestInv, Latest, Changing, vars
<1>10. \A a \in Acts : List(a) \/ Unlist(a) => a \in South
  BY <1>t DEF List, Unlist, PageTypeOK, NorthPlaces
<1> QED BY <1>2, <1>3, <1>4, <1>5, <1>6, <1>7, <1>8, <1>9, <1>10, StepKinds

\* Once all events are handled the page shows the list of connected gateways,
\* whatever events found the channel full, unless the page is faster than the
\* call that sent the event or answers overtake each other (http.go:147-180).
THEOREM PageFollowsList == Spec => []PageAgrees
<1> DEFINE Good == faults \intersect {"hasty", "reorder"} = {}
<1>1. Init => (Good => LatestInv)
  <2> SUFFICES ASSUME Init PROVE LatestInv
    OBVIOUS
  <2>1. PageTypeOK /\ answers = <<>> /\ page = list /\ ~Changing
    BY PageInit DEF Init, OwnInv, Changing, Acts
  <2>2. answers \in Seq({})
    BY <2>1
  <2> QED BY <2>1, <2>2 DEF LatestInv, Latest
<1>2. (Good => LatestInv) /\ [Next]_vars => (Good => LatestInv)'
  BY LatestStep, PageFaultsStay
<1>3. (Good => LatestInv) => PageAgrees
  BY DEF PageAgrees, LatestInv, Latest
<1> HIDE DEF Good
<1> QED BY <1>1, <1>2, <1>3, PTL DEF Spec

-----------------------------------------------------------------------------
(* ListedIsActive *)

\* Some number of a set of naturals is the least.
LEMMA LeastNat ==
  ASSUME NEW T, T \subseteq Nat, T # {}
  PROVE  \E n \in T : \A m \in T : n <= m
<1>1. IsWellFoundedOn(OpToRel(<, Nat), Nat)
  BY NatLessThanWellFounded
<1>2. \A m, n \in Nat : <<m, n>> \in OpToRel(<, Nat) <=> m < n
  BY DEF OpToRel
<1>3. PICK n \in T : \A m \in T : <<m, n>> \notin OpToRel(<, Nat)
  BY <1>1, WFMin
<1>4. \A m \in T : ~(m < n)
  BY <1>2, <1>3
<1>5. n \in Nat /\ \A m \in T : m \in Nat
  OBVIOUS
<1>6. \A m \in T : n <= m
  BY <1>4, <1>5
<1> QED BY <1>6

\* A set with 0 and with the successor of each of its numbers has them all.
LEMMA Induction ==
  ASSUME NEW T, 0 \in T, \A n \in T \intersect Nat : n + 1 \in T
  PROVE  Nat \subseteq T
<1> SUFFICES ASSUME Nat \ T # {} PROVE FALSE
  OBVIOUS
<1>1. PICK n \in Nat \ T : \A m \in Nat \ T : n <= m
  BY LeastNat
<1>2. n - 1 \in Nat /\ n - 1 < n
  BY <1>1
<1>3. n - 1 \in T
  BY <1>1, <1>2
<1>4. (n - 1) + 1 \in T
  BY <1>2, <1>3
<1> QED BY <1>1, <1>4

\* The lists the loop of Disconnect has made after n turns.
Turns(kept, s, g, n) ==
  kept = [i \in 0 .. n |-> IF i = 0 THEN <<>>
                           ELSE IF s[i] = g THEN kept[i - 1] ELSE Append(kept[i - 1], s[i])]

\* The loop ends.
LEMMA TurnsExist ==
  ASSUME NEW s, NEW g, Len(s) \in Nat
  PROVE  \E kept : Turns(kept, s, g, Len(s))
<1> DEFINE T == {n \in Nat : \E kept : Turns(kept, s, g, n)}
<1>1. 0 \in T
  <2> DEFINE none == [i \in 0 .. 0 |-> <<>>]
  <2>1. \A i \in 0 .. 0 : i = 0
    OBVIOUS
  <2>2. Turns(none, s, g, 0)
    BY <2>1 DEF Turns
  <2> QED BY <2>2
<1>2. ASSUME NEW n \in T \intersect Nat PROVE n + 1 \in T
  <2>1. PICK kept : Turns(kept, s, g, n)
    BY <1>2
  <2> DEFINE next == IF s[n + 1] = g THEN kept[n] ELSE Append(kept[n], s[n + 1])
             more == [i \in 0 .. n + 1 |-> IF i <= n THEN kept[i] ELSE next]
  <2>2. \A i \in 0 .. n : kept[i] = IF i = 0 THEN <<>> ELSE IF s[i] = g THEN kept[i - 1] ELSE Append(kept[i - 1], s[i])
    BY <2>1 DEF Turns
  <2>3. ASSUME NEW i \in 0 .. n + 1
        PROVE  more[i] = IF i = 0 THEN <<>> ELSE IF s[i] = g THEN more[i - 1] ELSE Append(more[i - 1], s[i])
    <3>1. CASE i \in 0 .. n
      <4>1. more[i] = kept[i] /\ (i # 0 => more[i - 1] = kept[i - 1])
        BY <3>1
      <4> HIDE DEF more
      <4> QED BY <2>2, <3>1, <4>1
    <3>2. CASE i = n + 1
      <4>1. n \in 0 .. n + 1 /\ n <= n /\ ~(n + 1 <= n) /\ i # 0 /\ i - 1 = n
        BY <3>2
      <4>2. more[i] = next /\ more[n] = kept[n]
        BY <3>2, <4>1
      <4> HIDE DEF more
      <4> QED BY <3>2, <4>1, <4>2
    <3>3. i \in 0 .. n \/ i = n + 1
      OBVIOUS
    <3> QED BY <3>1, <3>2, <3>3
  <2>4. Turns(more, s, g, n + 1)
    BY <2>3 DEF Turns
  <2> QED BY <2>4
<1>3. Nat \subseteq T
  BY <1>1, <1>2, Induction
<1> QED BY <1>3

\* Connect adds a gateway that is not on the list.
LEMMA AppendOne ==
  ASSUME NEW S, NEW s \in Seq(S), IsInjective(s), NEW g \in S
  PROVE  /\ Append(s, g) \in Seq(S)
         /\ ToSet(Append(s, g)) = ToSet(s) \union {g}
         /\ g \notin ToSet(s) => IsInjective(Append(s, g))
<1>1. /\ Append(s, g) \in Seq(S) /\ Len(s) \in Nat
      /\ DOMAIN s = 1 .. Len(s) /\ DOMAIN Append(s, g) = 1 .. Len(s) + 1
      /\ \A i \in 1 .. Len(s) : Append(s, g)[i] = s[i]
      /\ Append(s, g)[Len(s) + 1] = g
  <2>1. /\ Append(s, g) \in Seq(S) /\ Len(Append(s, g)) = Len(s) + 1
        /\ \A i \in 1 .. Len(s) : Append(s, g)[i] = s[i]
        /\ Append(s, g)[Len(s) + 1] = g
    BY AppendProperties
  <2> QED BY <2>1, LenProperties
<1>2. 1 .. Len(s) + 1 = (1 .. Len(s)) \union {Len(s) + 1}
  BY <1>1
<1> QED BY <1>1, <1>2 DEF ToSet, IsInjective

\* Disconnect takes a gateway off the list and leaves the others, each once.
LEMMA WithoutOne ==
  ASSUME NEW S, NEW s \in Seq(S), IsInjective(s), NEW g
  PROVE  /\ Without(s, g) \in Seq(S)
         /\ ToSet(Without(s, g)) = ToSet(s) \ {g}
         /\ IsInjective(Without(s, g))
<1> DEFINE R(kept) == kept = [i \in 0 .. Len(s) |->
             IF i = 0 THEN <<>> ELSE IF s[i] = g THEN kept[i - 1] ELSE Append(kept[i - 1], s[i])]
           f == CHOOSE kept : R(kept)
           Seen(n) == {s[i] : i \in 1 .. n}
           Good(k, n) == k \in Seq(S) /\ ToSet(k) = Seen(n) \ {g} /\ IsInjective(k)
           T == {n \in Nat : n <= Len(s) => Good(f[n], n)}
<1>0. Len(s) \in Nat /\ DOMAIN s = 1 .. Len(s) /\ \A i \in 1 .. Len(s) : s[i] \in S
  OBVIOUS
<1>1. \E kept : R(kept)
  <2>1. PICK kept : Turns(kept, s, g, Len(s))
    BY <1>0, TurnsExist
  <2>2. R(kept)
    BY <2>1 DEF Turns
  <2> QED BY <2>2
<1>2. R(f)
  BY <1>1
<1>3. Without(s, g) = f[Len(s)]
  BY DEF Without
<1>4. \A i \in 0 .. Len(s) : f[i] = IF i = 0 THEN <<>> ELSE IF s[i] = g THEN f[i - 1] ELSE Append(f[i - 1], s[i])
  BY <1>2
<1> HIDE DEF f
<1>5. 0 \in T
  <2>1. f[0] = <<>> /\ <<>> \in Seq(S) /\ DOMAIN <<>> = {} /\ Seen(0) = {}
    BY <1>0, <1>4
  <2> QED BY <2>1 DEF ToSet, IsInjective
<1>6. ASSUME NEW n \in T \intersect Nat PROVE n + 1 \in T
  <2> SUFFICES ASSUME n + 1 <= Len(s) PROVE Good(f[n + 1], n + 1)
    OBVIOUS
  <2>1. Good(f[n], n) /\ n + 1 \in 1 .. Len(s) /\ (n + 1) - 1 = n /\ n + 1 # 0
    BY <1>0, <1>6
  <2>2. f[n + 1] = IF s[n + 1] = g THEN f[n] ELSE Append(f[n], s[n + 1])
    BY <1>4, <2>1
  <2>3. Seen(n + 1) = Seen(n) \union {s[n + 1]}
    <3>1. 1 .. n + 1 = (1 .. n) \union {n + 1}
      BY <2>1
    <3> QED BY <3>1
  <2>4. CASE s[n + 1] = g
    BY <2>1, <2>2, <2>3, <2>4
  <2>5. CASE s[n + 1] # g
    <3>1. s[n + 1] \notin Seen(n)
      BY <1>0, <2>1 DEF IsInjective
    <3>2. s[n + 1] \in S /\ f[n + 1] = Append(f[n], s[n + 1])
      BY <1>0, <2>1, <2>2, <2>5
    <3>3. f[n + 1] \in Seq(S) /\ ToSet(f[n + 1]) = ToSet(f[n]) \union {s[n + 1]}
          /\ (s[n + 1] \notin ToSet(f[n]) => IsInjective(f[n + 1]))
      BY <2>1, <3>2, AppendOne
    <3> HIDE DEF Seen
    <3> QED BY <2>1, <2>3, <2>5, <3>1, <3>3
  <2> QED BY <2>4, <2>5
<1>7. Nat \subseteq T
  BY <1>5, <1>6, Induction
<1>8. Good(f[Len(s)], Len(s))
  <2> HIDE DEF Good
  <2>1. Len(s) \in T
    <3> HIDE DEF T
    <3> QED BY <1>0, <1>7
  <2> QED BY <1>0, <2>1
<1>9. Seen(Len(s)) = ToSet(s)
  BY <1>0 DEF ToSet
<1> QED BY <1>3, <1>8, <1>9

\* The places of an activation of the backend whose gateway is on the list.
Listing == {"uplink", "status", "run", "disconnect", "unlist"}
Listed == {agw[a] : a \in {b \in South : apc[b] \in Listing}}

\* Inductive: the list has each of them once, and no two are of one gateway.
ListInv ==
  /\ OwnInv
  /\ list \in Seq(Gateways) /\ IsInjective(list)
  /\ ToSet(list) = Listed

\* Every step keeps to it while activations of a gateway do not overlap.
LEMMA ListStep ==
  ASSUME "overlap" \notin faults
  PROVE  ListInv /\ [Next]_vars => ListInv'
<1> SUFFICES ASSUME ListInv, [Next]_vars PROVE ListInv'
  OBVIOUS
<1>t. PageTypeOK /\ OwnInv /\ OwnInv'
  BY OwnStep DEF ListInv, OwnInv
<1>1. ASSUME NEW a \in South, List(a) PROVE ListInv'
  <2>1. /\ apc[a] = "list" /\ Proceed(a) /\ a \in Acts /\ agw[a] \in Gateways
        /\ list' = IF Contains(list, agw[a]) THEN list ELSE Append(list, agw[a])
    BY <1>t, <1>1 DEF List, Acts, PageTypeOK
  <2>2. apc'[a] = "uplink" /\ agw'[a] = agw[a] /\ \A b \in Acts \ {a} : apc'[b] = apc[b] /\ agw'[b] = agw[b]
    BY <1>t, <2>1, ProceedType DEF Follows
  <2>3. Listed' = Listed \union {agw[a]}
    BY <2>1, <2>2 DEF Listed, Listing, Acts
  <2>4. Contains(list, agw[a]) <=> agw[a] \in ToSet(list)
    BY LenProperties DEF Contains, ToSet, ListInv
  <2>5. list' \in Seq(Gateways) /\ IsInjective(list') /\ ToSet(list') = ToSet(list) \union {agw[a]}
    <3>1. CASE Contains(list, agw[a])
      BY <2>1, <2>4, <3>1 DEF ListInv
    <3>2. CASE ~Contains(list, agw[a])
      BY <2>1, <2>4, <3>2, AppendOne DEF ListInv
    <3> QED BY <3>1, <3>2
  <2> QED BY <1>t, <2>3, <2>5 DEF ListInv
<1>2. ASSUME NEW a \in South, Unlist(a) PROVE ListInv'
  <2>1. /\ apc[a] = "unlist" /\ Proceed(a) /\ a \in Acts /\ agw[a] # None
        /\ list' = Without(list, agw[a])
    BY <1>t, <1>2 DEF Unlist, Acts, PageTypeOK
  <2>2. apc'[a] = "closeuplink" /\ \A b \in Acts \ {a} : apc'[b] = apc[b] /\ agw'[b] = agw[b]
    BY <1>t, <2>1, ProceedType DEF Follows
  <2>3. \A b \in South \ {a} : agw[b] # agw[a]
    BY <1>t, <2>1 DEF OwnInv, Acts
  <2>4. Listed' = Listed \ {agw[a]}
    BY <2>1, <2>2, <2>3 DEF Listed, Listing, Acts
  <2>5. list' \in Seq(Gateways) /\ IsInjective(list') /\ ToSet(list') = ToSet(list) \ {agw[a]}
    BY <2>1, WithoutOne DEF ListInv
  <2> QED BY <1>t, <2>4, <2>5 DEF ListInv
<1>3. ASSUME UNCHANGED list, \A b \in South : /\ apc[b] \in Listing <=> apc'[b] \in Listing
                                              /\ apc[b] \in Listing => agw'[b] = agw[b]
      PROVE  ListInv'
  <2>1. Listed' = Listed
    BY <1>3 DEF Listed
  <2> QED BY <1>t, <1>3, <2>1 DEF ListInv
<1>4. ASSUME NEW a \in Acts, Proceed(a), apc[a] \notin {"out", "list", "unlist"}, UNCHANGED list PROVE ListInv'
  <2>1. /\ apc'[a] = Follows(a)[apc[a]] /\ (apc'[a] # "out" => agw'[a] = agw[a])
        /\ \A b \in Acts \ {a} : apc'[b] = apc[b] /\ agw'[b] = agw[b]
    BY <1>t, <1>4, ProceedType
  <2>2. apc[a] \in IF a \in South THEN Places ELSE NorthPlaces
    BY <1>t DEF PageTypeOK
  <2>3. a \in South => (apc[a] \in Listing <=> apc'[a] \in Listing) /\ (apc[a] \in Listing => apc'[a] # "out")
    BY <1>4, <2>1, <2>2 DEF Follows, Places, Listing
  <2>4. South \subseteq Acts
    BY DEF Acts
  <2> QED BY <1>3, <1>4, <2>1, <2>3, <2>4
<1>5. ASSUME NEW a \in Acts, NEW k \in Kinds, Subscribe(a, k) \/ Unsubscribe(a, k) PROVE ListInv'
  <2>1. Proceed(a) /\ apc[a] \notin {"out", "list", "unlist"} /\ UNCHANGED list
    BY <1>5 DEF Subscribe, Unsubscribe, Kinds, Close
  <2> QED BY <1>4, <2>1
<1>6. ASSUME NEW a \in Acts, (\E e \in {"connect", "disconnect"} : Announce(a, e)) \/ Leave(a) PROVE ListInv'
  <2>1. Proceed(a) /\ apc[a] \notin {"out", "list", "unlist"} /\ UNCHANGED list
    BY <1>6 DEF Announce, Leave
  <2> QED BY <1>4, <2>1
<1>7. ASSUME NEW a \in Acts, NEW g \in Gateways, Activate(a, g) PROVE ListInv'
  <2>1. \A b \in South : /\ apc[b] \in Listing <=> apc'[b] \in Listing
                         /\ apc[b] \in Listing => agw'[b] = agw[b]
    BY <1>t, <1>7 DEF Activate, Listing, PageTypeOK, Follows, Acts
  <2> QED BY <1>3, <1>7, <2>1 DEF Activate
<1>8. ASSUME \/ \E e \in {"connect", "disconnect"} : Emit(e)
             \/ \E i \in 1 .. MaxFetches : Show(i)
             \/ UNCHANGED vars
      PROVE ListInv'
  <2>1. UNCHANGED <<list, apc, agw>>
    BY <1>8 DEF Emit, Show, vars, actVars
  <2> QED BY <1>3, <2>1
<1>9. \A a \in Acts : List(a) \/ Unlist(a) => a \in South
  BY <1>t DEF List, Unlist, PageTypeOK, NorthPlaces
<1> QED BY <1>1, <1>2, <1>5, <1>6, <1>7, <1>8, <1>9, StepKinds

\* The list has the gateways of the activations that are between their two
\* calls of the server, each once, unless activations of a gateway overlap
\* (http.go:147-180).
THEOREM ListRight == Spec => []ListedIsActive
<1> DEFINE Good == "overlap" \notin faults
<1>1. Init => (Good => ListInv)
  <2> SUFFICES ASSUME Init PROVE ListInv
    OBVIOUS
  <2>1. OwnInv /\ list = <<>> /\ \A b \in South : apc[b] = "out"
    BY PageInit DEF Init, Acts
  <2>2. <<>> \in Seq(Gateways) /\ DOMAIN <<>> = {}
    OBVIOUS
  <2>3. Listed = {}
    BY <2>1 DEF Listed, Listing
  <2> QED BY <2>1, <2>2, <2>3 DEF ListInv, ToSet, IsInjective
<1>2. (Good => ListInv) /\ [Next]_vars => (Good => ListInv)'
  BY ListStep, PageFaultsStay
<1>3. (Good => ListInv) => ListedIsActive
  BY DEF ListedIsActive, ListInv, Listed, Listing
<1> HIDE DEF Good
<1> QED BY <1>1, <1>2, <1>3, PTL DEF Spec
=============================================================================
