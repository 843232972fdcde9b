------------------------- MODULE MapSession_proofs ----------------------------
(***************************************************************************)
(* For any number of maps, detections and messages kept.                   *)
(*                                                                         *)
(* The markers: the ids of the array increase unless a wipe raced a        *)
(* numbering, and at most one pair outlives its map.  IdsIncrease is not   *)
(* inductive: the ids in the rx thread's hands have to lie between those   *)
(* of the array and the counter (HandInv).  Nor is AtMostOneStale: a pair  *)
(* of an earlier map in the thread's hands has to be the only one          *)
(* (StaleInv).  That a late viewer misses nothing is a fact about the      *)
(* messages kept: each covers what the one before it left (Chained).       *)
(*                                                                         *)
(* The manager: one slam_toolbox runs at most, none is left behind without *)
(* a SIGKILL, a stop is answered when none runs, and an exported map is    *)
(* the newest one.  What is promised of the instances rests on what the    *)
(* node knows of them: only the one in _slam_proc can be running (Alone),  *)
(* which is why no step may forget it while it does.  What is promised of  *)
(* the maps rests on where an old one can hide: in the cache or in the     *)
(* queue (Fresh).                                                          *)
(*                                                                         *)
(* The two together: a step of the composition is a step of each, or of    *)
(* one while the other stutters, so what holds of the markers and of the   *)
(* manager alone holds of the two.                                         *)
(***************************************************************************)
EXTENDS MapSession, TLAPS

-----------------------------------------------------------------------------
(* The markers.                                                            *)

(* The thread holds a pose, and no pair of it is in the array. *)
Holding == pc \in {"sphere", "bump", "text", "bump2", "append"}

(* How far the counter has come in the detection in hand. *)
CountInv ==
  /\ Holding => detected > 0 /\ pose > 0
  /\ pc \in {"sphere", "bump"} => nextId <= 2 * detected - 2
  /\ pc \in {"text", "bump2"} => nextId <= 2 * detected - 1

HandInv ==
  ~raced =>
    /\ pc = "bump" => sphereId = nextId
    /\ pc = "text" => sphereId < nextId
    /\ pc = "bump2" => sphereId < textId /\ textId = nextId
    /\ pc = "append" => sphereId < textId /\ textId < nextId
    /\ \A i \in DOMAIN markers :
         markers[i].text < IF Numbering THEN sphereId ELSE nextId

StaleInv ==
  ~signal /\ ~lagging =>
    /\ tf \in {0, map}
    /\ Holding /\ pose # map => \A i \in DOMAIN markers : markers[i].map = map

IInv == TypeOK /\ CountInv /\ HandInv /\ IdsIncrease /\ StaleInv /\ AtMostOneStale

Bools == signal \in BOOLEAN /\ raced \in BOOLEAN /\ lagging \in BOOLEAN

LEMMA PairType ==
  ASSUME NEW p \in Pairs
  PROVE  p.sphere \in Nat /\ p.text \in Nat
  BY DEF Pairs

(* A viewer shows nothing but what the messages hold. *)
LEMMA ShowType ==
  ASSUME NEW shown, \A e \in shown : e \in Entries, NEW msg \in Messages
  PROVE  \A e \in Show(shown, msg) : e \in Entries
  <1>1. \A i \in DOMAIN msg.pairs : msg.pairs[i] \in Pairs
    BY DEF Messages
  <1>2. \A e \in Spheres(msg.pairs) : e \in Entries
    BY <1>1 DEF Spheres, Entries, Pairs
  <1>3. \A e \in Texts(msg.pairs) : e \in Entries
    BY <1>1 DEF Texts, Entries, Pairs
  <1> QED BY <1>2, <1>3 DEF Show, New

LEMMA PublishType ==
  ASSUME PubTypeOK, NEW msg \in Messages, Publish(msg), markers' \in Seq(Pairs)
  PROVE  PubTypeOK'
  <1>1. published \in Seq(Messages) /\ Len(published) <= Depth /\ Depth \in Nat \ {0}
    BY QrAssumption DEF PubTypeOK
  <1>2. published' \in Seq(Messages) /\ Len(published') <= Depth
    <2>1. CASE Len(published) < Depth
      BY <1>1, <2>1 DEF Publish
    <2>2. CASE ~(Len(published) < Depth)
      <3>1. Tail(published) \in Seq(Messages) /\ Len(Tail(published)) = Len(published) - 1
        BY <1>1, <2>2
      <3>2. Len(published) = Depth
        BY <1>1, <2>2
      <3> QED BY <1>1, <2>2, <3>1, <3>2 DEF Publish
    <2> QED BY <2>1, <2>2
  <1>3. \A e \in screen' : e \in Entries
    BY ShowType DEF Publish, PubTypeOK
  <1> QED BY <1>2, <1>3 DEF PubTypeOK

LEMMA PubUnchanged ==
  ASSUME PubTypeOK, UNCHANGED pubVars
  PROVE  PubTypeOK'
  BY DEF PubTypeOK, pubVars

LEMMA InitInv == Init => IInv
  <1> SUFFICES ASSUME Init PROVE IInv
    OBVIOUS
  <1>1. SlamTypeOK
    BY QrAssumption DEF Init, SlamTypeOK
  <1>6. Bools
    BY DEF Init, Bools
  <1>2. RxTypeOK
    BY QrAssumption DEF Init, RxTypeOK
  <1>3. <<>> \in Seq(Pairs) /\ <<>> \in Seq(Messages) /\ Len(<<>>) <= Depth
    BY QrAssumption
  <1>4. PubTypeOK
    BY <1>3 DEF Init, PubTypeOK
  <1>5. CountInv /\ HandInv /\ IdsIncrease /\ StaleInv /\ AtMostOneStale
    BY DEF Init, CountInv, HandInv, IdsIncrease, StaleInv, AtMostOneStale, Holding
  <1> QED BY <1>1, <1>2, <1>4, <1>5, <1>6 DEF IInv, TypeOK, Bools

(* Maps and transforms. *)
LEMMA SlamStep ==
  ASSUME IInv, StartMap \/ Transform \/ Expire
  PROVE  IInv'
  <1> USE DEF IInv, StartMap, Transform, Expire
  <1>1. SlamTypeOK'
    <2>1. SlamTypeOK
      BY DEF TypeOK
    <2>2. \/ map < MaxMaps /\ map' = map + 1 /\ tf' = tf
          \/ map' = map /\ tf' = map
          \/ map' = map /\ tf' = 0
      OBVIOUS
    <2> HIDE DEF IInv, StartMap, Transform, Expire
    <2> QED BY <2>1, <2>2, QrAssumption DEF SlamTypeOK
  <1>2. UNCHANGED <<nextId, rxVars>> /\ UNCHANGED pubVars /\ UNCHANGED history
    OBVIOUS
  <1>3. RxTypeOK' /\ Bools'
    BY <1>2 DEF TypeOK, RxTypeOK, Bools, rxVars, history
  <1>4. PubTypeOK'
    BY <1>2, PubUnchanged DEF TypeOK
  <1>5. CountInv' /\ HandInv' /\ IdsIncrease'
    BY <1>2 DEF CountInv, HandInv, IdsIncrease, Holding, Numbering, rxVars, pubVars, history
  <1>6. StaleInv' /\ AtMostOneStale'
    BY <1>2 DEF StaleInv, AtMostOneStale, Holding, rxVars, pubVars, history
  <1> QED BY <1>1, <1>3, <1>4, <1>5, <1>6 DEF TypeOK, Bools

(* The wipe. *)
LEMMA NewMapStep ==
  ASSUME IInv, NewMap
  PROVE  IInv'
  <1> USE DEF IInv
  <1>1. /\ ClearAll \in Messages /\ Publish(ClearAll)
        /\ markers' = <<>> /\ markers' \in Seq(Pairs)
    BY DEF NewMap, ClearAll, Messages
  <1>2. PubTypeOK'
    BY <1>1, PublishType DEF TypeOK
  <1>3. /\ UNCHANGED rxVars /\ UNCHANGED <<map, tf>> /\ nextId' = 0 /\ signal' = FALSE
        /\ raced' = Numbering /\ lagging' = (tf \notin {0, map})
    BY DEF NewMap
  <1>4. SlamTypeOK' /\ Bools'
    <2>1. SlamTypeOK'
      BY <1>3 DEF TypeOK, SlamTypeOK
    <2>2. signal' \in BOOLEAN
      BY <1>3
    <2>3. raced' \in BOOLEAN
      BY <1>3 DEF Numbering
    <2>4. lagging' \in BOOLEAN
      BY <1>3
    <2> QED BY <2>1, <2>2, <2>3, <2>4 DEF Bools
  <1>5. RxTypeOK'
    BY <1>3 DEF TypeOK, RxTypeOK, rxVars
  <1>6. CountInv'
    BY <1>3 DEF TypeOK, RxTypeOK, CountInv, Holding, rxVars
  <1>7. DOMAIN markers' = {}
    BY <1>1
  <1>8. ~raced' => pc' \notin {"bump", "text", "bump2", "append"}
    BY <1>3 DEF Numbering, rxVars
  <1>9. HandInv' /\ IdsIncrease'
    BY <1>7, <1>8 DEF HandInv, IdsIncrease
  <1>10. ~lagging' => tf' \in {0, map'}
    BY <1>3
  <1>11. StaleInv' /\ AtMostOneStale'
    BY <1>7, <1>10 DEF StaleInv, AtMostOneStale
  <1> QED BY <1>2, <1>4, <1>5, <1>6, <1>9, <1>11 DEF TypeOK, Bools

(* The rx thread outside the lock. *)
Outside ==
  Lookup \/ NumberSphere \/ BumpSphere \/ NumberText \/ BumpText \/ AppendCsv

LEMMA NumberStep ==
  ASSUME IInv, Outside
  PROVE  IInv'
  <1> USE DEF IInv, Outside
  <1>1. UNCHANGED slamVars /\ UNCHANGED pubVars /\ UNCHANGED history
    BY DEF Lookup, NumberSphere, BumpSphere, NumberText, BumpText, AppendCsv
  <1>2. SlamTypeOK' /\ Bools'
    BY <1>1 DEF TypeOK, SlamTypeOK, Bools, slamVars, history
  <1>3. PubTypeOK'
    BY <1>1, PubUnchanged DEF TypeOK
  <1>4. RxTypeOK' /\ CountInv'
    <2> USE QrAssumption DEF TypeOK, SlamTypeOK, RxTypeOK, CountInv, Holding, Goto
    <2>1. CASE Lookup
      BY <2>1 DEF Lookup
    <2>2. CASE NumberSphere
      BY <2>2 DEF NumberSphere
    <2>3. CASE BumpSphere
      BY <2>3 DEF BumpSphere
    <2>4. CASE NumberText
      BY <2>4 DEF NumberText
    <2>5. CASE BumpText
      BY <2>5 DEF BumpText
    <2>6. CASE AppendCsv
      BY <2>6 DEF AppendCsv
    <2> QED BY <2>1, <2>2, <2>3, <2>4, <2>5, <2>6
  <1>5. \A i \in DOMAIN markers : markers[i].text \in Nat
    <2>1. markers \in Seq(Pairs)
      BY DEF TypeOK, PubTypeOK
    <2>2. \A i \in DOMAIN markers : markers[i] \in Pairs
      BY <2>1
    <2> QED BY <2>2, PairType
  <1>6. HandInv'
    <2> USE <1>1, <1>5 DEF TypeOK, RxTypeOK, HandInv, Numbering, Goto, pubVars, history
    <2>1. CASE Lookup
      BY <2>1 DEF Lookup
    <2>2. CASE NumberSphere
      BY <2>2 DEF NumberSphere
    <2>3. CASE BumpSphere
      BY <2>3 DEF BumpSphere
    <2>4. CASE NumberText
      BY <2>4 DEF NumberText
    <2>5. CASE BumpText
      BY <2>5 DEF BumpText
    <2>6. CASE AppendCsv
      BY <2>6 DEF AppendCsv
    <2> QED BY <2>1, <2>2, <2>3, <2>4, <2>5, <2>6
  <1>7. IdsIncrease' /\ AtMostOneStale'
    BY <1>1 DEF IdsIncrease, AtMostOneStale, slamVars, pubVars, history
  <1>8. StaleInv'
    BY <1>1 DEF StaleInv, Holding, Goto, slamVars, pubVars, history, Lookup, NumberSphere,
       BumpSphere, NumberText, BumpText, AppendCsv
  <1> QED BY <1>2, <1>3, <1>4, <1>6, <1>7, <1>8 DEF TypeOK, Bools

(* The append under the lock. *)
LEMMA AppendStep ==
  ASSUME IInv, AppendMarkers
  PROVE  IInv'
  <1> USE DEF IInv
  <1>1. /\ pc = "append" /\ pc' = "csv" /\ markers' = Append(markers, Pair)
        /\ Publish(Array(markers')) /\ UNCHANGED slamVars /\ UNCHANGED history
        /\ UNCHANGED <<nextId, pose, sphereId, textId, detected>>
    BY DEF AppendMarkers, Goto
  <1>2. Pair \in Pairs
    BY <1>1, QrAssumption DEF Pair, Pairs, TypeOK, RxTypeOK, CountInv, Holding
  <1>3. markers \in Seq(Pairs) /\ markers' \in Seq(Pairs)
    BY <1>1, <1>2 DEF TypeOK, PubTypeOK
  <1>4. Array(markers') \in Messages
    BY <1>3 DEF Array, Messages
  <1>5. PubTypeOK'
    BY <1>1, <1>3, <1>4, PublishType DEF TypeOK
  <1>6. SlamTypeOK' /\ RxTypeOK' /\ Bools'
    BY <1>1 DEF TypeOK, SlamTypeOK, RxTypeOK, Bools, slamVars, history
  <1>7. CountInv'
    BY <1>1 DEF CountInv, Holding
  <1>8. /\ DOMAIN markers' = 1 .. Len(markers) + 1 /\ DOMAIN markers = 1 .. Len(markers)
        /\ markers'[Len(markers) + 1] = Pair /\ Len(markers) \in Nat
        /\ \A i \in 1 .. Len(markers) : markers'[i] = markers[i]
    BY <1>1, <1>2, <1>3
  <1>9. \A i \in 1 .. Len(markers) : markers[i].sphere \in Nat /\ markers[i].text \in Nat
    <2>1. \A i \in 1 .. Len(markers) : markers[i] \in Pairs
      BY <1>3
    <2> QED BY <2>1, PairType
  <1>10. /\ Pair.sphere = sphereId /\ Pair.text = textId /\ Pair.map = pose
         /\ sphereId \in Nat /\ textId \in Nat /\ nextId \in Nat
    BY DEF Pair, TypeOK, RxTypeOK
  <1>11. HandInv' /\ IdsIncrease'
    <2>1. CASE raced
      BY <1>1, <2>1 DEF HandInv, IdsIncrease, history
    <2>2. CASE ~raced
      <3>1. /\ sphereId < textId /\ textId < nextId
            /\ \A i \in 1 .. Len(markers) : markers[i].text < sphereId
        BY <1>1, <1>8, <2>2 DEF HandInv, Numbering
      <3>2. HandInv'
        BY <1>1, <1>8, <1>9, <1>10, <3>1 DEF HandInv, Numbering
      <3>3. \A i \in DOMAIN markers' : markers'[i].sphere < markers'[i].text
        BY <1>8, <1>10, <2>2, <3>1 DEF IdsIncrease
      <3>4. \A i, j \in DOMAIN markers' : i < j => markers'[i].text < markers'[j].sphere
        BY <1>8, <1>10, <2>2, <3>1 DEF IdsIncrease
      <3> QED BY <3>2, <3>3, <3>4 DEF IdsIncrease
    <2> QED BY <2>1, <2>2
  <1>12. StaleInv'
    BY <1>1 DEF StaleInv, Holding, slamVars, history
  <1>13. AtMostOneStale'
    <2> SUFFICES ASSUME ~signal, ~lagging,
                        NEW i \in DOMAIN markers', NEW j \in DOMAIN markers',
                        markers'[i].map # map, markers'[j].map # map
                 PROVE  i = j
      BY <1>1 DEF AtMostOneStale, slamVars, history
    <2>1. CASE pose = map
      BY <1>8, <1>10, <2>1 DEF AtMostOneStale
    <2>2. CASE pose # map
      BY <1>1, <1>8, <1>10, <2>2 DEF StaleInv, Holding
    <2> QED BY <2>1, <2>2
  <1> QED BY <1>5, <1>6, <1>7, <1>11, <1>12, <1>13 DEF TypeOK, Bools

LEMMA StutterStep ==
  ASSUME IInv, UNCHANGED vars
  PROVE  IInv'
  <1> USE DEF IInv, vars, slamVars, rxVars, pubVars, history
  <1>1. TypeOK'
    BY DEF TypeOK, SlamTypeOK, RxTypeOK, PubTypeOK
  <1>2. CountInv' /\ HandInv' /\ IdsIncrease' /\ StaleInv' /\ AtMostOneStale'
    BY DEF CountInv, HandInv, IdsIncrease, StaleInv, AtMostOneStale, Holding, Numbering
  <1> QED BY <1>1, <1>2

(* The invariant is inductive. *)
LEMMA StepInv == IInv /\ [Next]_vars => IInv'
  BY SlamStep, NewMapStep, NumberStep, AppendStep, StutterStep DEF Next, Rx, Outside

(* Every variable keeps its type. *)
THEOREM TypeCorrect == Spec => []TypeOK
  <1>1. IInv => TypeOK
    BY DEF IInv
  <1> QED BY InitInv, StepInv, <1>1, PTL DEF Spec

(* The ids of the array increase unless the last wipe came between the     *)
(* numbering of a pair and its append.                                     *)
THEOREM IdsOrdered == Spec => []IdsIncrease
  <1>1. IInv => IdsIncrease
    BY DEF IInv
  <1> QED BY InitInv, StepInv, <1>1, PTL DEF Spec

(* Once the signal is taken, at most one pair lies on an earlier map,      *)
(* unless the transforms lagged behind.                                    *)
THEOREM OneOutlivesItsMap == Spec => []AtMostOneStale
  <1>1. IInv => AtMostOneStale
    BY DEF IInv
  <1> QED BY InitInv, StepInv, <1>1, PTL DEF Spec

(* A viewer that connects late sees what an early one does, whatever the   *)
(* ids and however few messages are kept: every message covers all the one *)
(* before it left on a screen, and the last one holds the whole array.     *)
Chained ==
  /\ screen = New(Array(markers))
  /\ published = <<>> => screen = {}
  /\ published # <<>> => New(published[Len(published)]) = screen
  /\ \A i, j \in DOMAIN published : j = i + 1 =>
       \A e \in New(published[i]) : Covers(published[j], e)

(* The array with one pair more shows a marker wherever the array did: the *)
(* same one, or the new pair's under the same id.                          *)
LEMMA AppendCovers ==
  ASSUME NEW ms \in Seq(Pairs), NEW p \in Pairs, NEW e \in New(Array(ms))
  PROVE  Covers(Array(Append(ms, p)), e)
  <1> DEFINE more == Append(ms, p)
  <1>1. /\ DOMAIN ms = 1 .. Len(ms) /\ DOMAIN more = 1 .. Len(ms) + 1 /\ Len(ms) \in Nat
        /\ more[Len(ms) + 1] = p /\ \A i \in 1 .. Len(ms) : more[i] = ms[i]
    OBVIOUS
  <1>2. New(Array(ms)) = Spheres(ms) \cup Texts(ms)
    BY DEF New, Array
  <1> HIDE DEF more
  <1>3. New(Array(more)) = Spheres(more) \cup Texts(more)
    BY DEF New, Array
  <1>4. \E d \in New(Array(more)) : d[1] = e[1] /\ d[2] = e[2]
    <2>1. CASE e \in Spheres(ms)
      <3>1. PICK i \in DOMAIN ms :
               /\ e = <<"qr", ms[i].sphere, ms[i].n>>
               /\ \A j \in DOMAIN ms : j > i => ms[j].sphere # ms[i].sphere
        BY <2>1 DEF Spheres
      <3>2. PICK k \in {i, Len(ms) + 1} :
               /\ more[k].sphere = ms[i].sphere
               /\ \A j \in DOMAIN more : j > k => more[j].sphere # more[k].sphere
        <4>1. CASE p.sphere = ms[i].sphere
          BY <1>1, <4>1
        <4>2. CASE p.sphere # ms[i].sphere
          BY <1>1, <3>1, <4>2
        <4> QED BY <4>1, <4>2
      <3>3. <<"qr", more[k].sphere, more[k].n>> \in Spheres(more)
        BY <1>1, <3>2 DEF Spheres
      <3> QED BY <1>3, <3>1, <3>2, <3>3
    <2>2. CASE e \in Texts(ms)
      <3>1. PICK i \in DOMAIN ms :
               /\ e = <<"qr_text", ms[i].text, ms[i].n>>
               /\ \A j \in DOMAIN ms : j > i => ms[j].text # ms[i].text
        BY <2>2 DEF Texts
      <3>2. PICK k \in {i, Len(ms) + 1} :
               /\ more[k].text = ms[i].text
               /\ \A j \in DOMAIN more : j > k => more[j].text # more[k].text
        <4>1. CASE p.text = ms[i].text
          BY <1>1, <4>1
        <4>2. CASE p.text # ms[i].text
          BY <1>1, <3>1, <4>2
        <4> QED BY <4>1, <4>2
      <3>3. <<"qr_text", more[k].text, more[k].n>> \in Texts(more)
        BY <1>1, <3>2 DEF Texts
      <3> QED BY <1>3, <3>1, <3>2, <3>3
    <2> QED BY <1>2, <2>1, <2>2
  <1> QED BY <1>4 DEF Covers, more

(* A message that covers the screen becomes the screen, and the messages   *)
(* kept stay chained, whether or not the oldest one is dropped.            *)
LEMMA PublishChained ==
  ASSUME PubTypeOK, Chained, NEW msg \in Messages, Publish(msg),
         \A e \in screen : Covers(msg, e), New(msg) = New(Array(markers'))
  PROVE  Chained'
  <1>1. screen' = New(msg)
    BY DEF Publish, Show
  <1>2. published \in Seq(Messages) /\ Len(published) <= Depth /\ Depth \in Nat \ {0}
    BY QrAssumption DEF PubTypeOK
  <1>3. PICK kept \in Seq(Messages), shift \in {0, 1} :
          /\ published' = Append(kept, msg)
          /\ Len(kept) + shift = Len(published)
          /\ \A i \in 1 .. Len(kept) : kept[i] = published[i + shift]
    <2>1. CASE Len(published) < Depth
      BY <1>2, <2>1 DEF Publish
    <2>2. CASE ~(Len(published) < Depth)
      <3>1. /\ Tail(published) \in Seq(Messages) /\ Len(Tail(published)) + 1 = Len(published)
            /\ \A i \in 1 .. Len(Tail(published)) : Tail(published)[i] = published[i + 1]
        BY <1>2, <2>2
      <3> QED BY <1>2, <2>2, <3>1 DEF Publish
    <2> QED BY <2>1, <2>2
  <1>4. /\ Len(kept) \in Nat /\ Len(published') = Len(kept) + 1
        /\ DOMAIN published' = 1 .. Len(kept) + 1
        /\ published'[Len(kept) + 1] = msg
        /\ \A i \in 1 .. Len(kept) : published'[i] = kept[i]
    BY <1>3
  <1>5. published' # <<>> /\ New(published'[Len(published')]) = screen'
    <2>1. published' # <<>>
      BY <1>4
    <2> QED BY <1>1, <1>4, <2>1
  <1>6. ASSUME NEW i \in DOMAIN published', NEW j \in DOMAIN published', j = i + 1,
               NEW e \in New(published'[i])
        PROVE  Covers(published'[j], e)
    <2>1. i \in 1 .. Len(kept) /\ published'[i] = published[i + shift]
      BY <1>3, <1>4, <1>6
    <2>2. DOMAIN published = 1 .. Len(published) /\ Len(published) \in Nat
      BY <1>2
    <2>3. CASE i = Len(kept)
      <3>1. published'[j] = msg
        BY <1>4, <1>6, <2>3
      <3>2. i + shift = Len(published) /\ published # <<>>
        BY <1>3, <1>4, <2>1, <2>2, <2>3
      <3>3. e \in screen
        BY <1>6, <2>1, <3>2 DEF Chained
      <3> QED BY <3>1, <3>3
    <2>4. CASE i # Len(kept)
      <3>1. /\ j \in 1 .. Len(kept) /\ published'[j] = published[j + shift]
            /\ i + shift \in DOMAIN published /\ j + shift \in DOMAIN published
            /\ j + shift = (i + shift) + 1
        BY <1>3, <1>4, <1>6, <2>1, <2>2, <2>4
      <3> QED BY <1>6, <2>1, <3>1 DEF Chained
    <2> QED BY <2>3, <2>4
  <1> QED BY <1>1, <1>5, <1>6 DEF Chained

LEMMA InitChained == Init => Chained
  BY DEF Init, Chained, New, Array, Spheres, Texts

LEMMA StepChained == IInv /\ IInv' /\ Chained /\ [Next]_vars => Chained'
  <1> SUFFICES ASSUME IInv, IInv', Chained, [Next]_vars PROVE Chained'
    OBVIOUS
  <1> USE DEF IInv, TypeOK
  <1>1. CASE AppendMarkers
    <2>1. markers' = Append(markers, Pair) /\ Publish(Array(markers')) /\ pc = "append"
      BY <1>1 DEF AppendMarkers
    <2>2. Pair \in Pairs
      BY <2>1, QrAssumption DEF Pair, Pairs, RxTypeOK, CountInv, Holding
    <2>3. markers \in Seq(Pairs) /\ Array(markers') \in Messages
      BY DEF PubTypeOK, Array, Messages
    <2>4. \A e \in screen : Covers(Array(markers'), e)
      BY <2>1, <2>2, <2>3, AppendCovers DEF Chained
    <2> QED BY <2>1, <2>3, <2>4, PublishChained
  <1>2. CASE NewMap
    <2>1. markers' = <<>> /\ Publish(ClearAll) /\ ClearAll \in Messages
      BY <1>2 DEF NewMap, ClearAll, Messages
    <2>2. \A e \in screen : Covers(ClearAll, e)
      BY DEF Covers, ClearAll
    <2>3. New(ClearAll) = {} /\ New(Array(<<>>)) = {}
      BY DEF New, ClearAll, Array, Spheres, Texts
    <2> QED BY <2>1, <2>2, <2>3, PublishChained
  <1>3. CASE ~AppendMarkers /\ ~NewMap
    <2>1. UNCHANGED pubVars
      BY <1>3 DEF Next, Rx, StartMap, Transform, Expire, Lookup, NumberSphere, BumpSphere,
         NumberText, BumpText, AppendCsv, vars, pubVars
    <2> QED BY <2>1 DEF Chained, pubVars
  <1> QED BY <1>1, <1>2, <1>3

(* Of chained messages only the last one is left on a screen. *)
LEMMA ReplayShowsLast ==
  ASSUME PubTypeOK, Chained
  PROVE  Replay(published) = screen
  <1>1. published \in Seq(Messages) /\ DOMAIN published = 1 .. Len(published)
        /\ Len(published) \in Nat
    BY DEF PubTypeOK
  <1>2. CASE published = <<>>
    BY <1>2 DEF Chained, Replay
  <1>3. CASE published # <<>>
    <2> DEFINE last == Len(published)
    <2>1. last \in DOMAIN published
      BY <1>1, <1>3
    <2>2. \A i \in DOMAIN published : \A e \in New(published[i]) :
            (\A k \in DOMAIN published : k > i => ~Covers(published[k], e)) <=> i = last
      <3> SUFFICES ASSUME NEW i \in DOMAIN published, NEW e \in New(published[i])
                   PROVE  (\A k \in DOMAIN published : k > i => ~Covers(published[k], e)) <=> i = last
        OBVIOUS
      <3>1. CASE i = last
        BY <1>1, <3>1
      <3>2. CASE i # last
        <4>1. i + 1 \in DOMAIN published /\ i + 1 > i
          BY <1>1, <3>2
        <4> QED BY <3>2, <4>1 DEF Chained
      <3> QED BY <3>1, <3>2
    <2> HIDE DEF last
    <2>3. Replay(published) = New(published[last])
      BY <2>1, <2>2 DEF Replay
    <2> QED BY <1>3, <2>3 DEF Chained, last
  <1> QED BY <1>2, <1>3

(* Ids that increase leave each marker of an array a place of its own.     *)
LEMMA DistinctShown ==
  ASSUME PubTypeOK, IdsIncrease, ~raced
  PROVE  New(Array(markers)) =
           UNION {{<<"qr", markers[i].sphere, markers[i].n>>,
                   <<"qr_text", markers[i].text, markers[i].n>>} : i \in DOMAIN markers}
  <1>1. markers \in Seq(Pairs) /\ DOMAIN markers \subseteq Int
    BY DEF PubTypeOK
  <1>2. \A i \in DOMAIN markers : markers[i].sphere \in Nat /\ markers[i].text \in Nat
    <2>1. \A i \in DOMAIN markers : markers[i] \in Pairs
      BY <1>1
    <2> QED BY <2>1, PairType
  <1>3. \A i, j \in DOMAIN markers :
          j > i => markers[j].sphere # markers[i].sphere /\ markers[j].text # markers[i].text
    <2>1. /\ \A i \in DOMAIN markers : markers[i].sphere < markers[i].text
          /\ \A i, j \in DOMAIN markers : i < j => markers[i].text < markers[j].sphere
      BY DEF IdsIncrease
    <2> QED BY <1>1, <1>2, <2>1
  <1>4. Spheres(markers) = {<<"qr", markers[i].sphere, markers[i].n>> : i \in DOMAIN markers}
    BY <1>3 DEF Spheres
  <1>5. Texts(markers) = {<<"qr_text", markers[i].text, markers[i].n>> : i \in DOMAIN markers}
    BY <1>3 DEF Texts
  <1>6. New(Array(markers)) = Spheres(markers) \cup Texts(markers)
    BY DEF New, Array
  <1> QED BY <1>4, <1>5, <1>6

(* A viewer that connects now shows what one shows that was there from the *)
(* start, and unless the ids were raced that is every marker of the array  *)
(* and nothing else.                                                       *)
THEOREM EveryViewerSeesTheArray == Spec => []EveryMarkerShown
  <1>1. IInv /\ Chained => EveryMarkerShown
    <2> SUFFICES ASSUME IInv, Chained PROVE EveryMarkerShown
      OBVIOUS
    <2>1. PubTypeOK /\ IdsIncrease
      BY DEF IInv, TypeOK
    <2>2. ArrayShown
      BY <2>1, DistinctShown DEF ArrayShown, Chained
    <2> QED BY <2>1, <2>2, ReplayShowsLast DEF EveryMarkerShown
  <1> QED BY InitInv, StepInv, InitChained, StepChained, <1>1, PTL DEF Spec

-----------------------------------------------------------------------------
(* The manager; its instances are known by the map they draw.              *)
Alone == alive \subseteq {proc} /\ proc \in {0, map}

KillSent == mpc = "wait5" => proc \in killed

Fresh == late \/ (lastMap \in {0, map} /\ inbox \in {0, map})

Counts ==
  /\ map \in Nat
  /\ proc \in 0 .. map /\ lastMap \in 0 .. map /\ inbox \in 0 .. map

Known == alive \subseteq 1 .. map /\ killed \subseteq 1 .. map

Places == mpc \in {"spin", "export", "upload", "stop", "wait8", "wait5", "gone"}
Calls  == call \in {"none", "stop", "save", "destroy"}

History == saved \in (0 .. map) \X (0 .. map) \X BOOLEAN

ManagerIInv == Counts /\ Known /\ Places /\ Calls /\ Alone /\ KillSent /\ Manager!NoOrphan
        /\ Fresh /\ Manager!ExportOwnMap /\ History /\ late \in BOOLEAN

(* Steps that move the node's thread and nothing else. *)
Moves ==
  \/ (\E service \in {"stop", "save"} : Manager!Request(service))
  \/ Manager!Upload \/ Manager!ExportFails
  \/ Manager!ExportRaises \/ Manager!Interrupt \/ Manager!SendSigint \/ Manager!Wait5Raises

(* Steps that end a call to _stop_slam() with no instance running. *)
Stops == Manager!StopNothing \/ Manager!WaitReturns

LEMMA ManagerSteps ==
  ASSUME [Manager!ManagerNext]_(Manager!managerAll)
  PROVE  \/ Manager!Start \/ Manager!PublishMap \/ (\E i \in Manager!Instances : Manager!End(i))
         \/ Manager!TakeMap \/ Manager!Export
         \/ Manager!SendSigkill \/ Moves \/ Stops \/ UNCHANGED Manager!managerAll
  BY DEF Manager!ManagerNext, Manager!ManagerRest, Manager!Serve, Manager!StopSlam, Moves, Stops

(* What the thread's moves leave alone. *)
LEMMA MovesFrame ==
  ASSUME Moves
  PROVE  UNCHANGED <<proc, lastMap, Manager!worldVars, Manager!managerHistory>>
  BY DEF Moves, Manager!Request, Manager!Upload, Manager!ExportFails, Manager!ExportRaises,
         Manager!Interrupt, Manager!SendSigint, Manager!Wait5Raises,
         Manager!Destroy

LEMMA StopsFrame ==
  ASSUME Stops
  PROVE  /\ ~Manager!Running /\ Manager!Stopped /\ mpc \in {"stop", "wait8", "wait5"}
         /\ UNCHANGED <<call, lastMap, Manager!worldVars, Manager!managerHistory>>
  BY DEF Stops, Manager!StopNothing, Manager!WaitReturns

(* An instance that is referred to has been started. *)
LEMMA CountsStep ==
  ASSUME Counts, Known, [Manager!ManagerNext]_(Manager!managerAll)
  PROVE  Counts'
  <1>1. CASE Manager!Start
    BY <1>1 DEF Manager!Start, Manager!Spawn, Manager!Running, Counts, Known
  <1>2. CASE Manager!PublishMap
    BY <1>2 DEF Manager!PublishMap, Manager!managerVars, Manager!managerHistory, Counts, Known
  <1>3. CASE \E i \in Manager!Instances : Manager!End(i)
    BY <1>3 DEF Manager!End, Manager!managerVars, Manager!managerHistory, Counts, Known
  <1>4. CASE Manager!TakeMap
    BY <1>4 DEF Manager!TakeMap, Manager!managerHistory, Counts, Known
  <1>5. CASE Manager!Export
    BY <1>5 DEF Manager!Export, Manager!worldVars, Counts, Known
  <1>6. CASE Manager!SendSigkill
    BY <1>6 DEF Manager!SendSigkill, Manager!Running, Manager!managerHistory, Counts, Known
  <1>7. CASE Moves
    BY <1>7, MovesFrame DEF Manager!worldVars, Manager!managerHistory, Counts, Known
  <1>8. CASE Stops
    BY <1>8, StopsFrame DEF Manager!Stopped, Manager!Running, Manager!worldVars,
                            Manager!managerHistory, Counts, Known
  <1>9. CASE UNCHANGED Manager!managerAll
    BY <1>9 DEF Manager!managerAll, Manager!managerVars, Manager!worldVars,
                Manager!managerHistory, Counts, Known
  <1> QED BY <1>1, <1>2, <1>3, <1>4, <1>5, <1>6, <1>7, <1>8, <1>9, ManagerSteps

LEMMA KnownStep ==
  ASSUME Counts, Known, [Manager!ManagerNext]_(Manager!managerAll)
  PROVE  Known'
  <1>1. CASE Manager!Start
    BY <1>1 DEF Manager!Start, Manager!Spawn, Manager!Running, Counts, Known
  <1>2. CASE Manager!PublishMap
    BY <1>2 DEF Manager!PublishMap, Manager!managerVars, Manager!managerHistory, Counts, Known
  <1>3. CASE \E i \in Manager!Instances : Manager!End(i)
    BY <1>3 DEF Manager!End, Manager!managerVars, Manager!managerHistory, Counts, Known
  <1>4. CASE Manager!TakeMap
    BY <1>4 DEF Manager!TakeMap, Manager!managerHistory, Counts, Known
  <1>5. CASE Manager!Export
    BY <1>5 DEF Manager!Export, Manager!worldVars, Counts, Known
  <1>6. CASE Manager!SendSigkill
    BY <1>6 DEF Manager!SendSigkill, Manager!Running, Manager!managerHistory, Counts, Known
  <1>7. CASE Moves
    BY <1>7, MovesFrame DEF Manager!worldVars, Manager!managerHistory, Counts, Known
  <1>8. CASE Stops
    BY <1>8, StopsFrame DEF Manager!Stopped, Manager!Running, Manager!worldVars,
                            Manager!managerHistory, Counts, Known
  <1>9. CASE UNCHANGED Manager!managerAll
    BY <1>9 DEF Manager!managerAll, Manager!managerVars, Manager!worldVars,
                Manager!managerHistory, Counts, Known
  <1> QED BY <1>1, <1>2, <1>3, <1>4, <1>5, <1>6, <1>7, <1>8, <1>9, ManagerSteps

(* The thread's place and the call it serves. *)
LEMMA PlacesStep ==
  ASSUME Places, Calls, [Manager!ManagerNext]_(Manager!managerAll)
  PROVE  (Places /\ Calls)'
  <1>1. CASE Manager!Start
    BY <1>1 DEF Manager!Start, Manager!Spawn, Manager!Running, Places, Calls
  <1>2. CASE Manager!PublishMap
    BY <1>2 DEF Manager!PublishMap, Manager!managerVars, Manager!managerHistory, Places, Calls
  <1>3. CASE \E i \in Manager!Instances : Manager!End(i)
    BY <1>3 DEF Manager!End, Manager!managerVars, Manager!managerHistory, Places, Calls
  <1>4. CASE Manager!TakeMap
    BY <1>4 DEF Manager!TakeMap, Manager!managerHistory, Places, Calls
  <1>5. CASE Manager!Export
    BY <1>5 DEF Manager!Export, Manager!worldVars, Places, Calls
  <1>6. CASE Manager!SendSigkill
    BY <1>6 DEF Manager!SendSigkill, Manager!managerHistory, Places, Calls
  <1>7. CASE Moves
    BY <1>7, MovesFrame DEF Moves, Manager!Request, Manager!Upload, Manager!ExportFails,
                            Manager!ExportRaises, Manager!Interrupt,
                            Manager!SendSigint, Manager!Wait5Raises, Manager!Destroy,
                            Manager!AfterExport, Places, Calls
  <1>8. CASE Stops
    BY <1>8, StopsFrame DEF Manager!Stopped, Manager!Running, Manager!worldVars,
                            Manager!managerHistory, Places, Calls
  <1>9. CASE UNCHANGED Manager!managerAll
    BY <1>9 DEF Manager!managerAll, Manager!managerVars, Manager!worldVars,
                Manager!managerHistory, Places, Calls
  <1> QED BY <1>1, <1>2, <1>3, <1>4, <1>5, <1>6, <1>7, <1>8, <1>9, ManagerSteps

(* A start finds nothing running, and a stop forgets nothing that runs. *)
LEMMA AloneStep ==
  ASSUME Counts, Known, Alone, [Manager!ManagerNext]_(Manager!managerAll)
  PROVE  Alone'
  <1>1. CASE Manager!Start
    BY <1>1 DEF Manager!Start, Manager!Spawn, Manager!Running, Counts, Known,
                Alone
  <1>2. CASE Manager!PublishMap
    BY <1>2 DEF Manager!PublishMap, Manager!managerVars, Manager!managerHistory, Counts, Known,
                Alone
  <1>3. CASE \E i \in Manager!Instances : Manager!End(i)
    BY <1>3 DEF Manager!End, Manager!managerVars, Manager!managerHistory, Counts, Known, Alone
  <1>4. CASE Manager!TakeMap
    BY <1>4 DEF Manager!TakeMap, Manager!managerHistory, Counts, Known, Alone
  <1>5. CASE Manager!Export
    BY <1>5 DEF Manager!Export, Manager!worldVars, Counts, Known, Alone
  <1>6. CASE Manager!SendSigkill
    BY <1>6 DEF Manager!SendSigkill, Manager!managerHistory, Counts, Known, Alone
  <1>7. CASE Moves
    BY <1>7, MovesFrame DEF Manager!worldVars, Manager!managerHistory, Counts, Known, Alone
  <1>8. CASE Stops
    BY <1>8, StopsFrame DEF Manager!Stopped, Manager!Running, Manager!worldVars,
                            Manager!managerHistory, Counts, Known, Alone
  <1>9. CASE UNCHANGED Manager!managerAll
    BY <1>9 DEF Manager!managerAll, Manager!managerVars, Manager!worldVars,
                Manager!managerHistory, Counts, Known, Alone
  <1> QED BY <1>1, <1>2, <1>3, <1>4, <1>5, <1>6, <1>7, <1>8, <1>9, ManagerSteps

(* The second wait comes after the SIGKILL, and starts nothing. *)
LEMMA KillSentStep ==
  ASSUME KillSent, [Manager!ManagerNext]_(Manager!managerAll)
  PROVE  KillSent'
  <1>1. CASE Manager!Start
    BY <1>1 DEF Manager!Start, Manager!Spawn, Manager!Running, KillSent
  <1>2. CASE Manager!PublishMap
    BY <1>2 DEF Manager!PublishMap, Manager!managerVars, Manager!managerHistory, KillSent
  <1>3. CASE \E i \in Manager!Instances : Manager!End(i)
    BY <1>3 DEF Manager!End, Manager!managerVars, Manager!managerHistory, KillSent
  <1>4. CASE Manager!TakeMap
    BY <1>4 DEF Manager!TakeMap, Manager!managerHistory, KillSent
  <1>5. CASE Manager!Export
    BY <1>5 DEF Manager!Export, Manager!worldVars, KillSent
  <1>6. CASE Manager!SendSigkill
    BY <1>6 DEF Manager!SendSigkill, Manager!managerHistory, KillSent
  <1>7. CASE Moves
    BY <1>7, MovesFrame DEF Moves, Manager!Request, Manager!Upload, Manager!ExportFails,
                            Manager!ExportRaises, Manager!Interrupt,
                            Manager!SendSigint, Manager!Wait5Raises, Manager!Destroy,
                            Manager!AfterExport, KillSent
  <1>8. CASE Stops
    BY <1>8, StopsFrame DEF Manager!Stopped, Manager!Running, Manager!worldVars,
                            Manager!managerHistory, KillSent
  <1>9. CASE UNCHANGED Manager!managerAll
    BY <1>9 DEF Manager!managerAll, Manager!managerVars, Manager!worldVars,
                Manager!managerHistory, KillSent
  <1> QED BY <1>1, <1>2, <1>3, <1>4, <1>5, <1>6, <1>7, <1>8, <1>9, ManagerSteps

(* The node ends after a stop, or out of the second wait. *)
LEMMA NoOrphanStep ==
  ASSUME Counts, Known, Alone, KillSent, Manager!NoOrphan,
  [Manager!ManagerNext]_(Manager!managerAll)
  PROVE  Manager!NoOrphan'
  <1>1. CASE Manager!Start
    BY <1>1 DEF Manager!Start, Manager!Spawn, Manager!Running, Counts, Known,
                Alone, KillSent, Manager!NoOrphan
  <1>2. CASE Manager!PublishMap
    BY <1>2 DEF Manager!PublishMap, Manager!managerVars, Manager!managerHistory, Counts, Known,
                Alone,
                KillSent, Manager!NoOrphan
  <1>3. CASE \E i \in Manager!Instances : Manager!End(i)
    BY <1>3 DEF Manager!End, Manager!managerVars, Manager!managerHistory, Counts, Known, Alone,
                KillSent,
                Manager!NoOrphan
  <1>4. CASE Manager!TakeMap
    BY <1>4 DEF Manager!TakeMap, Manager!managerHistory, Counts, Known, Alone,
                KillSent, Manager!NoOrphan
  <1>5. CASE Manager!Export
    BY <1>5 DEF Manager!Export, Manager!worldVars, Counts, Known, Alone, KillSent,
                Manager!NoOrphan
  <1>6. CASE Manager!SendSigkill
    BY <1>6 DEF Manager!SendSigkill, Manager!managerHistory, Counts, Known,
                Alone, KillSent, Manager!NoOrphan
  <1>7. CASE Moves
    <2>1. CASE mpc = "gone" \/ mpc' # "gone"
      BY <1>7, <2>1, MovesFrame
      DEF Moves, Manager!Request, Manager!Upload, Manager!ExportFails, Manager!ExportRaises,
          Manager!Interrupt, Manager!SendSigint, Manager!Wait5Raises,
          Manager!worldVars, Manager!NoOrphan
    <2>2. CASE mpc # "gone" /\ mpc' = "gone"
      <3>1. Manager!Wait5Raises
        BY <1>7, <2>2 DEF Moves, Manager!Request, Manager!Upload, Manager!ExportFails,
                          Manager!ExportRaises, Manager!Interrupt,
                          Manager!SendSigint,
                          Manager!Destroy, Manager!AfterExport
      <3>2. alive \subseteq killed
        BY <3>1 DEF Manager!Wait5Raises, KillSent, Alone
      <3> QED BY <3>2, <1>7, MovesFrame DEF Manager!NoOrphan, Manager!worldVars
    <2> QED BY <2>1, <2>2
  <1>8. CASE Stops
    <2>1. alive = {}
      BY <1>8, StopsFrame DEF Manager!Running, Counts, Known, Alone
    <2> QED BY <1>8, <2>1, StopsFrame DEF Manager!worldVars, Manager!NoOrphan
  <1>9. CASE UNCHANGED Manager!managerAll
    BY <1>9 DEF Manager!managerAll, Manager!managerVars, Manager!worldVars,
                Manager!managerHistory, Counts, Known, Alone,
                KillSent, Manager!NoOrphan
  <1> QED BY <1>1, <1>2, <1>3, <1>4, <1>5, <1>6, <1>7, <1>8, <1>9, ManagerSteps

(* A start empties the cache; what then fills it is of the new instance. *)
LEMMA FreshStep ==
  ASSUME Counts, Known, Alone, Fresh, [Manager!ManagerNext]_(Manager!managerAll)
  PROVE  Fresh'
  <1>1. CASE Manager!Start
    BY <1>1 DEF Manager!Start, Manager!Spawn, Manager!Running, Counts, Known,
                Alone, Fresh
  <1>2. CASE Manager!PublishMap
    BY <1>2 DEF Manager!PublishMap, Manager!managerVars, Manager!managerHistory, Counts, Known,
                Alone, Fresh
  <1>3. CASE \E i \in Manager!Instances : Manager!End(i)
    BY <1>3 DEF Manager!End, Manager!managerVars, Manager!managerHistory, Counts, Known, Alone,
                Fresh
  <1>4. CASE Manager!TakeMap
    BY <1>4 DEF Manager!TakeMap, Manager!managerHistory, Counts, Known, Alone, Fresh
  <1>5. CASE Manager!Export
    BY <1>5 DEF Manager!Export, Manager!worldVars, Counts, Known, Alone, Fresh
  <1>6. CASE Manager!SendSigkill
    BY <1>6 DEF Manager!SendSigkill, Manager!managerHistory, Counts, Known,
                Alone, Fresh
  <1>7. CASE Moves
    BY <1>7, MovesFrame DEF Manager!worldVars, Manager!managerHistory, Counts, Known, Alone,
                            Fresh
  <1>8. CASE Stops
    BY <1>8, StopsFrame DEF Manager!Stopped, Manager!Running, Manager!worldVars,
                            Manager!managerHistory, Counts, Known, Alone,
                            Fresh
  <1>9. CASE UNCHANGED Manager!managerAll
    BY <1>9 DEF Manager!managerAll, Manager!managerVars, Manager!worldVars,
                Manager!managerHistory, Counts, Known, Alone, Fresh
  <1> QED BY <1>1, <1>2, <1>3, <1>4, <1>5, <1>6, <1>7, <1>8, <1>9, ManagerSteps

LEMMA ExportStep ==
  ASSUME Counts, Fresh, Manager!ExportOwnMap, [Manager!ManagerNext]_(Manager!managerAll)
  PROVE  Manager!ExportOwnMap'
  <1>1. CASE Manager!Start
    BY <1>1 DEF Manager!Start, Manager!Spawn, Manager!Running, Counts, Fresh,
                Manager!ExportOwnMap
  <1>2. CASE Manager!PublishMap
    BY <1>2 DEF Manager!PublishMap, Manager!managerVars, Manager!managerHistory, Counts, Fresh,
                Manager!ExportOwnMap
  <1>3. CASE \E i \in Manager!Instances : Manager!End(i)
    BY <1>3 DEF Manager!End, Manager!managerVars, Manager!managerHistory, Counts, Fresh,
                Manager!ExportOwnMap
  <1>4. CASE Manager!TakeMap
    BY <1>4 DEF Manager!TakeMap, Manager!managerHistory, Counts, Fresh, Manager!ExportOwnMap
  <1>5. CASE Manager!Export
    BY <1>5 DEF Manager!Export, Manager!worldVars, Counts, Fresh, Manager!ExportOwnMap
  <1>6. CASE Manager!SendSigkill
    BY <1>6 DEF Manager!SendSigkill, Manager!managerHistory, Counts, Fresh,
                Manager!ExportOwnMap
  <1>7. CASE Moves
    BY <1>7, MovesFrame DEF Manager!worldVars, Manager!managerHistory, Counts, Fresh,
                            Manager!ExportOwnMap
  <1>8. CASE Stops
    BY <1>8, StopsFrame DEF Manager!Stopped, Manager!Running, Manager!worldVars,
                            Manager!managerHistory, Counts, Fresh,
                            Manager!ExportOwnMap
  <1>9. CASE UNCHANGED Manager!managerAll
    BY <1>9 DEF Manager!managerAll, Manager!managerVars, Manager!worldVars,
                Manager!managerHistory, Counts, Fresh, Manager!ExportOwnMap
  <1> QED BY <1>1, <1>2, <1>3, <1>4, <1>5, <1>6, <1>7, <1>8, <1>9, ManagerSteps

LEMMA HistoryStep ==
  ASSUME Counts, History, late \in BOOLEAN, [Manager!ManagerNext]_(Manager!managerAll)
  PROVE  (History /\ late \in BOOLEAN)'
  <1>1. CASE Manager!Start
    BY <1>1 DEF Manager!Start, Manager!Spawn, Manager!Running, Counts, History
  <1>2. CASE Manager!PublishMap
    BY <1>2 DEF Manager!PublishMap, Manager!managerVars, Manager!managerHistory, Counts, History
  <1>3. CASE \E i \in Manager!Instances : Manager!End(i)
    BY <1>3 DEF Manager!End, Manager!managerVars, Manager!managerHistory, Counts, History
  <1>4. CASE Manager!TakeMap
    BY <1>4 DEF Manager!TakeMap, Manager!managerHistory, Counts, History
  <1>5. CASE Manager!Export
    BY <1>5 DEF Manager!Export, Manager!worldVars, Counts, History
  <1>6. CASE Manager!SendSigkill
    BY <1>6 DEF Manager!SendSigkill, Manager!managerHistory, Counts, History
  <1>7. CASE Moves
    BY <1>7, MovesFrame DEF Manager!worldVars, Manager!managerHistory, Counts, History
  <1>8. CASE Stops
    BY <1>8, StopsFrame DEF Manager!Stopped, Manager!Running, Manager!worldVars,
                            Manager!managerHistory, Counts, History
  <1>9. CASE UNCHANGED Manager!managerAll
    BY <1>9 DEF Manager!managerAll, Manager!managerVars, Manager!worldVars,
                Manager!managerHistory, Counts, History
  <1> QED BY <1>1, <1>2, <1>3, <1>4, <1>5, <1>6, <1>7, <1>8, <1>9, ManagerSteps

(* The strengthened invariant of the manager: what it knows of its         *)
(* processes and where an old map can hide.                                *)
THEOREM ManagerInvariance == Manager!ManagerSpec => []ManagerIInv
  <1>1. ASSUME Manager!ManagerInit
        PROVE  ManagerIInv
    <2>1. Counts /\ Known /\ Places /\ Calls /\ Alone /\ KillSent /\ Manager!NoOrphan
      BY <1>1 DEF Manager!ManagerInit, Counts, Known, Places, Calls, Alone, KillSent,
                  Manager!NoOrphan
    <2>2. Fresh /\ late \in BOOLEAN
      BY <1>1 DEF Manager!ManagerInit, Fresh
    <2>3. Manager!ExportOwnMap
      BY <1>1 DEF Manager!ManagerInit, Manager!ExportOwnMap
    <2>4. History
      <3>1. 0 \in 0 .. map
        BY <1>1 DEF Manager!ManagerInit
      <3> QED BY <1>1, <3>1 DEF Manager!ManagerInit, History
    <2> QED BY <2>1, <2>2, <2>3, <2>4 DEF ManagerIInv
  <1>2. ManagerIInv /\ [Manager!ManagerNext]_(Manager!managerAll) => ManagerIInv'
    BY CountsStep, KnownStep, PlacesStep, AloneStep, KillSentStep, NoOrphanStep, FreshStep,
       ExportStep, HistoryStep DEF ManagerIInv
  <1> QED BY <1>1, <1>2, PTL DEF Manager!ManagerSpec

(* Every variable of the manager holds a value of its type. *)
THEOREM ManagerTypeCorrect == Manager!ManagerSpec => []Manager!ManagerTypeOK
  <1>1. ManagerIInv => Manager!ManagerTypeOK
    BY DEF ManagerIInv, Counts, Known, Places, Calls, History, Manager!ManagerTypeOK
  <1> QED BY <1>1, ManagerInvariance, PTL

(* However often slam_toolbox is started, crashes or outlives the waits of *)
(* a stop, two never run at once: the one that may run is in _slam_proc.   *)
THEOREM OneAtATime == Manager!ManagerSpec => []Manager!OneSlam
  <1>1. ManagerIInv => Manager!OneSlam
    BY DEF ManagerIInv, Alone, Manager!OneSlam
  <1> QED BY <1>1, ManagerInvariance, PTL

(* _export_map() never writes the map of an earlier run, unless one waited *)
(* in the queue when the run began.                                        *)
THEOREM ExportsOwnMap == Manager!ManagerSpec => []Manager!ExportOwnMap
  <1>1. ManagerIInv => Manager!ExportOwnMap
    BY DEF ManagerIInv
  <1> QED BY <1>1, ManagerInvariance, PTL

(* Whatever way the node ends, no slam_toolbox is left running that has    *)
(* not been sent SIGKILL.                                                  *)
THEOREM LeavesNoOrphan == Manager!ManagerSpec => []Manager!NoOrphan
  <1>1. ManagerIInv => Manager!NoOrphan
    BY DEF ManagerIInv
  <1> QED BY <1>1, ManagerInvariance, PTL

(* _srv_stop() answers when no slam_toolbox runs: the only way back to the *)
(* executor from a stop is the end of _stop_slam().                        *)
THEOREM StopsAnswered == Manager!ManagerSpec => Manager!StopAnswered
  <1> DEFINE Answer == call = "stop" /\ mpc # "spin" /\ mpc' = "spin" => alive = {}
  <1>1. ASSUME ManagerIInv, [Manager!ManagerNext]_(Manager!managerAll)
        PROVE  Answer
    <2> SUFFICES ASSUME call = "stop", mpc # "spin", mpc' = "spin" PROVE alive = {}
      OBVIOUS
    <2>1. CASE Stops
      BY <1>1, <2>1, StopsFrame DEF ManagerIInv, Counts, Known, Alone, Manager!Running
    <2>2. CASE Moves
      BY <2>2 DEF Moves, Manager!Request, Manager!Upload, Manager!ExportFails,
                  Manager!ExportRaises, Manager!Interrupt, Manager!SendSigint,
                  Manager!Wait5Raises, Manager!Destroy, Manager!AfterExport
    <2>3. CASE Manager!Start \/ Manager!TakeMap \/ Manager!Export \/ Manager!SendSigkill
      BY <2>3 DEF Manager!Start, Manager!Spawn, Manager!TakeMap, Manager!Export,
                  Manager!SendSigkill
    <2>4. CASE \/ Manager!PublishMap \/ (\E i \in Manager!Instances : Manager!End(i))
               \/ UNCHANGED Manager!managerAll
      BY <2>4 DEF Manager!PublishMap, Manager!End, Manager!managerAll, Manager!managerVars
    <2> QED BY <1>1, <2>1, <2>2, <2>3, <2>4, ManagerSteps
  <1> QED BY <1>1, ManagerInvariance, PTL DEF Manager!ManagerSpec, Manager!StopAnswered

-----------------------------------------------------------------------------
(* The composition.                                                        *)

(* The manager's own steps are none of the markers'. *)
LEMMA ManagerFrame ==
  ASSUME Manager!ManagerRest
  PROVE  map' = map
  BY DEF Manager!ManagerRest, Manager!PublishMap, Manager!End, Manager!TakeMap, Manager!Request,
         Manager!Interrupt, Manager!Destroy, Manager!Serve, Manager!Export, Manager!Upload,
         Manager!ExportFails, Manager!ExportRaises, Manager!StopSlam, Manager!StopNothing,
         Manager!SendSigint, Manager!WaitReturns, Manager!SendSigkill, Manager!Wait5Raises,
         Manager!worldVars

(* And the marker node's steps start no map. *)
LEMMA MarkerFrame ==
  ASSUME Expire \/ NewMap \/ Rx \/ Transform
  PROVE  map' = map
  BY DEF Expire, NewMap, Rx, Transform, Lookup, NumberSphere, BumpSphere, NumberText, BumpText,
         AppendMarkers, AppendCsv, slamVars

(* The marker node, whatever slam_manager.py does between two maps, sees   *)
(* nothing that its own specification does not allow.                      *)
THEOREM SessionImplementsMarkers == SessionSpec => Spec
  <1>1. SessionInit => Init
    BY DEF SessionInit
  <1>2. [SessionNext]_sessionVars => [Next]_vars
    <2>1. StartSession => Next
      BY DEF StartSession, Next
    <2>2. ManagerStep => UNCHANGED vars
      BY ManagerFrame DEF ManagerStep, markerVars, vars, slamVars
    <2>3. MarkerStep => Next
      BY DEF MarkerStep, Next
    <2>4. UNCHANGED sessionVars => UNCHANGED vars
      BY DEF sessionVars
    <2> QED BY <2>1, <2>2, <2>3, <2>4 DEF SessionNext
  <1> QED BY <1>1, <1>2, PTL DEF SessionSpec, Spec

(* And the manager, with the markers beside it, does what it does alone. *)
THEOREM SessionImplementsManager == SessionSpec => Manager!ManagerSpec
  <1>1. SessionInit => Manager!ManagerInit
    BY DEF SessionInit
  <1>2. [SessionNext]_sessionVars => [Manager!ManagerNext]_(Manager!managerAll)
    <2>1. StartSession => Manager!ManagerNext
      BY DEF StartSession, Manager!ManagerNext
    <2>2. ManagerStep => Manager!ManagerNext
      BY DEF ManagerStep, Manager!ManagerNext
    <2>3. MarkerStep => UNCHANGED Manager!managerAll
      BY MarkerFrame DEF MarkerStep, managerOnly, Manager!managerAll, Manager!managerVars,
                         Manager!worldVars, Manager!managerHistory
    <2>4. UNCHANGED sessionVars => UNCHANGED Manager!managerAll
      BY DEF sessionVars, vars, slamVars, managerOnly, Manager!managerAll, Manager!managerVars,
             Manager!worldVars, Manager!managerHistory
    <2> QED BY <2>1, <2>2, <2>3, <2>4 DEF SessionNext
  <1> QED BY <1>1, <1>2, PTL DEF SessionSpec, Manager!ManagerSpec

(* Hence the ids increase, one pair at most outlives its map, and the      *)
(* viewers show the array, however the maps are started and stopped.       *)
THEOREM SessionKeepsMarkers ==
  SessionSpec => []IdsIncrease /\ []AtMostOneStale /\ []EveryMarkerShown
  BY SessionImplementsMarkers, IdsOrdered, OneOutlivesItsMap, EveryViewerSeesTheArray, PTL

(* In the composition too one slam_toolbox runs at most.                   *)
THEOREM SessionOneSlam == SessionSpec => []OneSlam
  <1>1. Manager!OneSlam => OneSlam
    BY DEF OneSlam
  <1> QED BY <1>1, SessionImplementsManager, OneAtATime, PTL

(* An exported map is that of the newest map number the markers have seen, *)
(* unless one of an earlier run waited in the queue.                       *)
THEOREM SessionExportsOwnMap == SessionSpec => []ExportOwnMap
  <1>1. Manager!ExportOwnMap => ExportOwnMap
    BY DEF ExportOwnMap
  <1> QED BY <1>1, SessionImplementsManager, ExportsOwnMap, PTL

(* And the node leaves none of the maps' instances running unkilled.       *)
THEOREM SessionLeavesNoOrphan == SessionSpec => []NoOrphan
  <1>1. Manager!NoOrphan => NoOrphan
    BY DEF NoOrphan
  <1> QED BY <1>1, SessionImplementsManager, LeavesNoOrphan, PTL

(* And a stop is answered only when no map is being drawn.                 *)
THEOREM SessionStopsAnswered == SessionSpec => StopAnswered
  BY SessionImplementsManager, StopsAnswered, PTL DEF StopAnswered
===============================================================================
