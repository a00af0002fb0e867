------------------------ MODULE ControllerLife_proofs -----------------------
(***************************************************************************)
(* Theorems about ControllerLife, for any services, lives of the           *)
(* controller's process, calls and bound of the queues.                    *)
(***************************************************************************)
EXTENDS ControllerLife, SequenceTheorems, TLAPS

-----------------------------------------------------------------------------
(* Bindings carry the life they were made in; a directory has the bindings *)
(* of one life, and every binding adds to it.                              *)
Binding   == Services \X (1 .. MaxLives) \X Nat
Threads   == {"none", "new", "constructed", "run", "test", "recv", "publish", "ended",
              "closed", "wild", "broken"}

Directory == Seq(Binding)

CtlTypes ==
  /\ life \in 0 .. MaxLives /\ thread \in Threads 
  /\ thread # "none" \/ handle # "none" => life # 0
  /\ handle \in {"none", "unset", "set"} /\ running \in BOOLEAN
  /\ directory \in Directory /\ published \in [1 .. MaxLives -> Seq(Directory)]
SvcTypes ==
  /\ requests \subseteq Services /\ replies \subseteq Services
  /\ call \in [Services -> {"idle", "subscribe", "topology"}] /\ calls \in [Services -> Nat]
SubTypes ==
  joined \subseteq Services /\ inbox \in [Services -> Seq(Directory)] /\ view \in [Services -> Directory]
EndTypes ==
  stopped \in {"no", "early", "bound"} /\ handled \in Nat

LifeTypeOK == CtlTypes /\ SvcTypes /\ SubTypes /\ EndTypes

LEMMA NextLifeTypeOK == LifeTypeOK /\ [LifeNext]_lifeVars => LifeTypeOK'
<1> SUFFICES ASSUME LifeTypeOK, [LifeNext]_lifeVars PROVE LifeTypeOK'
  OBVIOUS
<1> USE DEF LifeTypeOK
<1>0. /\ UNCHANGED ctlVars => CtlTypes'
      /\ UNCHANGED svcVars => SvcTypes'
      /\ UNCHANGED subVars => SubTypes'
      /\ UNCHANGED endVars => EndTypes'
  BY DEF CtlTypes, SvcTypes, SubTypes, EndTypes, ctlVars, svcVars, subVars, endVars
<1>1. CASE StartController
  <2>1. CtlTypes'
    BY <1>1, LifeAssumption DEF StartController, CtlTypes, Threads
  <2> QED BY <1>0, <1>1, <2>1 DEF StartController
<1>2. CASE Construct
  <2>1. CtlTypes'
    <3>1. <<>> \in Directory
      BY DEF Directory
    <3> QED BY <1>2, <3>1 DEF Construct, CtlTypes, Threads
  <2> QED BY <1>0, <1>2, <2>1 DEF Construct
<1>3. CASE AssignHandle \/ BeginRun \/ TestRunning
  <2>1. CtlTypes'
    BY <1>3 DEF AssignHandle, BeginRun, TestRunning, CtlTypes, Threads
  <2> QED BY <1>0, <1>3, <2>1 DEF AssignHandle, BeginRun, TestRunning
<1>4. CASE Publish
  <2>1. directory \in Directory /\ published \in [1 .. MaxLives -> Seq(Directory)]
    BY DEF CtlTypes
  <2>2. published' \in [1 .. MaxLives -> Seq(Directory)]
    <3>1. \A l \in 1 .. MaxLives : Append(published[l], directory) \in Seq(Directory)
      BY <2>1
    <3> QED BY <1>4, <2>1, <3>1 DEF Publish
  <2>3. CtlTypes'
    BY <1>4, <2>2 DEF Publish, CtlTypes, Threads
  <2>4. inbox' \in [Services -> Seq(Directory)]
    BY <1>4, <2>1 DEF Publish, SubTypes
  <2>5. SubTypes'
    BY <1>4, <2>4 DEF Publish, SubTypes
  <2> QED BY <1>0, <1>4, <2>3, <2>5 DEF Publish
<1>5. CASE Stop
  <2>1. CtlTypes' /\ EndTypes'
    BY <1>5 DEF Stop, CtlTypes, EndTypes, Threads
  <2> QED BY <1>0, <1>5, <2>1 DEF Stop
<1>6. CASE Terminate
  <2>1. CtlTypes'
    BY <1>6 DEF Terminate, CtlTypes, Threads
  <2> QED BY <1>0, <1>6, <2>1 DEF Terminate
<1>7. ASSUME NEW kept \in SUBSET (Services \ {Owner}), Crash(kept)
      PROVE  LifeTypeOK'
  <2>1. <<>> \in Directory /\ <<>> \in Seq(Directory)
    BY DEF Directory
  <2>2. CtlTypes'
    BY <1>7, <2>1 DEF Crash, CtlTypes, Threads
  <2>3. SvcTypes'
    BY <1>7 DEF Crash, SvcTypes
  <2>4. SubTypes'
    BY <1>7, <2>1 DEF Crash, SubTypes
  <2>5. EndTypes'
    BY <1>7 DEF Crash, EndTypes
  <2> QED BY <2>2, <2>3, <2>4, <2>5
<1>8. ASSUME NEW s \in Services, Receive(s)
      PROVE  LifeTypeOK'
  <2>1. directory' \in Directory
    <3>1. life \in 1 .. MaxLives /\ calls[s] \in Nat
      BY <1>8, LifeAssumption DEF Receive, CtlTypes, SvcTypes
    <3>2. BindingOf(s) \in Binding
      BY <3>1 DEF BindingOf, Binding
    <3>3. directory \in Seq(Binding)
      BY DEF CtlTypes, Directory
    <3>4. Append(directory, BindingOf(s)) \in Seq(Binding)
      BY <3>2, <3>3
    <3> QED BY <1>8, <3>3, <3>4 DEF Receive, Directory
  <2>2. CtlTypes'
    BY <1>8, <2>1 DEF Receive, CtlTypes, Threads
  <2>3. SvcTypes'
    BY <1>8 DEF Receive, SvcTypes
  <2>4. EndTypes'
    BY <1>8 DEF Receive, EndTypes
  <2> QED BY <1>0, <1>8, <2>2, <2>3, <2>4 DEF Receive
<1>9. ASSUME NEW s \in Services, Answered(s)
      PROVE  LifeTypeOK'
  <2>1. SvcTypes'
    BY <1>9 DEF Answered, SvcTypes
  <2> QED BY <1>0, <1>9, <2>1 DEF Answered
<1>10. ASSUME NEW s \in Services, Join(s)
       PROVE  LifeTypeOK'
  <2>1. SubTypes'
    BY <1>10 DEF Join, SubTypes
  <2> QED BY <1>0, <1>10, <2>1 DEF Join
<1>11. ASSUME NEW s \in Services, DirectoryUpdate(s)
       PROVE  LifeTypeOK'
  <2>1. inbox[s] \in Seq(Directory) /\ inbox[s] # <<>>
    BY <1>11 DEF DirectoryUpdate, SubTypes
  <2>2. Head(inbox[s]) \in Directory /\ Tail(inbox[s]) \in Seq(Directory)
    BY <2>1
  <2>3. SubTypes'
    BY <1>11, <2>2 DEF DirectoryUpdate, SubTypes
  <2> QED BY <1>0, <1>11, <2>3 DEF DirectoryUpdate
<1>12. ASSUME NEW s \in Services, NEW action \in {"subscribe", "topology"}, Ask(s, action)
       PROVE  LifeTypeOK'
  <2>1. SvcTypes'
    BY <1>12 DEF Ask, SvcTypes
  <2> QED BY <1>0, <1>12, <2>1 DEF Ask
<1>13. CASE UNCHANGED lifeVars
  BY <1>0, <1>13 DEF lifeVars
<1> QED
  BY <1>1, <1>2, <1>3, <1>4, <1>5, <1>6, <1>7, <1>8, <1>9, <1>10, <1>11, <1>12, <1>13 DEF LifeNext

LEMMA LifeTypes == LifeSpec => []LifeTypeOK
<1>1. LifeInit => LifeTypeOK
  <2> SUFFICES ASSUME LifeInit PROVE LifeTypeOK
    OBVIOUS
  <2>1. <<>> \in Directory /\ <<>> \in Seq(Directory)
    BY DEF Directory
  <2>2. CtlTypes
    <3>1. published \in [1 .. MaxLives -> Seq(Directory)] /\ directory \in Directory
      BY <2>1 DEF LifeInit
    <3>2. 0 \in 0 .. MaxLives
      BY LifeAssumption
    <3> QED BY <3>1, <3>2 DEF LifeInit, CtlTypes, Threads
  <2>3. SvcTypes /\ EndTypes
    BY DEF LifeInit, SvcTypes, EndTypes
  <2>4. SubTypes
    BY <2>1 DEF LifeInit, SubTypes
  <2> QED BY <2>2, <2>3, <2>4 DEF LifeTypeOK
<1> QED BY <1>1, NextLifeTypeOK, PTL DEF LifeSpec

-----------------------------------------------------------------------------
(* StopIsEffective: where the controller's thread is when a call of the    *)
(* owner has its answer.                                                   *)
Serving == {"test", "recv", "publish", "ended", "closed", "broken"}

OneRequestEach ==
  /\ \A s \in requests \cup replies : call[s] # "idle"
  /\ requests \cap replies = {}

HandleFollowsThread ==
  /\ thread = "none" <=> handle = "none"
  /\ thread \in {"run"} \cup Serving => handle = "set"
  /\ thread = "none" => calls[Owner] = 0

AnsweredMeansRunning ==
  calls[Owner] > 0 /\ (call[Owner] = "idle" \/ Owner \in replies) => thread \in Serving

StoppedLoop ==
  /\ stopped = "no" => handled = 0 /\ thread # "wild"
  /\ stopped = "bound" =>
       /\ ~running /\ thread \in Serving /\ handled <= 1
       /\ handled = 1 => thread # "recv"

StopInv ==
  OneRequestEach /\ HandleFollowsThread /\ AnsweredMeansRunning /\ StoppedLoop

LEMMA NextStopInv == LifeTypeOK /\ StopInv /\ [LifeNext]_lifeVars => StopInv'
<1> SUFFICES ASSUME LifeTypeOK, StopInv, [LifeNext]_lifeVars PROVE StopInv'
  OBVIOUS
<1> USE DEF StopInv, ctlVars, svcVars, subVars, endVars
<1>0. /\ Owner \in Services /\ calls \in [Services -> Nat]
      /\ call \in [Services -> {"idle", "subscribe", "topology"}]
      /\ requests \subseteq Services /\ replies \subseteq Services
      /\ handle \in {"none", "unset", "set"} /\ handled \in Nat /\ thread \in Threads
  BY LifeAssumption DEF LifeTypeOK, CtlTypes, SvcTypes, EndTypes
<1> USE DEF OneRequestEach, HandleFollowsThread, AnsweredMeansRunning, StoppedLoop, Serving, Threads
<1>1. CASE StartController
  BY <1>0, <1>1 DEF StartController
<1>2. CASE Construct
  BY <1>0, <1>2 DEF Construct
<1>3. CASE AssignHandle
  BY <1>0, <1>3 DEF AssignHandle
<1>4. CASE BeginRun
  BY <1>0, <1>4 DEF BeginRun
<1>5. CASE TestRunning
  BY <1>0, <1>5 DEF TestRunning
<1>6. CASE Publish
  BY <1>0, <1>6 DEF Publish
<1>7. CASE Stop
  BY <1>0, <1>7 DEF Stop
<1>8. CASE Terminate
  BY <1>0, <1>8 DEF Terminate
<1>9. ASSUME NEW kept \in SUBSET (Services \ {Owner}), Crash(kept)
      PROVE  StopInv'
  BY <1>0, <1>9 DEF Crash
<1>10. ASSUME NEW s \in Services, Receive(s)
       PROVE  StopInv'
  BY <1>0, <1>10 DEF Receive
<1>11. ASSUME NEW s \in Services, Answered(s)
       PROVE  StopInv'
  BY <1>0, <1>11 DEF Answered
<1>12. ASSUME NEW s \in Services, Join(s) \/ DirectoryUpdate(s)
       PROVE  StopInv'
  BY <1>0, <1>12 DEF Join, DirectoryUpdate
<1>13. ASSUME NEW s \in Services, NEW action \in {"subscribe", "topology"}, Ask(s, action)
       PROVE  StopInv'
  BY <1>0, <1>13 DEF Ask
<1>14. CASE UNCHANGED lifeVars
  BY <1>14 DEF lifeVars
<1> QED
  BY <1>1, <1>2, <1>3, <1>4, <1>5, <1>6, <1>7, <1>8, <1>9, <1>10, <1>11, <1>12, <1>13, <1>14
     DEF LifeNext

(* A stop() after a bind() of its process has returned finds the handle    *)
(* assigned and the loop entered, and the loop takes no request after the  *)
(* one recv() was waiting for: however the two threads are scheduled, and  *)
(* after any number of restarts.                                           *)
THEOREM StopsAreEffective == LifeSpec => []StopIsEffective
<1>1. LifeInit => StopInv
  BY LifeAssumption DEF LifeInit, StopInv, OneRequestEach, HandleFollowsThread, AnsweredMeansRunning,
     StoppedLoop, Serving
<1>2. StopInv => StopIsEffective
  BY DEF StopInv, StoppedLoop, StopIsEffective, Serving
<1> QED BY <1>1, <1>2, NextStopInv, LifeTypes, PTL DEF LifeSpec

-----------------------------------------------------------------------------
(* ViewsOfOneLife: no directory is published twice, since a life only adds *)
(* bindings of its own to the directory.                                   *)
PublishedGrow ==
  /\ \A l \in 1 .. MaxLives : l > life => published[l] = <<>>
  /\ \A l \in 1 .. MaxLives : \A i \in DOMAIN published[l] :
        /\ published[l][i] # <<>>
        /\ \A k \in DOMAIN published[l][i] : published[l][i][k][2] = l
        /\ \A j \in DOMAIN published[l] : i < j => Len(published[l][i]) < Len(published[l][j])

DirectoryAhead ==
  /\ thread \in {"none", "new"} => directory = <<>>
  /\ thread = "new" => published[life] = <<>>
  /\ \A k \in DOMAIN directory : directory[k][2] = life
  /\ thread # "none" => /\ life \in 1 .. MaxLives
                        /\ \A i \in DOMAIN published[life] : Len(published[life][i]) <= Len(directory)
  /\ thread = "publish" => /\ directory # <<>>
                           /\ \A i \in DOMAIN published[life] :
                                 Len(published[life][i]) < Len(directory)

Published == PublishedGrow /\ DirectoryAhead

LEMMA PublishAppends ==
  ASSUME LifeTypeOK, Publish, life \in 1 .. MaxLives
  PROVE  /\ \A l \in 1 .. MaxLives : l # life => published'[l] = published[l]
         /\ DOMAIN published[life] = 1 .. Len(published[life]) /\ Len(published[life]) \in Nat
         /\ DOMAIN published'[life] = 1 .. Len(published[life]) + 1
         /\ \A i \in DOMAIN published[life] : published'[life][i] = published[life][i]
         /\ published'[life][Len(published[life]) + 1] = directory
<1>1. published \in [1 .. MaxLives -> Seq(Directory)] /\ directory \in Directory
  BY DEF LifeTypeOK, CtlTypes
<1>2. published' = [published EXCEPT ![life] = Append(@, directory)]
  BY DEF Publish
<1>3. published'[life] = Append(published[life], directory) /\ published[life] \in Seq(Directory)
  BY <1>1, <1>2
<1>4. \A l \in 1 .. MaxLives : l # life => published'[l] = published[l]
  BY <1>1, <1>2
<1> QED BY <1>1, <1>3, <1>4

LEMMA DirectoryTypes ==
  ASSUME LifeTypeOK
  PROVE  /\ Len(directory) \in Nat
         /\ \A l \in 1 .. MaxLives : \A i \in DOMAIN published[l] : Len(published[l][i]) \in Nat
<1>1. published \in [1 .. MaxLives -> Seq(Directory)] /\ directory \in Directory
  BY DEF LifeTypeOK, CtlTypes
<1>2. \A d \in Directory : Len(d) \in Nat
  BY DEF Directory
<1>3. ASSUME NEW l \in 1 .. MaxLives, NEW i \in DOMAIN published[l]
      PROVE  published[l][i] \in Directory
  BY <1>1
<1> QED BY <1>1, <1>2, <1>3

LEMMA NextPublished ==
  LifeTypeOK /\ HandleFollowsThread /\ Published /\ [LifeNext]_lifeVars => Published'
<1> SUFFICES ASSUME LifeTypeOK, HandleFollowsThread, Published, [LifeNext]_lifeVars
             PROVE  Published'
  OBVIOUS
<1> USE DEF Published, ctlVars, svcVars, subVars, endVars
<1>0. /\ MaxLives \in Nat /\ life \in 0 .. MaxLives /\ thread \in Threads
      /\ published \in [1 .. MaxLives -> Seq(Directory)] /\ directory \in Directory
      /\ thread # "none" => life \in 1 .. MaxLives
  BY LifeAssumption DEF LifeTypeOK, CtlTypes
<1>1. CASE StartController
  <2>1. life' \in 1 .. MaxLives /\ life' = life + 1 /\ thread = "none" /\ thread' = "new"
        /\ UNCHANGED <<published, directory>>
    BY <1>0, <1>1 DEF StartController
  <2>2. published[life'] = <<>> /\ directory = <<>>
    BY <1>0, <2>1 DEF PublishedGrow, DirectoryAhead
  <2>3. PublishedGrow'
    BY <1>0, <2>1 DEF PublishedGrow
  <2> QED BY <2>1, <2>2, <2>3 DEF DirectoryAhead
<1>2. CASE Construct
  <2>1. thread = "new" /\ thread' = "constructed" /\ directory' = <<>> /\ UNCHANGED <<life, published>>
    BY <1>2 DEF Construct
  <2>2. published[life] = <<>>
    BY <2>1 DEF DirectoryAhead
  <2> QED BY <1>0, <2>1, <2>2 DEF PublishedGrow, DirectoryAhead
<1>3. ASSUME UNCHANGED <<life, published, directory>>, thread' \notin {"new", "publish"} \ {thread},
             thread = "none" <=> thread' = "none"
      PROVE  Published'
  BY <1>3 DEF PublishedGrow, DirectoryAhead
<1>4. CASE AssignHandle \/ BeginRun \/ TestRunning \/ Stop \/ Terminate
  BY <1>3, <1>4 DEF AssignHandle, BeginRun, TestRunning, Stop, Terminate, HandleFollowsThread
<1>5. CASE Publish
  <2>1. thread = "publish" /\ thread' = "test" /\ life \in 1 .. MaxLives /\ UNCHANGED <<life, directory>>
    BY <1>0, <1>5 DEF Publish
  <2> DEFINE n == Len(published[life])
  <2>2. /\ \A l \in 1 .. MaxLives : l # life => published'[l] = published[l]
        /\ DOMAIN published[life] = 1 .. n /\ n \in Nat
        /\ DOMAIN published'[life] = 1 .. n + 1
        /\ \A i \in DOMAIN published[life] : published'[life][i] = published[life][i]
        /\ published'[life][n + 1] = directory
    BY <1>5, <2>1, PublishAppends
  <2> HIDE DEF n
  <2>3. /\ directory # <<>> /\ Len(directory) \in Nat /\ \A k \in DOMAIN directory : directory[k][2] = life
        /\ \A i \in DOMAIN published[life] : Len(published[life][i]) < Len(directory)
    BY <2>1, DirectoryTypes DEF DirectoryAhead
  <2>4. \A i \in DOMAIN published'[life] : i \in DOMAIN published[life] \/ i = n + 1
    BY <2>2
  <2>5. PublishedGrow'
    <3>1. \A l \in 1 .. MaxLives : l > life' => published'[l] = <<>>
      BY <1>0, <2>1, <2>2 DEF PublishedGrow
    <3>2. ASSUME NEW l \in 1 .. MaxLives, NEW i \in DOMAIN published'[l]
          PROVE  /\ published'[l][i] # <<>>
                 /\ \A k \in DOMAIN published'[l][i] : published'[l][i][k][2] = l
                 /\ \A j \in DOMAIN published'[l] : i < j => Len(published'[l][i]) < Len(published'[l][j])
      <4>1. CASE l # life
        BY <2>2, <3>2, <4>1 DEF PublishedGrow
      <4>2. CASE l = life /\ i = n + 1
        <5>1. \A j \in DOMAIN published'[l] : ~(i < j)
          BY <2>2, <4>2
        <5> QED BY <2>2, <2>3, <4>2, <5>1
      <4>3. CASE l = life /\ i \in DOMAIN published[life]
        <5>1. /\ published[l][i] # <<>> /\ published'[l][i] = published[l][i]
              /\ \A k \in DOMAIN published[l][i] : published[l][i][k][2] = l
          BY <2>2, <3>2, <4>3 DEF PublishedGrow
        <5>2. ASSUME NEW j \in DOMAIN published'[l], i < j
              PROVE  Len(published'[l][i]) < Len(published'[l][j])
          <6>1. CASE j = n + 1
            BY <2>2, <2>3, <4>3, <6>1
          <6>2. CASE j \in DOMAIN published[life]
            BY <2>2, <4>3, <5>2, <6>2 DEF PublishedGrow
          <6> QED BY <2>4, <4>3, <5>2, <6>1, <6>2
        <5> QED BY <5>1, <5>2
      <4> QED BY <2>4, <3>2, <4>1, <4>2, <4>3
    <3> QED BY <3>1, <3>2 DEF PublishedGrow
  <2>6. \A i \in DOMAIN published'[life] : Len(published'[life][i]) <= Len(directory)
    BY <2>2, <2>3, <2>4, DirectoryTypes, <2>1
  <2> QED BY <2>1, <2>3, <2>5, <2>6 DEF DirectoryAhead
<1>6. ASSUME NEW kept \in SUBSET (Services \ {Owner}), Crash(kept)
      PROVE  Published'
  BY <1>6 DEF Crash, PublishedGrow, DirectoryAhead
<1>7. ASSUME NEW s \in Services, Receive(s)
      PROVE  Published'
  <2>1. CASE UNCHANGED directory
    BY <1>3, <1>7, <2>1 DEF Receive
  <2>2. CASE directory' = Append(directory, BindingOf(s))
    <3>1. thread = "recv" /\ thread' \in {"publish", "test"} /\ UNCHANGED <<life, published>>
      BY <1>7 DEF Receive
    <3>2. directory' # <<>> /\ Len(directory') = Len(directory) + 1 /\ Len(directory) \in Nat
      BY <1>0, <2>2 DEF Directory
    <3>3. \A k \in DOMAIN directory' : directory'[k][2] = life
      <4>1. BindingOf(s)[2] = life
        BY DEF BindingOf
      <4>2. \A k \in DOMAIN directory' : directory'[k] = BindingOf(s)
               \/ (k \in DOMAIN directory /\ directory'[k] = directory[k])
        BY <1>0, <2>2 DEF Directory
      <4> QED BY <4>1, <4>2 DEF DirectoryAhead
    <3>4. \A i \in DOMAIN published[life] : Len(published[life][i]) < Len(directory')
      BY <1>0, <3>1, <3>2, DirectoryTypes DEF DirectoryAhead
    <3>5. PublishedGrow'
      BY <3>1 DEF PublishedGrow
    <3>6. \A i \in DOMAIN published[life] : Len(published[life][i]) <= Len(directory')
      BY <1>0, <3>1, <3>2, DirectoryTypes DEF DirectoryAhead
    <3> QED BY <1>0, <3>1, <3>2, <3>3, <3>4, <3>5, <3>6 DEF DirectoryAhead
  <2> QED BY <1>7, <2>1, <2>2 DEF Receive
<1>8. ASSUME NEW s \in Services, Answered(s) \/ Join(s) \/ DirectoryUpdate(s)
      PROVE  Published'
  BY <1>3, <1>8 DEF Answered, Join, DirectoryUpdate
<1>9. ASSUME NEW s \in Services, NEW action \in {"subscribe", "topology"}, Ask(s, action)
      PROVE  Published'
  BY <1>3, <1>9 DEF Ask
<1>10. CASE UNCHANGED lifeVars
  BY <1>3, <1>10 DEF lifeVars
<1> QED
  BY <1>1, <1>2, <1>4, <1>5, <1>6, <1>7, <1>8, <1>9, <1>10 DEF LifeNext

(* Where a directory stands among the published ones.                      *)
StandsAt(pub, d, l, i) == l \in 1 .. MaxLives /\ i \in DOMAIN pub[l] /\ pub[l][i] = d
Stands(pub, d) == \E l \in 1 .. MaxLives : \E i \in DOMAIN pub[l] : StandsAt(pub, d, l, i)
Precedes(pub, d, e) ==
  \A l, i, m, j : StandsAt(pub, d, l, i) /\ StandsAt(pub, e, m, j) => l < m \/ (l = m /\ i < j)

UpdatesInOrder ==
  \A s \in Services :
    /\ view[s] = <<>> \/ Stands(published, view[s])
    /\ \A k \in DOMAIN inbox[s] :
         /\ Stands(published, inbox[s][k])
         /\ Precedes(published, view[s], inbox[s][k])
         /\ \A m \in DOMAIN inbox[s] : k < m => Precedes(published, inbox[s][k], inbox[s][m])

(* What Publish adds comes after everything published, and leaves the rest *)
(* where it stood.                                                         *)
LEMMA PublishIsLatest ==
  ASSUME LifeTypeOK, Published, Publish
  PROVE  /\ Stands(published', directory)
         /\ \A d : Stands(published, d) => /\ Stands(published', d)
                                           /\ Precedes(published', d, directory)
         /\ \A d, e : Stands(published, d) /\ Stands(published, e) /\ Precedes(published, d, e)
                         => Precedes(published', d, e)
         /\ \A d : d # directory /\ ~Stands(published, d) => ~Stands(published', d)
<1> DEFINE n == Len(published[life])
<1>0. /\ thread = "publish" /\ life \in 1 .. MaxLives /\ MaxLives \in Nat
      /\ published \in [1 .. MaxLives -> Seq(Directory)]
  BY LifeAssumption DEF Publish, Published, DirectoryAhead, LifeTypeOK, CtlTypes
<1>1. /\ \A l \in 1 .. MaxLives : l # life => published'[l] = published[l]
      /\ DOMAIN published[life] = 1 .. n /\ n \in Nat
      /\ DOMAIN published'[life] = 1 .. n + 1
      /\ \A i \in DOMAIN published[life] : published'[life][i] = published[life][i]
      /\ published'[life][n + 1] = directory
  BY <1>0, PublishAppends
<1> HIDE DEF n
<1>2. \A l, i : ~StandsAt(published, directory, l, i)
  <2> SUFFICES ASSUME NEW l, NEW i, StandsAt(published, directory, l, i) PROVE FALSE
    OBVIOUS
  <2>1. l \in 1 .. MaxLives /\ i \in DOMAIN published[l] /\ published[l][i] = directory
    BY DEF StandsAt
  <2>2. CASE l = life
    BY <1>0, <2>1, <2>2, DirectoryTypes DEF Published, DirectoryAhead
  <2>3. CASE l # life
    <3>1. directory \in Seq(Binding) /\ directory # <<>>
      BY <1>0 DEF Published, DirectoryAhead, LifeTypeOK, CtlTypes, Directory
    <3>2. 1 \in DOMAIN directory
      BY <3>1
    <3>3. directory[1][2] = l
      BY <2>1, <3>2 DEF Published, PublishedGrow
    <3>4. directory[1][2] = life
      BY <3>2 DEF Published, DirectoryAhead
    <3> QED BY <2>3, <3>3, <3>4
  <2> QED BY <2>2, <2>3
<1>3. ASSUME NEW d, NEW l, NEW i
      PROVE  StandsAt(published', d, l, i) <=>
                StandsAt(published, d, l, i) \/ (d = directory /\ l = life /\ i = n + 1)
  <2>1. CASE l = life
    BY <1>0, <1>1, <2>1 DEF StandsAt
  <2>2. CASE l # life
    BY <1>1, <2>2 DEF StandsAt
  <2> QED BY <2>1, <2>2
<1>4. ASSUME NEW d, NEW l, NEW i, StandsAt(published, d, l, i)
      PROVE  l < life \/ (l = life /\ i < n + 1)
  <2>1. l \in 1 .. MaxLives /\ i \in DOMAIN published[l]
    BY <1>4 DEF StandsAt
  <2>2. ~(l > life)
    BY <2>1 DEF Published, PublishedGrow
  <2>3. l = life => i \in 1 .. n
    BY <1>1, <2>1
  <2> QED BY <1>0, <1>1, <2>1, <2>2, <2>3
<1>5. \A d : Stands(published, d) => d # directory
  BY <1>2 DEF Stands
<1>6. Stands(published', directory)
  <2>1. StandsAt(published', directory, life, n + 1)
    BY <1>3
  <2> QED BY <1>0, <2>1 DEF Stands, StandsAt
<1>7. ASSUME NEW d, Stands(published, d)
      PROVE  Stands(published', d) /\ Precedes(published', d, directory)
  <2>1. PICK l, i : StandsAt(published, d, l, i)
    BY <1>7 DEF Stands
  <2>2. StandsAt(published', d, l, i)
    BY <1>3, <2>1
  <2>3. Stands(published', d)
    BY <2>2 DEF Stands, StandsAt
  <2>4. d # directory
    BY <1>5, <1>7
  <2>5. ASSUME NEW ld, NEW id, NEW le, NEW ie,
               StandsAt(published', d, ld, id), StandsAt(published', directory, le, ie)
        PROVE  ld < le \/ (ld = le /\ id < ie)
    <3>1. StandsAt(published, d, ld, id) /\ le = life /\ ie = n + 1
      BY <1>2, <1>3, <2>4, <2>5
    <3> QED BY <1>4, <3>1
  <2> QED BY <2>3, <2>5 DEF Precedes
<1>8. ASSUME NEW d, NEW e, Stands(published, d), Stands(published, e), Precedes(published, d, e)
      PROVE  Precedes(published', d, e)
  BY <1>3, <1>5, <1>8 DEF Precedes
<1>9. ASSUME NEW d, d # directory, ~Stands(published, d)
      PROVE  ~Stands(published', d)
  <2>1. \A l, i : ~StandsAt(published, d, l, i)
    BY <1>9 DEF Stands, StandsAt
  <2> QED BY <1>3, <1>9, <2>1 DEF Stands
<1> QED BY <1>6, <1>7, <1>8, <1>9

(* The empty directory is never published: nothing precedes it.            *)
LEMMA EmptyPrecedes ==
  ASSUME Published, NEW e
  PROVE  Precedes(published, <<>>, e)
<1>1. \A l, i : ~StandsAt(published, <<>>, l, i)
  BY DEF Published, PublishedGrow, StandsAt
<1> QED BY <1>1 DEF Precedes

LEMMA NextUpdatesInOrder ==
  LifeTypeOK /\ HandleFollowsThread /\ Published /\ UpdatesInOrder /\ [LifeNext]_lifeVars
    => UpdatesInOrder'
<1> SUFFICES ASSUME LifeTypeOK, HandleFollowsThread, Published, UpdatesInOrder, [LifeNext]_lifeVars
             PROVE  UpdatesInOrder'
  OBVIOUS
<1> USE DEF ctlVars, svcVars, subVars, endVars
<1>0. /\ inbox \in [Services -> Seq(Directory)] /\ view \in [Services -> Directory]
      /\ Published'
  BY NextPublished DEF LifeTypeOK, SubTypes
<1>1. ASSUME UNCHANGED <<published, inbox, view>>
      PROVE  UpdatesInOrder'
  BY <1>1 DEF UpdatesInOrder
<1>2. CASE StartController \/ Construct \/ AssignHandle \/ BeginRun \/ TestRunning \/ Stop \/ Terminate
  BY <1>1, <1>2 DEF StartController, Construct, AssignHandle, BeginRun, TestRunning, Stop, Terminate
<1>3. ASSUME NEW s \in Services, Receive(s) \/ Answered(s) \/ Join(s)
      PROVE  UpdatesInOrder'
  BY <1>1, <1>3 DEF Receive, Answered, Join
<1>4. ASSUME NEW s \in Services, NEW action \in {"subscribe", "topology"}, Ask(s, action)
      PROVE  UpdatesInOrder'
  BY <1>1, <1>4 DEF Ask
<1>5. ASSUME NEW kept \in SUBSET (Services \ {Owner}), Crash(kept)
      PROVE  UpdatesInOrder'
  <2>1. /\ published' = published
        /\ \A s \in Services : s # Owner => inbox'[s] = inbox[s] /\ view'[s] = view[s]
        /\ inbox'[Owner] = <<>> /\ view'[Owner] = <<>>
    BY <1>0, <1>5, LifeAssumption DEF Crash
  <2> QED BY <2>1 DEF UpdatesInOrder
<1>6. CASE Publish
  <2>1. view' = view /\ \A s \in Services : inbox'[s] = inbox[s] \/ inbox'[s] = Append(inbox[s], directory)
    BY <1>0, <1>6 DEF Publish
  <2> SUFFICES ASSUME NEW s \in Services
               PROVE  /\ view[s] = <<>> \/ Stands(published', view[s])
                      /\ \A k \in DOMAIN inbox'[s] :
                           /\ Stands(published', inbox'[s][k])
                           /\ Precedes(published', view[s], inbox'[s][k])
                           /\ \A m \in DOMAIN inbox'[s] :
                                k < m => Precedes(published', inbox'[s][k], inbox'[s][m])
    BY <2>1 DEF UpdatesInOrder
  <2>2. /\ view[s] = <<>> \/ Stands(published, view[s])
        /\ \A k \in DOMAIN inbox[s] :
             /\ Stands(published, inbox[s][k])
             /\ Precedes(published, view[s], inbox[s][k])
             /\ \A m \in DOMAIN inbox[s] : k < m => Precedes(published, inbox[s][k], inbox[s][m])
    BY DEF UpdatesInOrder
  <2>3. view[s] = <<>> => \A e : Precedes(published', view[s], e)
    BY <1>0, <1>6, EmptyPrecedes DEF Publish, Precedes, StandsAt, Published, PublishedGrow
  <2>4. /\ DOMAIN inbox[s] = 1 .. Len(inbox[s]) /\ Len(inbox[s]) \in Nat
        /\ \/ inbox'[s] = inbox[s]
           \/ /\ DOMAIN inbox'[s] = 1 .. Len(inbox[s]) + 1 /\ inbox'[s][Len(inbox[s]) + 1] = directory
              /\ \A k \in DOMAIN inbox[s] : inbox'[s][k] = inbox[s][k]
    <3>1. inbox[s] \in Seq(Directory)
      BY <1>0
    <3> QED BY <2>1, <3>1
  <2>5. \A k \in DOMAIN inbox'[s] : \/ k \in DOMAIN inbox[s] /\ inbox'[s][k] = inbox[s][k]
                                    \/ k = Len(inbox[s]) + 1 /\ inbox'[s][k] = directory
    BY <2>4
  <2>6. view[s] = <<>> \/ Stands(published', view[s])
    BY <1>6, <2>2, PublishIsLatest
  <2>7. ASSUME NEW k \in DOMAIN inbox'[s]
        PROVE  Stands(published', inbox'[s][k]) /\ Precedes(published', view[s], inbox'[s][k])
    <3>1. CASE k \in DOMAIN inbox[s] /\ inbox'[s][k] = inbox[s][k]
      BY <1>6, <2>2, <2>3, <3>1, PublishIsLatest
    <3>2. CASE inbox'[s][k] = directory
      BY <1>6, <2>2, <2>3, <3>2, PublishIsLatest
    <3> QED BY <2>5, <3>1, <3>2
  <2>8. ASSUME NEW k \in DOMAIN inbox'[s], NEW m \in DOMAIN inbox'[s], k < m
        PROVE  Precedes(published', inbox'[s][k], inbox'[s][m])
    <3>1. k \in DOMAIN inbox[s] /\ inbox'[s][k] = inbox[s][k]
      BY <2>4, <2>5, <2>8
    <3>2. CASE m \in DOMAIN inbox[s] /\ inbox'[s][m] = inbox[s][m]
      BY <1>6, <2>2, <2>8, <3>1, <3>2, PublishIsLatest
    <3>3. CASE inbox'[s][m] = directory
      BY <1>6, <2>2, <3>1, <3>3, PublishIsLatest
    <3> QED BY <2>5, <3>2, <3>3
  <2> QED BY <2>6, <2>7, <2>8
<1>7. ASSUME NEW s \in Services, DirectoryUpdate(s)
      PROVE  UpdatesInOrder'
  <2>1. /\ published' = published /\ inbox[s] \in Seq(Directory) /\ inbox[s] # <<>>
        /\ inbox'[s] = Tail(inbox[s]) /\ view'[s] = Head(inbox[s])
        /\ \A t \in Services : t # s => inbox'[t] = inbox[t] /\ view'[t] = view[t]
    BY <1>0, <1>7 DEF DirectoryUpdate
  <2>2. /\ 1 \in DOMAIN inbox[s] /\ view'[s] = inbox[s][1]
        /\ \A k \in DOMAIN inbox'[s] : /\ k + 1 \in DOMAIN inbox[s] /\ 1 < k + 1 /\ k \in Nat
                                       /\ inbox'[s][k] = inbox[s][k + 1]
    BY <2>1
  <2> SUFFICES ASSUME NEW t \in Services, t = s
               PROVE  /\ view'[t] = <<>> \/ Stands(published, view'[t])
                      /\ \A k \in DOMAIN inbox'[t] :
                           /\ Stands(published, inbox'[t][k])
                           /\ Precedes(published, view'[t], inbox'[t][k])
                           /\ \A m \in DOMAIN inbox'[t] :
                                k < m => Precedes(published, inbox'[t][k], inbox'[t][m])
    BY <2>1 DEF UpdatesInOrder
  <2> QED BY <2>2 DEF UpdatesInOrder
<1>8. CASE UNCHANGED lifeVars
  BY <1>1, <1>8 DEF lifeVars
<1> QED
  BY <1>2, <1>3, <1>4, <1>5, <1>6, <1>7, <1>8 DEF LifeNext

LEMMA StandingsOf ==
  ASSUME NEW d, NEW p
  PROVE  p \in Standings(d) <=> \E l \in 1 .. MaxLives : \E i \in DOMAIN published[l] :
                                   StandsAt(published, d, l, i) /\ p = <<l, i>>
  BY DEF Standings, StandsAt

(* Whatever is lost or dropped, and however often the controller's process *)
(* dies and is started again: a service's directory is replaced only by    *)
(* one published later, in the same life or in a later one.                *)
THEOREM ViewsAreOfOneLife == LifeSpec => ViewsOfOneLife
<1> DEFINE Inv == LifeTypeOK /\ StopInv /\ Published /\ UpdatesInOrder
           Later == \A s \in Services : view'[s] # view[s] /\ thread' # "none" =>
                      \E q \in Standings(view'[s]) : \A p \in Standings(view[s]) :
                         p[1] < q[1] \/ (p[1] = q[1] /\ p[2] < q[2])
<1>1. LifeInit => Published /\ UpdatesInOrder
  <2> SUFFICES ASSUME LifeInit PROVE Published /\ UpdatesInOrder
    OBVIOUS
  <2>1. /\ directory = <<>> /\ thread = "none" /\ \A l \in 1 .. MaxLives : published[l] = <<>>
        /\ \A s \in Services : inbox[s] = <<>> /\ view[s] = <<>>
    BY DEF LifeInit
  <2> QED BY <2>1 DEF Published, PublishedGrow, DirectoryAhead, UpdatesInOrder
<1>2. LifeTypeOK /\ StopInv /\ Published /\ UpdatesInOrder /\ [LifeNext]_lifeVars => Later
  <2> SUFFICES ASSUME LifeTypeOK, UpdatesInOrder, [LifeNext]_lifeVars,
                      NEW s \in Services, view'[s] # view[s], thread' # "none"
               PROVE  \E q \in Standings(view'[s]) : \A p \in Standings(view[s]) :
                         p[1] < q[1] \/ (p[1] = q[1] /\ p[2] < q[2])
    OBVIOUS
  <2>1. DirectoryUpdate(s)
    <3>1. \/ UNCHANGED view
          \/ \E t \in Services : DirectoryUpdate(t)
      BY DEF LifeNext, lifeVars, StartController, Construct, AssignHandle, BeginRun, TestRunning,
             Publish, Stop, Terminate, Crash, Receive, Answered, Join, Ask, subVars
    <3> QED BY <3>1 DEF DirectoryUpdate, LifeTypeOK, SubTypes
  <2>2. inbox[s] \in Seq(Directory) /\ inbox[s] # <<>> /\ view'[s] = Head(inbox[s])
    BY <2>1 DEF DirectoryUpdate, LifeTypeOK, SubTypes
  <2>3. 1 \in DOMAIN inbox[s] /\ view'[s] = inbox[s][1]
    BY <2>2
  <2>4. Stands(published, view'[s]) /\ Precedes(published, view[s], view'[s])
    BY <2>3 DEF UpdatesInOrder
  <2>5. PICK m, j : StandsAt(published, view'[s], m, j)
    BY <2>4 DEF Stands
  <2>6. <<m, j>> \in Standings(view'[s])
    BY <2>5, StandingsOf DEF StandsAt
  <2>7. ASSUME NEW p \in Standings(view[s])
        PROVE  p[1] < m \/ (p[1] = m /\ p[2] < j)
    BY <2>4, <2>5, StandingsOf DEF Precedes
  <2> QED BY <2>6, <2>7
<1>3. LifeInit => StopInv
  BY LifeAssumption DEF LifeInit, StopInv, OneRequestEach, HandleFollowsThread, AnsweredMeansRunning,
     StoppedLoop, Serving
<1>4. LifeTypeOK /\ StopInv /\ Published /\ UpdatesInOrder /\ [LifeNext]_lifeVars
        => StopInv' /\ Published' /\ UpdatesInOrder'
  BY NextStopInv, NextPublished, NextUpdatesInOrder DEF StopInv
<1>5. LifeSpec => [](LifeTypeOK /\ StopInv /\ Published /\ UpdatesInOrder)
  BY <1>1, <1>3, <1>4, LifeTypes, PTL DEF LifeSpec
<1> QED BY <1>2, <1>5, PTL DEF LifeSpec, ViewsOfOneLife
=============================================================================
