------------------------- MODULE LiveTrackListProofs -------------------------
(***************************************************************************)
(* Proof that the stored master playlist only advertises renditions whose *)
(* PushStart succeeded, for any number of handlers, any tracks and with or *)
(* without faults.                                                         *)
(***************************************************************************)
EXTENDS LiveTrackList, TLAPS

\* A handler's state is a record with the fields pc, todo and list.
IsRec(r) == r = [pc |-> r.pc, todo |-> r.todo, list |-> r.list]

HdlShape ==
  /\ hdl = [h \in Handlers |-> hdl[h]]
  /\ \A h \in Handlers : IsRec(hdl[h])

\* The list a call is building only holds tracks that were pushed: the
\* playlist is sorted from that list, so this is what makes
\* PlaylistOnlyPushed inductive.
ListsPushed ==
  \A h \in Handlers : \A e \in hdl[h].list :
    \E d \in pushed : <<d[1], d[2]>> = e.path

IInv == HdlShape /\ ListsPushed /\ PlaylistOnlyPushed

\* A step that leaves the handlers, pushes and playlist alone keeps IInv.
LEMMA UntouchedKeeps ==
  ASSUME IInv, UNCHANGED <<hdl, pushed, uploaded, playlist>>
  PROVE  IInv'
  BY DEF IInv, HdlShape, IsRec, ListsPushed, PlaylistOnlyPushed

\* The checks of a call either change nothing of a handler or restart it
\* with an empty list.
LEMMA HandleKeeps ==
  ASSUME IInv, NEW h \in Handlers, NEW p, Handle(h, p),
         UNCHANGED <<pushed, uploaded, playlist>>
  PROVE  IInv'
  <1>1. ASSUME NEW v,
               hdl' = [hdl EXCEPT ![h] = [pc |-> IF v = {} THEN "upload" ELSE "push",
                                          todo |-> v, list |-> {}]]
        PROVE  IInv'
    <2>1. HdlShape'
      BY <1>1 DEF IInv, HdlShape, IsRec
    <2>2. \A g \in Handlers : hdl'[g].list = IF g = h THEN {} ELSE hdl[g].list
      BY <1>1 DEF IInv, HdlShape
    <2>3. ListsPushed'
      BY <2>2 DEF IInv, ListsPushed
    <2>4. PlaylistOnlyPushed'
      BY DEF IInv, PlaylistOnlyPushed
    <2>5. QED
      BY <2>1, <2>3, <2>4 DEF IInv
  <1>2. CASE hdl' = hdl
    BY <1>2, UntouchedKeeps
  <1>3. \/ hdl' = hdl
        \/ \E v : hdl' = [hdl EXCEPT ![h] = [pc |-> IF v = {} THEN "upload" ELSE "push",
                                           todo |-> v, list |-> {}]]
    BY DEF Handle
  <1>4. QED
    BY <1>1, <1>2, <1>3

\* A receiving step is one of the checks.
LEMMA ReceiveKeeps ==
  ASSUME IInv, NEW h \in Handlers, Receive(h)
  PROVE  IInv'
  <1>1. UNCHANGED <<pushed, uploaded, playlist>>
    BY DEF Receive
  <1>2. \E p : Handle(h, p)
    BY DEF Receive
  <1>3. QED
    BY <1>1, <1>2, HandleKeeps

\* A push adds the track's entry to the list only with its destination.
LEMMA PushKeeps ==
  ASSUME IInv, NEW h \in Handlers, Push(h)
  PROVE  IInv'
  <1>1. PICK t \in hdl[h].todo : PushStart(h, t)
    BY DEF Push
  <1>2. UNCHANGED <<uploaded, playlist>> /\ pushed \subseteq pushed'
    BY <1>1 DEF Push, PushStart
  <1>3. CASE /\ pushed' = pushed \cup {Dest(t)}
             /\ hdl' = [hdl EXCEPT ![h].list = @ \cup {Entry(t)}, ![h].todo = @ \ {t},
                                   ![h].pc = IF hdl[h].todo = {t} THEN "upload" ELSE "push"]
    <2>1. HdlShape'
      BY <1>3 DEF IInv, HdlShape, IsRec
    <2>2. hdl'[h].list = hdl[h].list \cup {Entry(t)}
      BY <1>3 DEF IInv, HdlShape, IsRec
    <2>3. \E d \in pushed' : <<d[1], d[2]>> = Entry(t).path
      <3>1. Dest(t) \in pushed' /\ <<Dest(t)[1], Dest(t)[2]>> = Entry(t).path
        BY <1>3 DEF Dest, Entry, Path
      <3>2. QED
        BY <3>1
    <2>4. \A g \in Handlers \ {h} : hdl'[g].list = hdl[g].list
      BY <1>3 DEF IInv, HdlShape
    <2>5. ListsPushed'
      BY <1>2, <2>2, <2>3, <2>4 DEF IInv, ListsPushed
    <2>6. PlaylistOnlyPushed'
      BY <1>2 DEF IInv, PlaylistOnlyPushed
    <2>7. QED
      BY <2>1, <2>5, <2>6 DEF IInv
  <1>4. CASE /\ UNCHANGED pushed
             /\ hdl' = [hdl EXCEPT ![h].todo = @ \ {t},
                                   ![h].pc = IF hdl[h].todo = {t} THEN "upload" ELSE "push"]
    <2>1. HdlShape'
      BY <1>4 DEF IInv, HdlShape, IsRec
    <2>2. hdl'[h].list = hdl[h].list
      <3>1. hdl'[h] = [pc |-> IF hdl[h].todo = {t} THEN "upload" ELSE "push",
                       todo |-> hdl[h].todo \ {t}, list |-> hdl[h].list]
        <4>1. hdl[h] = [pc |-> hdl[h].pc, todo |-> hdl[h].todo, list |-> hdl[h].list]
          BY DEF IInv, HdlShape, IsRec
        <4>2. hdl'[h] = [hdl[h] EXCEPT !.todo = hdl[h].todo \ {t},
                                       !.pc = IF hdl[h].todo = {t} THEN "upload" ELSE "push"]
          BY <1>4 DEF IInv, HdlShape
        <4>3. QED
          BY <4>1, <4>2
      <3>2. QED
        BY <3>1
    <2>3. \A g \in Handlers \ {h} : hdl'[g].list = hdl[g].list
      BY <1>4 DEF IInv, HdlShape
    <2>4. ListsPushed'
      BY <1>4, <2>2, <2>3 DEF IInv, ListsPushed
    <2>5. PlaylistOnlyPushed'
      BY <1>2 DEF IInv, PlaylistOnlyPushed
    <2>6. QED
      BY <2>1, <2>4, <2>5 DEF IInv
  <1>5. QED
    BY <1>1, <1>3, <1>4 DEF PushStart

\* An upload stores an ordering of the handler's list and empties it.
LEMMA UploadKeeps ==
  ASSUME IInv, NEW h \in Handlers, Upload(h)
  PROVE  IInv'
  <1>1. PICK m \in SortedDesc(hdl[h].list) :
          \/ playlist' = m /\ uploaded' = TRUE
          \/ UNCHANGED <<playlist, uploaded>>
    BY DEF Upload, uploadPlaylist
  <1>2. UNCHANGED pushed /\ hdl' = [hdl EXCEPT ![h] = Idle]
    BY DEF Upload
  <1>3. HdlShape' /\ ListsPushed'
    BY <1>2 DEF IInv, HdlShape, IsRec, ListsPushed, Idle
  <1>4. \A i \in DOMAIN m : m[i] \in hdl[h].list
    BY DEF SortedDesc
  <1>5. PlaylistOnlyPushed'
    BY <1>1, <1>2, <1>4 DEF IInv, ListsPushed, PlaylistOnlyPushed
  <1>6. QED
    BY <1>3, <1>5 DEF IInv

\* Every step keeps IInv.
LEMMA PlaylistOnlyPushedStep ==
  ASSUME IInv, [Next]_vars
  PROVE  IInv'
  <1>1. CASE MistAddTrack \/ MistEnd \/ Poll \/ WorkaroundPostFails
    BY <1>1, UntouchedKeeps DEF MistAddTrack, MistEnd, Poll, WorkaroundPostFails
  <1>2. ASSUME NEW h \in Handlers, Receive(h) PROVE IInv'
    BY <1>2, ReceiveKeeps
  <1>3. ASSUME NEW h \in Handlers, Push(h) PROVE IInv'
    BY <1>3, PushKeeps
  <1>4. ASSUME NEW h \in Handlers, Upload(h) PROVE IInv'
    BY <1>4, UploadKeeps
  <1>5. CASE UNCHANGED vars
    BY <1>5, UntouchedKeeps DEF vars
  <1>6. QED
    BY <1>1, <1>2, <1>3, <1>4, <1>5 DEF Next

\* The stored master playlist only lists renditions whose PushStart
\* succeeded (live_tracklist.go:174-181).
THEOREM PlaylistOnlyPushedHolds == Spec => []PlaylistOnlyPushed
  <1>1. Init => IInv
    BY DEF Init, IInv, HdlShape, IsRec, Idle, ListsPushed, PlaylistOnlyPushed
  <1>2. IInv /\ [Next]_vars => IInv'
    BY PlaylistOnlyPushedStep
  <1>3. IInv => PlaylistOnlyPushed
    BY DEF IInv
  <1>4. QED
    BY <1>1, <1>2, <1>3, PTL DEF Spec

=============================================================================
