------------------------- MODULE DisplayWindowProofs -------------------------
(***************************************************************************)
(* Proofs about DisplayWindow, for any number of changes, of requests      *)
(* under way, of failures and of restarts.                                 *)
(***************************************************************************)
EXTENDS DisplayWindow, FiniteSetTheorems, TLAPS

(* Versions are numbers, and what is read of an answer is a sequence.      *)
AnswersOK == content \in [Parts -> Int] /\ fetches \in [Slots -> Seq(Int)]

(* A snapshot on its way to the display is never an empty answer.          *)
Notes == [kind : {"playlist", "started", "ended"}, no : Int, waits : {"read", "send"}]
Snapshots == [kind : {"snapshot"}, answer : Seq(Int) \ {<<>>}]
MessagesOK ==
    /\ pending \subseteq Notes /\ serving \in Seq(Int)
    /\ wire \in Seq(Notes \cup Snapshots)

LooksInv == AnswersOK /\ PlayingLooksAgain
DisplayInv == LooksInv /\ MessagesOK

Started(a) == a \in Seq(Int) /\ a # NoRead
-----------------------------------------------------------------------------
(* What has been read of an answer is not taken for no request.            *)
LEMMA MarkersAre == Lost \in Seq(Int) /\ NoRead \in Seq(Int) /\ Lost # NoRead
<1>1. Lost[1] # NoRead[1]
  BY DEF Lost, NoRead
<1> QED
  BY <1>1 DEF Lost, NoRead

(* A complete answer is not the empty one.                                *)
LEMMA CompleteIsThere == \A a : Complete(a) => a # <<>>
<1>1. IsFiniteSet({1}) /\ IsFiniteSet({1, 2}) /\ IsFiniteSet(Parts)
  <2>1. {1} = {} \cup {1} /\ {1, 2} = {1} \cup {2} /\ Parts = {1, 2} \cup {3}
    BY DEF Parts, Win, List, Sync
  <2>2. IsFiniteSet({} \cup {1})
    BY FS_EmptySet, FS_AddElement, Zenon
  <2>3. IsFiniteSet({1} \cup {2})
    BY <2>1, <2>2, FS_AddElement, Zenon
  <2>4. IsFiniteSet({1, 2} \cup {3})
    BY <2>1, <2>3, FS_AddElement
  <2> QED
    BY <2>1, <2>2, <2>3, <2>4
<1>2. Cardinality(Parts) # 0
  BY <1>1, FS_EmptySet DEF Parts
<1>3. \A a : a = <<>> => Len(a) = 0
  OBVIOUS
<1> QED
  BY <1>2, <1>3, Zenon DEF Complete

LEMMA LongerStarted == ASSUME NEW a \in Seq(Int), Len(a) > 1 PROVE Started(a)
<1>1. Len(NoRead) = 1
  BY DEF NoRead
<1>2. Len(a) # Len(NoRead)
  <2>1. Len(a) \in Nat
    OBVIOUS
  <2>2. \A n \in Nat : n > 1 => n # 1
    OBVIOUS
  <2> QED
    BY <1>1, <2>1, <2>2, Zenon
<1> QED
  BY <1>2, Zenon DEF Started

LEMMA ReadOn == ASSUME AnswersOK, NEW a \in Seq(Int) PROVE Started(ReadNext(a))
<1>1. content[Win] \in Int /\ content[List] \in Int /\ content[Sync] \in Int
  BY DEF AnswersOK, Parts
<1>2. CASE a = <<>>
  <2>1. ReadNext(a) = <<content[Win], content[List]>>
    BY <1>2 DEF ReadNext
  <2>2. ReadNext(a) \in Seq(Int) /\ Len(ReadNext(a)) > 1
    BY <1>1, <2>1
  <2> QED
    BY <2>2, LongerStarted
<1>3. CASE a # <<>>
  <2>1. ReadNext(a) = Append(a, content[Sync]) /\ Len(a) > 0
    BY <1>3 DEF ReadNext
  <2>2. ReadNext(a) \in Seq(Int) /\ Len(ReadNext(a)) = Len(a) + 1
    BY <1>1, <2>1
  <2>3. Len(ReadNext(a)) > 1
    BY <2>1, <2>2
  <2> QED
    BY <2>2, <2>3, LongerStarted
<1> QED
  BY <1>2, <1>3

(* A display that asks has a request under way.                            *)
LEMMA RefreshAsks ==
    ASSUME AnswersOK, UNCHANGED content, Refresh(fetches) PROVE AnswersOK' /\ Outstanding'
<1>1. PICK i \in Slots : fetches' = [fetches EXCEPT ![i] = ReadNext(<<>>)]
  BY DEF Refresh
<1>2. Started(ReadNext(<<>>))
  <2>1. <<>> \in Seq(Int)
    OBVIOUS
  <2> QED
    BY <2>1, ReadOn
<1>3. fetches' \in [Slots -> Seq(Int)] /\ fetches'[i] # NoRead
  BY <1>1, <1>2 DEF AnswersOK, Started
<1> QED
  BY <1>3 DEF AnswersOK, Outstanding

(* What a display takes over from an answer arms the timer if it plays.    *)
LEMMA ShowArms == ASSUME NEW a, a # <<>>, Show(a) PROVE PlayingLooksAgain'
<1>1. /\ shown' = a /\ timer' = Armed(a)
      /\ override' = IF Odd(a[Sync]) THEN a[Sync] ELSE 0
  BY DEF Show
<1>2. CASE Odd(a[Sync])
  <2>1. Effective(a) = <<"sync", a[Sync]>>
    BY <1>2 DEF Effective
  <2>2. timer'
    <3>1. Effective(a)[1] = "sync"
      BY <2>1
    <3> QED
      BY <1>1, <3>1 DEF Armed
  <2> QED
    BY <2>2 DEF PlayingLooksAgain
<1>3. CASE ~Odd(a[Sync])
  <2>1. Picture' = Effective(a)
    BY <1>1, <1>3 DEF Picture, Effective
  <2>2. Effective(a) # <<"idle">> => Effective(a)[1] # "idle"
    BY <1>3 DEF Effective
  <2> QED
    BY <1>1, <2>1, <2>2 DEF PlayingLooksAgain, Armed
<1> QED
  BY <1>2, <1>3

(* What is on the screen stays, and so do the requests.                    *)
LEMMA ScreenStays ==
    ASSUME PlayingLooksAgain, UNCHANGED <<screen, error>>, Outstanding => Outstanding'
    PROVE  PlayingLooksAgain'
  BY DEF PlayingLooksAgain, screen, Picture, Effective

-----------------------------------------------------------------------------
LEMMA DisplayInit == Init => DisplayInv
<1> SUFFICES ASSUME Init PROVE DisplayInv
  OBVIOUS
<1>1. <<0, 0>> \in Seq(Int) /\ Len(<<0, 0>>) > 1
  OBVIOUS
<1>2. content \in [Parts -> Int]
  BY DEF Init
<1>3. 1 \in Slots
  BY BoundsAssumption DEF Slots
<1>4. fetches \in [Slots -> Seq(Int)] /\ fetches[1] = <<0, 0>>
  BY <1>1, <1>3, MarkersAre DEF Init
<1>5. Outstanding
  BY <1>1, <1>3, <1>4, LongerStarted DEF Outstanding, Started
<1>6. MessagesOK
  BY MarkersAre DEF Init, MessagesOK
<1> QED
  BY <1>2, <1>4, <1>5, <1>6 DEF DisplayInv, LooksInv, AnswersOK, PlayingLooksAgain

(* The requests, step by step.                                             *)
LEMMA ReadFetchStep == ASSUME LooksInv, NEW i \in Slots, ReadFetch(i) PROVE LooksInv'
<1>0. AnswersOK /\ PlayingLooksAgain /\ UNCHANGED <<content, screen, error>> /\ fetches[i] \in Seq(Int)
  BY DEF LooksInv, ReadFetch, server, AnswersOK
<1>1. PICK a : Started(a) /\ fetches' = [fetches EXCEPT ![i] = a]
  <2>1. CASE fetches' = [fetches EXCEPT ![i] = ReadNext(@)]
    BY <1>0, <2>1, ReadOn
  <2>2. CASE MissSync(fetches[i]) /\ fetches' = [fetches EXCEPT ![i] = Append(@, 0)]
    <3>1. Len(fetches[i]) = 2
      BY <2>2 DEF MissSync, Sync
    <3>2. Append(fetches[i], 0) \in Seq(Int) /\ Len(Append(fetches[i], 0)) > 1
      <4>1. \A q \in Seq(Int) : Append(q, 0) \in Seq(Int) /\ Len(Append(q, 0)) = Len(q) + 1
        OBVIOUS
      <4>2. Append(fetches[i], 0) \in Seq(Int) /\ Len(Append(fetches[i], 0)) = 2 + 1
        BY <1>0, <3>1, <4>1
      <4> QED
        BY <4>2
    <3> QED
      BY <2>2, <3>2, LongerStarted
  <2> QED
    BY <2>1, <2>2 DEF ReadFetch
<1>2. AnswersOK'
  BY <1>0, <1>1 DEF AnswersOK, Started
<1>3. Outstanding'
  BY <1>0, <1>1 DEF AnswersOK, Started, Outstanding
<1> QED
  BY <1>0, <1>2, <1>3, ScreenStays DEF LooksInv

LEMMA AnswerStep == ASSUME LooksInv, NEW i \in Slots, Answer(i) PROVE LooksInv'
<1>1. /\ Show(fetches[i]) /\ fetches' = [fetches EXCEPT ![i] = NoRead] /\ UNCHANGED content
  BY DEF Answer, server
<1>2. AnswersOK'
  BY <1>1, MarkersAre DEF LooksInv, AnswersOK
<1>3. fetches[i] # <<>>
  BY CompleteIsThere DEF Answer
<1> QED
  BY <1>1, <1>2, <1>3, ShowArms DEF LooksInv

LEMMA FailFetchStep == ASSUME LooksInv, NEW i \in Slots, FailFetch(i) PROVE LooksInv'
<1>1. error' = TRUE /\ fetches' = [fetches EXCEPT ![i] = NoRead] /\ UNCHANGED content
  BY DEF FailFetch, server
<1> QED
  BY <1>1, MarkersAre DEF LooksInv, AnswersOK, PlayingLooksAgain

LEMMA RestartStep == ASSUME LooksInv, Restart PROVE LooksInv'
<1>1. /\ UNCHANGED <<content, screen, error>> /\ AnswersOK /\ PlayingLooksAgain
      /\ fetches' = [i \in Slots |-> IF fetches[i] = NoRead THEN NoRead ELSE Lost]
  BY DEF Restart, LooksInv
<1>2. AnswersOK' /\ (Outstanding => Outstanding')
  BY <1>1, MarkersAre DEF AnswersOK, Outstanding
<1> QED
  BY <1>1, <1>2, ScreenStays DEF LooksInv

(* The messages and the timer.                                             *)
LEMMA HandleStep == ASSUME LooksInv, MessagesOK, Handle PROVE LooksInv'
<1>0. AnswersOK /\ UNCHANGED content
  BY DEF Handle, LooksInv, server
<1>3. ASSUME Head(wire).kind = "snapshot" PROVE Head(wire).answer # <<>>
  <2>1. Head(wire) \in Notes \cup Snapshots
    BY DEF MessagesOK, Handle
  <2>2. Head(wire) \in Snapshots
    BY <1>3, <2>1 DEF Notes
  <2> QED
    BY <2>2 DEF Snapshots
<1>1. ASSUME NEW m, m.answer # <<>>, StateSnapshot(m) PROVE LooksInv'
  BY <1>0, <1>1, ShowArms DEF StateSnapshot, LooksInv, AnswersOK
<1>2. ASSUME NEW m, SyncStarted(m) \/ SyncEnded \/ PlaylistUpdated PROVE LooksInv'
  BY <1>0, <1>2, RefreshAsks
     DEF SyncStarted, SyncEnded, PlaylistUpdated, LooksInv, PlayingLooksAgain
<1> QED
  BY <1>1, <1>2, <1>3 DEF Handle

LEMMA TimerStep == ASSUME LooksInv, TimerFires PROVE LooksInv'
  BY RefreshAsks DEF TimerFires, server, LooksInv, PlayingLooksAgain

(* The server and the connection: the display sees nothing of it yet.      *)
LEMMA ContentStep ==
    ASSUME LooksInv, NEW p \in Parts, Change(p), UNCHANGED <<fetches, screen, error>>
    PROVE  LooksInv'
<1>1. content' \in [Parts -> Int]
  BY DEF Change, LooksInv, AnswersOK
<1> QED
  BY <1>1, ScreenStays DEF LooksInv, AnswersOK, Outstanding

LEMMA UnseenStep ==
    ASSUME LooksInv, UNCHANGED <<content, fetches, screen, error>> PROVE LooksInv'
  BY ScreenStays DEF LooksInv, AnswersOK, Outstanding

(* A message more leaves the messages of their type.                       *)
LEMMA AppendStays == ASSUME NEW S, NEW q \in Seq(S), NEW x \in S PROVE Append(q, x) \in Seq(S)
  OBVIOUS

(* The messages, on the server and on their way.                           *)
LEMMA MessagesNext == AnswersOK /\ MessagesOK /\ [Next]_vars => MessagesOK'
<1> SUFFICES ASSUME AnswersOK, MessagesOK, [Next]_vars PROVE MessagesOK'
  OBVIOUS
<1>0. /\ content \in [Parts -> Int] /\ <<>> \in Seq(Int) /\ NoRead \in Seq(Int)
      /\ <<>> \in Seq(Notes \cup Snapshots)
  BY MarkersAre DEF AnswersOK
<1>1. ASSUME UNCHANGED <<pending, serving, wire>> PROVE MessagesOK'
  BY <1>1 DEF MessagesOK
<1>2. ASSUME StartSync \/ \E b \in BOOLEAN : EditPlaylist(b) \/ EndSync(b) PROVE MessagesOK'
  <2>1. content'[List] \in Int /\ content'[Sync] \in Int /\ content[Sync] \in Int
    <3>1. \E p \in Parts : Change(p)
      BY <1>2 DEF StartSync, EditPlaylist, EndSync, Parts
    <3>2. content' \in [Parts -> Int]
      BY <1>0, <3>1 DEF Change
    <3> QED
      BY <1>0, <3>2 DEF Parts
  <2>2. UNCHANGED <<serving, wire>>
    BY <1>2 DEF StartSync, EditPlaylist, EndSync, connection
  <2>3. pending' \subseteq Notes
    BY <1>2, <2>1 DEF StartSync, EditPlaylist, EndSync, Announce, Notes, MessagesOK
  <2> QED
    BY <2>2, <2>3 DEF MessagesOK
<1>3. ASSUME NEW n \in pending, LoseNotice(n) \/ SendNotice(n) PROVE MessagesOK'
  <2>1. n \in Notes /\ wire \in Seq(Notes \cup Snapshots)
    BY DEF MessagesOK
  <2>2. Append(wire, n) \in Seq(Notes \cup Snapshots)
    BY <2>1, AppendStays
  <2>3. pending' \subseteq pending /\ wire' \in {wire, Append(wire, n)} /\ UNCHANGED serving
    BY <1>3 DEF LoseNotice, SendNotice, connection
  <2> QED
    BY <2>1, <2>2, <2>3 DEF MessagesOK
<1>4. ASSUME TakeSubscribe \/ ReadSnapshot PROVE MessagesOK'
  <2>1. ReadNext(serving) \in Seq(Int) /\ ReadNext(<<>>) \in Seq(Int) /\ Append(serving, 0) \in Seq(Int)
    <3>1. serving \in Seq(Int)
      BY DEF MessagesOK
    <3>2. Started(ReadNext(serving)) /\ Started(ReadNext(<<>>))
      BY <1>0, <3>1, ReadOn
    <3>3. Append(serving, 0) \in Seq(Int)
      BY <3>1, AppendStays
    <3> QED
      BY <3>2, <3>3 DEF Started
  <2> QED
    BY <1>4, <2>1 DEF TakeSubscribe, ReadSnapshot, server, MessagesOK
<1>5. ASSUME RefuseSubscribe PROVE MessagesOK'
  BY <1>0, <1>5 DEF RefuseSubscribe, server, MessagesOK
<1>6. ASSUME Subscribe PROVE MessagesOK'
  <2>1. serving # <<>>
    BY <1>6, CompleteIsThere DEF Subscribe
  <2>2. [kind |-> "snapshot", answer |-> serving] \in Snapshots
    BY <2>1 DEF Snapshots, MessagesOK
  <2>3. Append(wire, [kind |-> "snapshot", answer |-> serving]) \in Seq(Notes \cup Snapshots)
    BY <2>2, AppendStays DEF MessagesOK
  <2> QED
    BY <1>0, <1>6, <2>3 DEF Subscribe, server, MessagesOK
<1>7. ASSUME Drop \/ Restart PROVE MessagesOK'
  BY <1>0, <1>7 DEF Drop, Restart, Disconnected, server, MessagesOK
<1>8. ASSUME Handle PROVE MessagesOK'
  BY <1>8 DEF Handle, server, MessagesOK
<1>9. ASSUME \/ PatchWindow \/ Connect \/ TimerFires \/ UNCHANGED vars
             \/ \E i \in Slots : ReadFetch(i) \/ Answer(i) \/ FailFetch(i)
      PROVE  MessagesOK'
  BY <1>1, <1>9 DEF PatchWindow, Connect, TimerFires, vars, ReadFetch, Answer, FailFetch, server,
                    connection
<1> QED
  BY <1>2, <1>3, <1>4, <1>5, <1>6, <1>7, <1>8, <1>9 DEF Next

LEMMA LooksNext == DisplayInv /\ [Next]_vars => LooksInv'
<1> SUFFICES ASSUME LooksInv, MessagesOK, [Next]_vars PROVE LooksInv'
  BY DEF DisplayInv
<1>1. ASSUME PatchWindow \/ StartSync \/ \E b \in BOOLEAN : EditPlaylist(b) \/ EndSync(b)
      PROVE  LooksInv'
  <2>1. \E p \in Parts : Change(p)
    BY <1>1 DEF PatchWindow, StartSync, EditPlaylist, EndSync, Parts
  <2>2. UNCHANGED <<fetches, screen, error>>
    BY <1>1 DEF PatchWindow, StartSync, EditPlaylist, EndSync
  <2> QED
    BY <2>1, <2>2, ContentStep
<1>2. ASSUME \/ \E n \in pending : LoseNotice(n) \/ SendNotice(n)
             \/ TakeSubscribe \/ ReadSnapshot \/ RefuseSubscribe \/ Subscribe
             \/ Connect \/ Drop \/ UNCHANGED vars
      PROVE  LooksInv'
  <2>1. UNCHANGED <<content, fetches, screen, error>>
    BY <1>2 DEF LoseNotice, SendNotice, TakeSubscribe, ReadSnapshot, RefuseSubscribe, Subscribe,
                Connect, Drop, server, vars
  <2> QED
    BY <2>1, UnseenStep
<1> QED
  BY <1>1, <1>2, RestartStep, ReadFetchStep, AnswerStep, FailFetchStep, HandleStep, TimerStep DEF Next

LEMMA DisplayNext == DisplayInv /\ [Next]_vars => DisplayInv'
  BY LooksNext, MessagesNext DEF DisplayInv, LooksInv

(* The invariant holds, whatever the display hears and in which order.     *)
THEOREM DisplayCorrect == Spec => []DisplayInv
  BY DisplayInit, DisplayNext, PTL DEF Spec

(* A display that plays will look again, in whatever order notices,        *)
(* snapshots and answers came, with any number of failures.                *)
THEOREM AlwaysLooksAgain == Spec => []PlayingLooksAgain
<1>1. DisplayInv => PlayingLooksAgain
  BY DEF DisplayInv, LooksInv
<1> QED
  BY <1>1, DisplayCorrect, PTL
=============================================================================
