------------------------ MODULE SurfaceCommitProofs ------------------------
(* For any number of surfaces and commits: layouts find their images, changed *)
(* images are resolved again, closing windows keep theirs (SurfaceCommit), and *)
(* what answers a waiting client is on its way (FrameCallbacks).              *)
EXTENDS SurfaceCommit, FrameCallbacks, SequenceTheorems, TLAPS

-----------------------------------------------------------------------------
(* The commit path                                                             *)

(* A queue of messages none of which names an image that was not published.   *)
Fine(q, im) ==
  /\ q \in Seq(Tasks)
  /\ \A i \in 1..Len(q) : q[i].kind = "commit" => q[i].image <= im[q[i].view]

(* Until a surface dies its registry entry is the image published last.       *)
EntryIsNewest == \A v \in Views : surface[v] # "destroyed" => frames[v].image = images[v]

(* Flutter was never told of an image that was not published.                 *)
ToldIsPublished == Fine(platform, images) /\ \A v \in Views : laidOut[v] <= images[v]

(* What Flutter sampled is what is marked acquired, and stays.                 *)
SampledIsAcquired ==
  \A v \in Views :
    /\ v \in sampled <=> frames[v].acquired
    /\ frames[v].acquired => frames[v].image # None
    /\ painted[v] # None => v \in sampled
    /\ painted[v] <= frames[v].image
    /\ surface[v] = "destroyed" /\ ~frames[v].acquired => frames[v].image = None

(* Handlers do not overlap.                                                    *)
OneAnnouncement == \A m, n \in announcing : m = n

Inv == /\ TypeOK /\ OneAnnouncement
       /\ EntryIsNewest /\ ToldIsPublished /\ SampledIsAcquired /\ ChangedImageIsMarked

-----------------------------------------------------------------------------
(* Queues *)

(* Below the bound there is room for one more.                                 *)
LEMMA OneMore ==
  ASSUME NEW n \in 0..MaxCommits, n < MaxCommits
  PROVE  n + 1 \in 1..MaxCommits /\ n + 1 \in 0..MaxCommits
  BY BoundAssumption

(* Tasks are what Task makes.                                                  *)
LEMMA TasksAre ==
  /\ \A k \in {"register", "mark", "frame"}, v \in Views : Task(k, v, None) \in Tasks
  /\ \A v \in Views, i \in Nat : Task("commit", v, i) \in Tasks
  /\ \A t \in Tasks : t.view \in Views /\ t.image \in Nat /\ t = Task(t.kind, t.view, t.image)
<1>1. \A k \in {"register", "mark", "frame"}, v \in Views : Task(k, v, None) \in Tasks
  BY DEF Tasks
<1>2. \A v \in Views, i \in Nat : Task("commit", v, i) \in Tasks
  BY DEF Tasks
<1>3. ASSUME NEW t \in Tasks
      PROVE  t.view \in Views /\ t.image \in Nat /\ t = Task(t.kind, t.view, t.image)
  <2>1. CASE \E k \in {"register", "mark", "frame"}, v \in Views : t = Task(k, v, None)
    BY <2>1 DEF None, Task
  <2>2. CASE \E v \in Views, i \in Nat : t = Task("commit", v, i)
    BY <2>2 DEF Task
  <2> QED
    BY <2>1, <2>2 DEF Tasks
<1> QED
  BY <1>1, <1>2, <1>3

(* Appending a task that names a published image keeps a queue fine.           *)
LEMMA Appended ==
  ASSUME NEW im, NEW q, Fine(q, im), NEW t \in Tasks,
         t.kind = "commit" => t.image <= im[t.view]
  PROVE  /\ Fine(Append(q, t), im) /\ q \o <<t>> = Append(q, t)
         /\ ToSet(q) \subseteq ToSet(Append(q, t)) /\ t \in ToSet(Append(q, t))
<1>1. q \in Seq(Tasks)
  BY DEF Fine
<1>2. /\ Append(q, t) \in Seq(Tasks) /\ Len(Append(q, t)) = Len(q) + 1 /\ Len(q) \in Nat
      /\ \A i \in 1..Len(q) : Append(q, t)[i] = q[i]
      /\ Append(q, t)[Len(q) + 1] = t
      /\ DOMAIN Append(q, t) = 1..(Len(q) + 1) /\ DOMAIN q = 1..Len(q)
  BY <1>1
<1>3. Fine(Append(q, t), im)
  <2> SUFFICES ASSUME NEW i \in 1..Len(Append(q, t)), Append(q, t)[i].kind = "commit"
               PROVE  Append(q, t)[i].image <= im[Append(q, t)[i].view]
    BY <1>2 DEF Fine
  <2>1. i \in 1..Len(q) \/ i = Len(q) + 1
    BY <1>2
  <2> QED
    BY <2>1, <1>2 DEF Fine
<1>4. q \o <<t>> = Append(q, t)
  BY <1>1
<1> QED
  BY <1>2, <1>3, <1>4 DEF ToSet

(* Taking the head loses no other task.                                       *)
LEMMA Taken ==
  ASSUME NEW im, NEW q, Fine(q, im), q # <<>>
  PROVE  /\ Fine(Tail(q), im) /\ Head(q) \in Tasks
         /\ Head(q).kind = "commit" => Head(q).image <= im[Head(q).view]
         /\ \A t \in ToSet(q) : t # Head(q) => t \in ToSet(Tail(q))
<1>1. /\ Tail(q) \in Seq(Tasks) /\ Head(q) \in Tasks /\ Head(q) = q[1] /\ 1 \in 1..Len(q)
      /\ Len(Tail(q)) = Len(q) - 1 /\ Len(q) \in Nat
      /\ \A i \in 1..Len(Tail(q)) : Tail(q)[i] = q[i + 1]
      /\ DOMAIN q = 1..Len(q) /\ DOMAIN Tail(q) = 1..Len(Tail(q))
  BY HeadTailProperties DEF Fine
<1>2. Fine(Tail(q), im)
  BY <1>1 DEF Fine
<1>3. ASSUME NEW t \in ToSet(q), t # Head(q) PROVE t \in ToSet(Tail(q))
  <2>1. PICK i \in 1..Len(q) : q[i] = t
    BY <1>1 DEF ToSet
  <2>2. i - 1 \in 1..Len(Tail(q)) /\ Tail(q)[i - 1] = q[i]
    BY <1>1, <1>3, <2>1
  <2> QED
    BY <1>1, <2>1, <2>2 DEF ToSet
<1> QED
  BY <1>1, <1>2, <1>3 DEF Fine

(* Publishing more makes no message false.                                     *)
LEMMA Grown ==
  ASSUME NEW q, NEW im \in [Views -> Nat], NEW jm \in [Views -> Nat], Fine(q, im),
         \A v \in Views : im[v] <= jm[v]
  PROVE  Fine(q, jm)
<1> SUFFICES ASSUME NEW i \in 1..Len(q), q[i].kind = "commit" PROVE q[i].image <= jm[q[i].view]
  BY DEF Fine
<1>1. q[i] \in Tasks
  BY DEF Fine
<1>2. q[i].view \in Views /\ q[i].image \in Nat /\ q[i].image <= im[q[i].view]
  BY <1>1, TasksAre DEF Fine
<1> QED
  BY <1>2

(* What a handler of the Wayland thread preserves when it touches neither the  *)
(* queue nor the registry.                                                    *)
LEMMA Untouched ==
  ASSUME Inv, UNCHANGED <<surface, images, announcing, frames, platform, flutter>>
  PROVE  /\ OneAnnouncement'
         /\ EntryIsNewest' /\ ToldIsPublished' /\ SampledIsAcquired' /\ ChangedImageIsMarked'
  BY DEF Inv, flutter, OneAnnouncement, EntryIsNewest, ToldIsPublished, SampledIsAcquired, ChangedImageIsMarked, Fine

(* A commit without new pixels.                                                *)
LEMMA AppliedQuietly ==
  ASSUME Inv, NEW m \in Commits, CommitMetadata(m), UNCHANGED <<surface, flutter>>
  PROVE  /\ UNCHANGED <<chains, images, announcing, frames>>
         /\ EntryIsNewest' /\ ToldIsPublished' /\ SampledIsAcquired' /\ ChangedImageIsMarked'
<1> DEFINE t == Task("commit", m.view, images[m.view])
           f == Task("frame", m.view, None)
           q == Append(platform, t)
<1>1. m.view \in Views /\ images \in [Views -> Nat] /\ Fine(platform, images)
  BY DEF Inv, TypeOK, ToldIsPublished, Commits
<1>2. t \in Tasks /\ t.view = m.view /\ t.image = images[m.view]
  BY <1>1, TasksAre DEF Task
<1>3. f \in Tasks /\ f.kind # "commit"
  BY <1>1, TasksAre DEF Task
<1>4. /\ Fine(q, images) /\ platform \o <<t>> = q /\ ToSet(platform) \subseteq ToSet(q)
  <2>1. t.image <= images[t.view]
    BY <1>1, <1>2
  <2> HIDE DEF t
  <2> QED
    BY <1>1, <1>2, <2>1, Appended
<1>5. Fine(Append(q, f), images) /\ q \o <<f>> = Append(q, f) /\ ToSet(q) \subseteq ToSet(Append(q, f))
  <2> HIDE DEF q, f
  <2> QED
    BY <1>3, <1>4, Appended
<1>6. q \o <<>> = q
  <2> HIDE DEF q
  <2> QED
    BY <1>4, ConcatEmptySeq DEF Fine
<1>7. platform' \in {q, Append(q, f)}
  <2>1. CASE m.callback
    BY <2>1, <1>4, <1>5 DEF CommitMetadata
  <2>2. CASE ~m.callback
    BY <2>2, <1>4, <1>6 DEF CommitMetadata
  <2> QED
    BY <2>1, <2>2
<1>8. Fine(platform', images) /\ ToSet(platform) \subseteq ToSet(platform')
  BY <1>4, <1>5, <1>7
<1>9. UNCHANGED <<chains, images, announcing, frames>>
  BY DEF CommitMetadata
<1>10. EntryIsNewest' /\ ToldIsPublished' /\ SampledIsAcquired'
  BY <1>8, <1>9 DEF Inv, flutter, EntryIsNewest, ToldIsPublished, SampledIsAcquired
<1>11. ChangedImageIsMarked'
  BY <1>8, <1>9 DEF Inv, flutter, ChangedImageIsMarked
<1> QED
  BY <1>9, <1>10, <1>11

(* A commit with new pixels, up to its announcement.                           *)
LEMMA AppliedPixels ==
  ASSUME Inv, NEW m \in Commits, announcing = {}, PublishImage(m), surface[m.view] = "alive",
         UNCHANGED <<surface, flutter>>
  PROVE  /\ chains' \subseteq Views /\ images' \in [Views -> Nat] /\ announcing' \subseteq Commits /\ OneAnnouncement'
         /\ frames' \in [Views -> [image : Nat, acquired : BOOLEAN]]
         /\ EntryIsNewest' /\ ToldIsPublished' /\ SampledIsAcquired' /\ ChangedImageIsMarked'
<1> DEFINE r == Task("register", m.view, None)
<1>1. /\ m.view \in Views /\ images \in [Views -> Nat] /\ Fine(platform, images)
      /\ frames \in [Views -> [image : Nat, acquired : BOOLEAN]] /\ chains \subseteq Views
      /\ laidOut \in [Views -> Nat] /\ painted \in [Views -> Nat]
  BY DEF Inv, TypeOK, ToldIsPublished, Commits
<1>2. r \in Tasks /\ r.kind # "commit"
  BY <1>1, TasksAre DEF Task
<1>3. Fine(Append(platform, r), images) /\ ToSet(platform) \subseteq ToSet(Append(platform, r))
  <2> HIDE DEF r
  <2> QED
    BY <1>1, <1>2, Appended
<1>4. Fine(platform', images) /\ ToSet(platform) \subseteq ToSet(platform')
  BY <1>1, <1>3 DEF PublishImage
<1>5. /\ images' = [images EXCEPT ![m.view] = images[m.view] + 1] /\ announcing' = {m}
      /\ frames' = [frames EXCEPT ![m.view].image = images[m.view] + 1]
      /\ chains' \subseteq Views
  BY <1>1 DEF PublishImage, Published
<1>6. /\ images' \in [Views -> Nat] /\ \A v \in Views : images[v] <= images'[v]
      /\ frames' \in [Views -> [image : Nat, acquired : BOOLEAN]]
  BY <1>1, <1>5
<1>7. \A v \in Views : /\ frames'[v].acquired = frames[v].acquired
                       /\ v # m.view => frames'[v] = frames[v] /\ images'[v] = images[v]
  BY <1>1, <1>5
<1>8. frames'[m.view].image = images[m.view] + 1 /\ images'[m.view] = images[m.view] + 1
  BY <1>1, <1>5
<1>9. EntryIsNewest'
  BY <1>7, <1>8 DEF Inv, EntryIsNewest
<1>10. ToldIsPublished'
  <2>1. Fine(platform', images')
    BY <1>1, <1>4, <1>6, Grown
  <2>2. \A v \in Views : laidOut[v] <= images[v]
    BY DEF Inv, ToldIsPublished
  <2>3. \A v \in Views : laidOut[v] <= images'[v]
    BY <1>1, <1>6, <2>2
  <2> QED
    BY <2>1, <2>3 DEF ToldIsPublished, flutter
<1>11. SampledIsAcquired'
  <2> SUFFICES ASSUME NEW v \in Views
               PROVE  /\ v \in sampled <=> frames'[v].acquired
                      /\ frames'[v].acquired => frames'[v].image # None
                      /\ painted[v] # None => v \in sampled
                      /\ painted[v] <= frames'[v].image
                      /\ surface[v] = "destroyed" /\ ~frames'[v].acquired => frames'[v].image = None
    BY DEF SampledIsAcquired, flutter
  <2>1. CASE v = m.view
    <3>1. painted[v] <= frames[v].image /\ frames[v].image = images[v]
      BY <2>1 DEF Inv, SampledIsAcquired, EntryIsNewest
    <3> QED
      BY <1>1, <1>7, <1>8, <2>1, <3>1 DEF Inv, SampledIsAcquired, None
  <2>2. CASE v # m.view
    BY <1>7, <2>2 DEF Inv, SampledIsAcquired
  <2> QED
    BY <2>1, <2>2
<1>12. ChangedImageIsMarked'
  BY <1>4, <1>5, <1>7 DEF Inv, ChangedImageIsMarked, flutter
<1>13. OneAnnouncement'
  BY <1>5 DEF OneAnnouncement
<1> QED
  BY <1>1, <1>5, <1>6, <1>9, <1>10, <1>11, <1>12, <1>13

(* Either kind of commit.                                                      *)
LEMMA Applied ==
  ASSUME Inv, NEW m \in Commits, announcing = {}, ApplyCommit(m), surface[m.view] = "alive",
         UNCHANGED <<surface, flutter>>
  PROVE  /\ chains' \subseteq Views /\ images' \in [Views -> Nat] /\ announcing' \subseteq Commits /\ OneAnnouncement'
         /\ frames' \in [Views -> [image : Nat, acquired : BOOLEAN]]
         /\ EntryIsNewest' /\ ToldIsPublished' /\ SampledIsAcquired' /\ ChangedImageIsMarked'
<1>1. CASE m.changed
  BY <1>1, AppliedPixels DEF ApplyCommit
<1>2. CASE ~m.changed
  BY <1>2, AppliedQuietly DEF ApplyCommit, Inv, TypeOK, OneAnnouncement
<1> QED
  BY <1>1, <1>2

-----------------------------------------------------------------------------
(* The invariant                                                               *)

LEMMA InitInv == Init => Inv
<1> SUFFICES ASSUME Init PROVE Inv
  OBVIOUS
<1>1. <<>> \in Seq(Tasks) /\ Len(<<>>) = 0
  OBVIOUS
<1>2. TypeOK
  <2>1. commits \in [Views -> 0..MaxCommits] /\ images \in [Views -> Nat]
    BY BoundAssumption DEF Init
  <2>2. frames \in [Views -> [image : Nat, acquired : BOOLEAN]]
    BY DEF Init, NoFrame, None
  <2> QED
    BY <1>1, <2>1, <2>2 DEF Init, TypeOK, None
<1>3. EntryIsNewest /\ ToldIsPublished /\ SampledIsAcquired
  BY <1>1 DEF Init, EntryIsNewest, ToldIsPublished, SampledIsAcquired, Fine, NoFrame, None
<1>4. ChangedImageIsMarked /\ OneAnnouncement
  BY DEF Init, ChangedImageIsMarked, OneAnnouncement, None
<1> QED
  BY <1>2, <1>3, <1>4 DEF Inv

(* The commit handler: what it notes of the commit, and what becomes of it.    *)
LEMMA CommitBufferInv == ASSUME Inv, NEW v \in Views, CommitBuffer(v) PROVE Inv'
<1>1. PICK bits \in {{"buffer"}, {"surface damage"}, {"opaque region"}}, callback \in BOOLEAN :
        LET m == [view |-> v, changed |-> UpdatesTexture(bits), callback |-> callback,
                  number |-> commits[v] + 1]
        IN \/ ApplyCommit(m) /\ UNCHANGED waiting
           \/ /\ waiting' \in {waiting \cup {m}, waiting}
              /\ UNCHANGED <<chains, images, announcing, frames, platform>>
  BY DEF CommitBuffer
<1> DEFINE m == [view |-> v, changed |-> UpdatesTexture(bits), callback |-> callback,
                 number |-> commits[v] + 1]
<1>2. /\ commits[v] < MaxCommits /\ commits' = [commits EXCEPT ![v] = commits[v] + 1]
      /\ attached' = [attached EXCEPT ![v] = TRUE] /\ announcing = {} /\ surface[v] = "alive"
      /\ UNCHANGED <<surface, flutter>>
  BY DEF CommitBuffer, Idle
<1>3. m \in Commits /\ m.view = v
  <2>1. commits[v] + 1 \in 1..MaxCommits
    <3>1. commits[v] \in 0..MaxCommits
      BY DEF Inv, TypeOK
    <3>2. commits[v] < MaxCommits
      BY <1>2
    <3> QED
      BY <3>1, <3>2, OneMore
  <2>2. UpdatesTexture(bits) \in BOOLEAN
    BY DEF UpdatesTexture
  <2> HIDE DEF UpdatesTexture
  <2> QED
    BY <2>1, <2>2 DEF Commits
<1> HIDE DEF m
<1>4. commits' \in [Views -> 0..MaxCommits] /\ attached' \in [Views -> BOOLEAN]
  <2>1. commits' \in [Views -> 0..MaxCommits]
    <3>1. commits \in [Views -> 0..MaxCommits]
      BY DEF Inv, TypeOK
    <3>2. commits[v] < MaxCommits /\ commits' = [commits EXCEPT ![v] = commits[v] + 1]
      BY <1>2
    <3>3. commits[v] + 1 \in 0..MaxCommits
      BY <3>1, <3>2, OneMore
    <3> QED
      BY <3>1, <3>2, <3>3
  <2> QED
    BY <1>1, <1>2, <2>1 DEF Inv, TypeOK
<1>5. /\ chains' \subseteq Views /\ images' \in [Views -> Nat] /\ announcing' \subseteq Commits /\ OneAnnouncement'
      /\ frames' \in [Views -> [image : Nat, acquired : BOOLEAN]]
      /\ EntryIsNewest' /\ ToldIsPublished' /\ SampledIsAcquired' /\ ChangedImageIsMarked'
      /\ waiting' \subseteq Commits
  <2>1. CASE ApplyCommit(m) /\ UNCHANGED waiting
    BY <1>2, <1>3, <2>1, Applied DEF Inv, TypeOK
  <2>2. CASE /\ waiting' \in {waiting \cup {m}, waiting}
             /\ UNCHANGED <<chains, images, announcing, frames, platform>>
    <3>1. OneAnnouncement' /\ EntryIsNewest' /\ ToldIsPublished' /\ SampledIsAcquired' /\ ChangedImageIsMarked'
      BY <1>2, <2>2, Untouched
    <3> QED
      BY <1>3, <2>2, <3>1 DEF Inv, TypeOK
  <2> QED
    BY <1>1, <2>1, <2>2 DEF m
<1> QED
  BY <1>2, <1>4, <1>5 DEF Inv, TypeOK, flutter, ToldIsPublished, Fine

(* A fence signals: the commit is applied, unless its surface is gone.         *)
LEMMA FenceReadableInv == ASSUME Inv, NEW m \in waiting, FenceReadable(m) PROVE Inv'
<1>1. m \in Commits /\ waiting' \subseteq Commits /\ announcing = {}
  BY DEF Inv, TypeOK, FenceReadable, Idle
<1>2. UNCHANGED <<surface, attached, commits, flutter>>
  BY DEF FenceReadable, client
<1>3. /\ chains' \subseteq Views /\ images' \in [Views -> Nat] /\ announcing' \subseteq Commits /\ OneAnnouncement'
      /\ frames' \in [Views -> [image : Nat, acquired : BOOLEAN]]
      /\ EntryIsNewest' /\ ToldIsPublished' /\ SampledIsAcquired' /\ ChangedImageIsMarked'
  <2>1. CASE surface[m.view] = "alive"
    BY <1>1, <1>2, <2>1, Applied DEF FenceReadable
  <2>2. CASE surface[m.view] # "alive"
    <3>1. UNCHANGED <<chains, images, announcing, frames, platform>>
      BY <2>2 DEF FenceReadable
    <3>2. OneAnnouncement' /\ EntryIsNewest' /\ ToldIsPublished' /\ SampledIsAcquired' /\ ChangedImageIsMarked'
      BY <1>2, <3>1, Untouched
    <3> QED
      BY <3>1, <3>2 DEF Inv, TypeOK
  <2> QED
    BY <2>1, <2>2
<1> QED
  BY <1>1, <1>2, <1>3 DEF Inv, TypeOK, flutter, ToldIsPublished, Fine

(* The announcement brings the mark that the published image waited for.       *)
LEMMA AnnounceInv == ASSUME Inv, Announce PROVE Inv'
<1>1. PICK m \in announcing : platform' = platform \o Announcement(m)
  BY DEF Announce
<1> DEFINE k == Task("mark", m.view, None)
           t == Task("commit", m.view, images[m.view])
<1>2. /\ m \in Commits /\ m.view \in Views /\ images \in [Views -> Nat] /\ Fine(platform, images)
  BY DEF Inv, TypeOK, ToldIsPublished, Commits
<1>3. k \in Tasks /\ k.kind # "commit" /\ t \in Tasks /\ t.image <= images[t.view]
  BY <1>2, TasksAre DEF Task
<1>4. Announcement(m) = <<k, t>>
  BY DEF Announcement
<1> HIDE DEF k, t
<1>5. platform' = Append(Append(platform, k), t)
  BY <1>1, <1>2, <1>3, <1>4 DEF Fine
<1>6. /\ Fine(Append(platform, k), images) /\ ToSet(platform) \subseteq ToSet(Append(platform, k))
      /\ k \in ToSet(Append(platform, k))
  BY <1>2, <1>3, Appended
<1>7. Fine(platform', images) /\ ToSet(Append(platform, k)) \subseteq ToSet(platform')
  BY <1>3, <1>5, <1>6, Appended
<1>8. /\ announcing' = {}
      /\ UNCHANGED <<client, waiting, chains, images, frames, flutter>>
  BY DEF Announce
<1>9. ChangedImageIsMarked'
  <2> SUFFICES ASSUME NEW v \in Views, painted[v] \notin {None, frames[v].image}
               PROVE  Task("mark", v, None) \in ToSet(platform')
    BY <1>8 DEF ChangedImageIsMarked, flutter
  <2>1. CASE v = m.view
    BY <1>6, <1>7, <2>1 DEF k
  <2>2. CASE v # m.view
    <3>1. \A n \in announcing : n = m
      BY DEF Inv, OneAnnouncement
    <3> QED
      BY <1>6, <1>7, <2>2, <3>1 DEF Inv, ChangedImageIsMarked
  <2> QED
    BY <2>1, <2>2
<1>10. OneAnnouncement' /\ EntryIsNewest' /\ ToldIsPublished' /\ SampledIsAcquired'
  BY <1>7, <1>8 DEF Inv, flutter, OneAnnouncement, client, EntryIsNewest, ToldIsPublished, SampledIsAcquired
<1> QED
  BY <1>7, <1>8, <1>9, <1>10 DEF Inv, TypeOK, client, flutter, Fine

(* A surface dies: its entry goes unless Flutter acquired it.                   *)
LEMMA DestroyInv == ASSUME Inv, NEW v \in Views, Destroy(v) PROVE Inv'
<1>1. /\ surface' = [surface EXCEPT ![v] = "destroyed"] /\ announcing = {}
      /\ frames' = SurfaceDestroyed(v)
      /\ UNCHANGED <<attached, commits, images, announcing, platform, flutter>>
      /\ chains' = chains \ {v} /\ waiting' \subseteq waiting
  BY DEF Destroy, Idle
<1>2. /\ frames \in [Views -> [image : Nat, acquired : BOOLEAN]]
      /\ surface \in [Views -> {"none", "alive", "destroyed"}] /\ painted \in [Views -> Nat]
  BY DEF Inv, TypeOK
<1>3. /\ frames' \in [Views -> [image : Nat, acquired : BOOLEAN]]
      /\ \A u \in Views : u # v \/ frames[v].acquired => frames'[u] = frames[u]
      /\ ~frames[v].acquired => frames'[v].image = None /\ ~frames'[v].acquired
  BY <1>1, <1>2 DEF SurfaceDestroyed, NoFrame, None
<1>4. SampledIsAcquired'
  <2> SUFFICES ASSUME NEW u \in Views
               PROVE  /\ u \in sampled <=> frames'[u].acquired
                      /\ frames'[u].acquired => frames'[u].image # None
                      /\ painted[u] # None => u \in sampled
                      /\ painted[u] <= frames'[u].image
                      /\ surface'[u] = "destroyed" /\ ~frames'[u].acquired => frames'[u].image = None
    BY <1>1 DEF SampledIsAcquired, flutter
  <2>1. CASE u # v \/ frames[v].acquired
    BY <1>1, <1>2, <1>3, <2>1 DEF Inv, SampledIsAcquired
  <2>2. CASE u = v /\ ~frames[v].acquired
    BY <1>2, <1>3, <2>2 DEF Inv, SampledIsAcquired, None
  <2> QED
    BY <2>1, <2>2
<1>5. ChangedImageIsMarked'
  <2> SUFFICES ASSUME NEW u \in Views, painted[u] \notin {None, frames'[u].image}
               PROVE  Task("mark", u, None) \in ToSet(platform)
    BY <1>1 DEF ChangedImageIsMarked, flutter
  <2>1. u # v \/ frames[v].acquired
    BY DEF Inv, SampledIsAcquired
  <2> QED
    BY <1>1, <1>3, <2>1 DEF Inv, ChangedImageIsMarked
<1>6. EntryIsNewest' /\ ToldIsPublished' /\ OneAnnouncement'
  BY <1>1, <1>2, <1>3 DEF Inv, flutter, EntryIsNewest, ToldIsPublished, OneAnnouncement, Fine
<1> QED
  BY <1>1, <1>2, <1>3, <1>4, <1>5, <1>6 DEF Inv, TypeOK, flutter

(* Flutter runs a task; only a mark touches what it painted, and clears it.    *)
LEMMA RunTaskInv == ASSUME Inv, RunTask PROVE Inv'
<1> DEFINE task == Head(platform)
<1>1. /\ platform # <<>> /\ platform' = Tail(platform)
      /\ registered' \in {registered, registered \cup {task.view}}
      /\ painted' = IF task.kind = "mark" THEN [painted EXCEPT ![task.view] = None] ELSE painted
      /\ laidOut' = IF task.kind = "commit" THEN [laidOut EXCEPT ![task.view] = task.image] ELSE laidOut
      /\ UNCHANGED <<client, server, frames, sampled>>
  BY DEF RunTask
<1>2. drawing' \in BOOLEAN
  BY DEF RunTask, Inv, TypeOK
<1>3. /\ Fine(platform', images) /\ task \in Tasks
      /\ task.kind = "commit" => task.image <= images[task.view]
      /\ \A t \in ToSet(platform) : t # task => t \in ToSet(platform')
  BY <1>1, Taken DEF Inv, ToldIsPublished
<1>4. task.view \in Views /\ task.image \in Nat /\ task = Task(task.kind, task.view, task.image)
  BY <1>3, TasksAre
<1> HIDE DEF task
<1>5. laidOut \in [Views -> Nat] /\ painted \in [Views -> Nat]
  BY DEF Inv, TypeOK
<1>6. /\ painted' \in [Views -> Nat] /\ \A v \in Views : painted'[v] \in {None, painted[v]}
      /\ task.kind = "mark" => painted'[task.view] = None
  BY <1>1, <1>4, <1>5 DEF None
<1>7. laidOut' \in [Views -> Nat] /\ \A v \in Views : laidOut'[v] <= images[v]
  <2>1. CASE task.kind = "commit"
    BY <1>1, <1>3, <1>4, <1>5, <2>1 DEF Inv, ToldIsPublished
  <2>2. CASE task.kind # "commit"
    BY <1>1, <1>5, <2>2 DEF Inv, ToldIsPublished
  <2> QED
    BY <2>1, <2>2
<1>8. ToldIsPublished' /\ EntryIsNewest' /\ OneAnnouncement'
  BY <1>1, <1>3, <1>7 DEF Inv, client, server, EntryIsNewest, ToldIsPublished, OneAnnouncement, Fine
<1>9. SampledIsAcquired'
  <2> SUFFICES ASSUME NEW v \in Views
               PROVE  painted'[v] # None => v \in sampled /\ painted'[v] <= frames[v].image
    BY <1>1, <1>6 DEF Inv, TypeOK, SampledIsAcquired, client, None
  <2> QED
    BY <1>6 DEF Inv, SampledIsAcquired
<1>10. ChangedImageIsMarked'
  <2> SUFFICES ASSUME NEW v \in Views, painted'[v] \notin {None, frames[v].image}
               PROVE  (\E m \in announcing : m.view = v) \/ Task("mark", v, None) \in ToSet(platform')
    BY <1>1 DEF ChangedImageIsMarked, server
  <2>1. painted'[v] = painted[v] /\ (task.kind = "mark" => task.view # v)
    BY <1>6
  <2>2. Task("mark", v, None) # task
    BY <2>1 DEF Task
  <2> QED
    BY <1>3, <2>1, <2>2 DEF Inv, ChangedImageIsMarked
<1> QED
  BY <1>1, <1>2, <1>3, <1>4, <1>6, <1>7, <1>8, <1>9, <1>10 DEF Inv, TypeOK, client, server, Fine

(* Flutter samples an image: it has the newest, and the entry is acquired.     *)
LEMMA SampleInv == ASSUME Inv, NEW v \in Views, Sample(v) PROVE Inv'
<1>1. /\ frames[v].image # None
      /\ painted' = [painted EXCEPT ![v] = frames[v].image]
      /\ sampled' = sampled \cup {v}
      /\ frames' = [frames EXCEPT ![v].acquired = TRUE]
      /\ UNCHANGED <<client, server, platform, laidOut, registered, drawing>>
  BY DEF Sample, Paintable
<1>2. /\ frames \in [Views -> [image : Nat, acquired : BOOLEAN]] /\ painted \in [Views -> Nat]
      /\ sampled \subseteq Views
  BY DEF Inv, TypeOK
<1>3. /\ frames' \in [Views -> [image : Nat, acquired : BOOLEAN]] /\ painted' \in [Views -> Nat]
      /\ \A u \in Views : /\ frames'[u].image = frames[u].image
                          /\ u # v => frames'[u] = frames[u] /\ painted'[u] = painted[u]
      /\ frames'[v].acquired /\ painted'[v] = frames[v].image
  BY <1>1, <1>2
<1>4. SampledIsAcquired'
  <2> SUFFICES ASSUME NEW u \in Views
               PROVE  /\ u \in sampled' <=> frames'[u].acquired
                      /\ frames'[u].acquired => frames'[u].image # None
                      /\ painted'[u] # None => u \in sampled'
                      /\ painted'[u] <= frames'[u].image
                      /\ surface[u] = "destroyed" /\ ~frames'[u].acquired => frames'[u].image = None
    BY <1>1 DEF SampledIsAcquired, client
  <2>1. CASE u = v
    BY <1>1, <1>2, <1>3, <2>1
  <2>2. CASE u # v
    BY <1>1, <1>3, <2>2 DEF Inv, SampledIsAcquired
  <2> QED
    BY <2>1, <2>2
<1>5. ChangedImageIsMarked'
  BY <1>1, <1>3 DEF Inv, ChangedImageIsMarked, server
<1>6. EntryIsNewest' /\ ToldIsPublished' /\ OneAnnouncement'
  BY <1>1, <1>3 DEF Inv, client, server, EntryIsNewest, ToldIsPublished, OneAnnouncement, Fine
<1> QED
  BY <1>1, <1>2, <1>3, <1>4, <1>5, <1>6 DEF Inv, TypeOK, client, server

(* Steps that touch neither the queue, nor the registry, nor what Flutter has. *)
LEMMA OtherInv ==
  ASSUME Inv,
         \/ (\E v \in Views : CommitNothing(v)) \/ (\E m \in waiting : FenceFails(m))
         \/ UNCHANGED vars
  PROVE  Inv'
<1>1. UNCHANGED <<surface, commits, chains, images, announcing, frames, platform, flutter>>
  BY DEF CommitNothing, FenceFails, vars, client, server
<1>2. OneAnnouncement' /\ EntryIsNewest' /\ ToldIsPublished' /\ SampledIsAcquired' /\ ChangedImageIsMarked'
  BY <1>1, Untouched
<1>3. /\ attached' \in [Views -> BOOLEAN] /\ waiting' \subseteq Commits
  BY DEF CommitNothing, FenceFails, vars, client, server, Inv, TypeOK, Commits
<1> QED
  BY <1>1, <1>2, <1>3 DEF Inv, TypeOK, flutter

LEMMA StepInv == ASSUME Inv, [Next]_vars PROVE Inv'
<1>1. ASSUME NEW v \in Views, Create(v) PROVE Inv'
  <2>1. surface[v] = "none" /\ surface' = [surface EXCEPT ![v] = "alive"]
        /\ UNCHANGED <<attached, commits, server, frames, platform, flutter>>
    BY <1>1 DEF Create
  <2>2. surface' \in [Views -> {"none", "alive", "destroyed"}]
        /\ \A u \in Views : surface'[u] = "destroyed" <=> surface[u] = "destroyed"
    BY <2>1 DEF Inv, TypeOK
  <2>3. TypeOK' /\ OneAnnouncement' /\ ToldIsPublished' /\ ChangedImageIsMarked'
    BY <2>1, <2>2 DEF Inv, TypeOK, OneAnnouncement, ToldIsPublished, ChangedImageIsMarked, Fine, server, flutter
  <2>4. EntryIsNewest' /\ SampledIsAcquired'
    BY <2>1, <2>2 DEF Inv, EntryIsNewest, SampledIsAcquired, server, flutter
  <2> QED
    BY <2>3, <2>4 DEF Inv
<1>2. ASSUME PresentFrame PROVE Inv'
  <2>1. /\ drawing' = FALSE
        /\ UNCHANGED <<client, server, frames, platform, laidOut, registered, painted, sampled>>
    BY <1>2 DEF PresentFrame
  <2>2. TypeOK' /\ OneAnnouncement' /\ ToldIsPublished' /\ ChangedImageIsMarked'
    BY <2>1 DEF Inv, TypeOK, OneAnnouncement, ToldIsPublished, ChangedImageIsMarked, Fine, client, server
  <2>3. EntryIsNewest' /\ SampledIsAcquired'
    BY <2>1 DEF Inv, EntryIsNewest, SampledIsAcquired, client, server
  <2> QED
    BY <2>2, <2>3 DEF Inv
<1> QED
  BY <1>1, <1>2, CommitBufferInv, FenceReadableInv, AnnounceInv, DestroyInv, RunTaskInv, SampleInv,
     OtherInv DEF Next

-----------------------------------------------------------------------------
(* Theorems                                                                    *)

LEMMA Invariance == Spec => []Inv
  BY InitInv, StepInv, PTL DEF Spec

(* Every variable of the commit path keeps its type.                           *)
THEOREM CommitsTyped == Spec => []TypeOK
<1>1. Inv => TypeOK
  BY DEF Inv
<1> QED
  BY <1>1, Invariance, PTL

(* The image a live view's layout came with is in the registry, or a newer one. *)
THEOREM LayoutsFindImages == Spec => []LayoutHasItsImage
<1>1. Inv => LayoutHasItsImage
  <2> SUFFICES ASSUME Inv, NEW v \in Views, surface[v] = "alive"
               PROVE  frames[v].image >= laidOut[v]
    BY DEF LayoutHasItsImage
  <2>1. frames[v].image = images[v] /\ laidOut[v] <= images[v] /\ laidOut[v] \in Nat /\ images[v] \in Nat
    BY DEF Inv, TypeOK, EntryIsNewest, ToldIsPublished
  <2> QED
    BY <2>1
<1> QED
  BY <1>1, Invariance, PTL

(* An image Flutter keeps is the newest, or the mark that it is not is coming.  *)
THEOREM ChangedImagesAreMarked == Spec => []ChangedImageIsMarked
<1>1. Inv => ChangedImageIsMarked
  BY DEF Inv
<1> QED
  BY <1>1, Invariance, PTL

(* Of destroyed surfaces, those Flutter sampled keep their image, and no other. *)
THEOREM ClosingImagesAreKept == Spec => []ClosingImageKept
<1>1. Inv => ClosingImageKept
  <2> SUFFICES ASSUME Inv, NEW v \in Views, surface[v] = "destroyed"
               PROVE  /\ frames[v].image # None <=> v \in sampled
                      /\ painted[v] # None => painted[v] <= frames[v].image
    BY DEF ClosingImageKept
  <2> QED
    BY DEF Inv, SampledIsAcquired
<1> QED
  BY <1>1, Invariance, PTL

-----------------------------------------------------------------------------
(* Frame callbacks                                                             *)

Messages == {Draw} \cup {State(v, b) : v \in Toplevels, b \in BOOLEAN}

MappedIsAlive == \A v \in Toplevels : mapped[v] => window[v] = "alive"

(* The last the shell hears of a hidden window, or has heard, is that it is.    *)
Told(q, v) ==
  \/ ~shellVisible[v] /\ State(v, TRUE) \notin ToSet(q)
  \/ \E i \in 1..Len(q) : /\ q[i] = State(v, FALSE)
                          /\ \A j \in 1..Len(q) : j > i => q[j] # State(v, TRUE)

HiddenIsTold == \A v \in Toplevels : ~visible[v] => Told(toShell, v)

(* What the shell still has to do for a window that comes back.                 *)
Returning(v) == ~shellVisible[v] \/ State(v, FALSE) \in ToSet(toShell)

CallbackInv == CallbackTypeOK /\ MappedIsAlive /\ HiddenIsTold /\ OwedAnswerIsComing

(* Another message after the ones that wait.                                    *)
LEMMA MessageQueued ==
  ASSUME NEW q \in Seq(Messages), NEW x \in Messages
  PROVE  /\ Append(q, x) \in Seq(Messages)
         /\ ToSet(q) \subseteq ToSet(Append(q, x)) /\ x \in ToSet(Append(q, x))
         /\ \A v \in Toplevels : /\ x # State(v, TRUE) /\ Told(q, v) => Told(Append(q, x), v)
                                 /\ x = State(v, FALSE) => Told(Append(q, x), v)
<1>1. /\ Append(q, x) \in Seq(Messages) /\ Len(Append(q, x)) = Len(q) + 1 /\ Len(q) \in Nat
      /\ \A i \in 1..Len(q) : Append(q, x)[i] = q[i]
      /\ Append(q, x)[Len(q) + 1] = x
      /\ DOMAIN Append(q, x) = 1..(Len(q) + 1) /\ DOMAIN q = 1..Len(q)
  OBVIOUS
<1>2. /\ ToSet(q) \subseteq ToSet(Append(q, x)) /\ x \in ToSet(Append(q, x))
      /\ \A y \in ToSet(Append(q, x)) : y \in ToSet(q) \/ y = x
  BY <1>1 DEF ToSet
<1>3. ASSUME NEW v \in Toplevels, x # State(v, TRUE), Told(q, v) PROVE Told(Append(q, x), v)
  <2>1. CASE ~shellVisible[v] /\ State(v, TRUE) \notin ToSet(q)
    BY <1>2, <1>3, <2>1 DEF Told
  <2>2. CASE \E i \in 1..Len(q) : /\ q[i] = State(v, FALSE)
                                  /\ \A j \in 1..Len(q) : j > i => q[j] # State(v, TRUE)
    <3>1. PICK i \in 1..Len(q) : /\ q[i] = State(v, FALSE)
                                 /\ \A j \in 1..Len(q) : j > i => q[j] # State(v, TRUE)
      BY <2>2
    <3>2. i \in 1..Len(Append(q, x)) /\ Append(q, x)[i] = State(v, FALSE)
      BY <1>1, <3>1
    <3>3. ASSUME NEW j \in 1..Len(Append(q, x)), j > i PROVE Append(q, x)[j] # State(v, TRUE)
      <4>1. j \in 1..Len(q) \/ j = Len(q) + 1
        BY <1>1
      <4> QED
        BY <1>1, <1>3, <3>1, <3>3, <4>1
    <3> QED
      BY <3>2, <3>3 DEF Told
  <2> QED
    BY <1>3, <2>1, <2>2 DEF Told
<1>4. ASSUME NEW v \in Toplevels, x = State(v, FALSE) PROVE Told(Append(q, x), v)
  <2>1. /\ Len(q) + 1 \in 1..Len(Append(q, x)) /\ Append(q, x)[Len(q) + 1] = State(v, FALSE)
        /\ \A j \in 1..Len(Append(q, x)) : ~ j > Len(q) + 1
    BY <1>1, <1>4
  <2> QED
    BY <2>1 DEF Told
<1> QED
  BY <1>1, <1>2, <1>3, <1>4

(* Messages are what Draw and State make, and tell views and news apart.        *)
LEMMA MessagesAre ==
  /\ Draw \in Messages /\ \A v \in Toplevels, b \in BOOLEAN : State(v, b) \in Messages
  /\ \A v, w \in Toplevels, b, c \in BOOLEAN : State(v, b) = State(w, c) => v = w /\ b = c
  /\ \A v \in Toplevels, b \in BOOLEAN : Draw # State(v, b)
  /\ \A x \in Messages : \/ x = Draw /\ x.kind = "draw"
                         \/ /\ x.kind = "state" /\ x.view \in Toplevels /\ x.visible \in BOOLEAN
                            /\ x = State(x.view, x.visible)
<1>1. \A v \in Toplevels, b \in BOOLEAN : Draw # State(v, b)
  <2>1. \A v \in Toplevels, b \in BOOLEAN : State(v, b).kind = "state"
    BY DEF State
  <2>2. Draw.kind = "draw"
    BY DEF Draw
  <2> QED
    BY <2>1, <2>2
<1>2. \A v, w \in Toplevels, b, c \in BOOLEAN : State(v, b) = State(w, c) => v = w /\ b = c
  <2> SUFFICES ASSUME NEW v \in Toplevels, NEW w \in Toplevels, NEW b \in BOOLEAN, NEW c \in BOOLEAN,
                      State(v, b) = State(w, c)
               PROVE  v = w /\ b = c
    OBVIOUS
  <2>1. State(v, b).view = v /\ State(w, c).view = w
    BY DEF State
  <2>2. State(v, b).visible = b /\ State(w, c).visible = c
    BY DEF State
  <2>3. v = w
    BY <2>1
  <2>4. b = c
    BY <2>2
  <2> QED
    BY <2>3, <2>4
<1>3. Draw \in Messages /\ \A v \in Toplevels, b \in BOOLEAN : State(v, b) \in Messages
  BY DEF Messages
<1>4. ASSUME NEW x \in Messages
      PROVE  \/ x = Draw /\ x.kind = "draw"
             \/ /\ x.kind = "state" /\ x.view \in Toplevels /\ x.visible \in BOOLEAN
                /\ x = State(x.view, x.visible)
  <2>1. CASE x = Draw
    BY <2>1 DEF Draw
  <2>2. ASSUME NEW v \in Toplevels, NEW b \in BOOLEAN, x = State(v, b)
        PROVE  /\ x.kind = "state" /\ x.view \in Toplevels /\ x.visible \in BOOLEAN
               /\ x = State(x.view, x.visible)
    BY <2>2 DEF State
  <2> QED
    BY <2>1, <2>2 DEF Messages
<1> QED
  BY <1>1, <1>2, <1>3, <1>4

(* Windows that are served stay so, and what was coming for them still comes,   *)
(* when nothing but queue, repaints, fences and commits grow.                   *)
LEMMA StillComing ==
  ASSUME CallbackInv, NEW v \in Toplevels, v \in awaiting \ lost,
         Served(v)', window'[v] = window[v], mapped'[v] = mapped[v], visible'[v] = visible[v],
         UNCHANGED <<geometry, lit, shellVisible, frameDue>>,
         repaint \subseteq repaint', ToSet(toShell) \subseteq ToSet(toShell'),
         \A m \in fenced : m.view = v => m \in fenced'
  PROVE  \/ \E o \in repaint' : NotifiedOn(v, o)'
         \/ \E m \in fenced' : m.view = v
         \/ frameDue'
         \/ Returning(v)'
<1>1. \A o : NotifiedOn(v, o)' <=> NotifiedOn(v, o)
  BY DEF NotifiedOn, IntersectsOutput, Intersect
<1>2. Served(v)
  BY <1>1 DEF Served
<1> QED
  BY <1>1, <1>2 DEF CallbackInv, OwedAnswerIsComing, Returning

(* All lit outputs scheduled: whoever is served is answered.                    *)
LEMMA AllScheduled ==
  ASSUME repaint' = lit', NEW v \in Toplevels, Served(v)'
  PROVE  \E o \in repaint' : NotifiedOn(v, o)'
  BY DEF Served

(* What is owed, one window at a time.                                          *)
LEMMA OwedToEach ==
  ASSUME CallbackTypeOK',
         \A v \in awaiting' \ lost' :
           Served(v)' => \/ \E o \in repaint' : NotifiedOn(v, o)'
                         \/ \E m \in fenced' : m.view = v
                         \/ frameDue'
                         \/ Returning(v)'
  PROVE  OwedAnswerIsComing'
  BY DEF OwedAnswerIsComing, Returning

LEMMA CallbackInitInv == CallbackInit => CallbackInv
<1> SUFFICES ASSUME CallbackInit PROVE CallbackInv
  OBVIOUS
<1>1. CallbackTypeOK
  BY CallbackAssumption DEF CallbackInit, CallbackTypeOK
<1> QED
  BY <1>1 DEF CallbackInit, CallbackInv, MappedIsAlive, HiddenIsTold, OwedAnswerIsComing

(* Applying a commit queues at most one more message and schedules every output. *)
LEMMA AppliedCommit ==
  ASSUME NEW m, NEW q \in Seq(Messages), CommitApplied(m, q)
  PROVE  /\ toShell' \in Seq(Messages) /\ ToSet(q) \subseteq ToSet(toShell')
         /\ \A v \in Toplevels : Told(q, v) => Told(toShell', v)
         /\ repaint' = lit /\ lost' = lost \ {m.view}
  BY MessageQueued, MessagesAre DEF CommitApplied

LEMMA CommitWithBufferInv ==
  ASSUME CallbackInv, NEW v \in Toplevels, CommitWithBuffer(v) PROVE CallbackInv'
<1>1. PICK asks \in BOOLEAN, changed \in {TRUE, ~mapped[v]} :
        LET m == [view |-> v, changed |-> changed, callback |-> v \in Asked(v, asks),
                  number |-> committed + 1]
            queue == IF mapped[v] THEN toShell ELSE Append(toShell, State(v, visible[v]))
        IN /\ awaiting' = Asked(v, asks)
           /\ \/ CommitApplied(m, queue) /\ UNCHANGED fenced
              \/ /\ \/ fenced' = fenced \cup {m} /\ UNCHANGED lost
                    \/ lost' = lost \cup {v} /\ UNCHANGED fenced
                 /\ toShell' = queue
                 /\ repaint' = IF mapped[v] THEN repaint ELSE lit
  BY DEF CommitWithBuffer
<1> DEFINE m == [view |-> v, changed |-> changed, callback |-> v \in Asked(v, asks),
                 number |-> committed + 1]
           queue == IF mapped[v] THEN toShell ELSE Append(toShell, State(v, visible[v]))
<1>2. /\ window[v] = "alive" /\ committed < MaxCommitted
      /\ mapped' = [mapped EXCEPT ![v] = TRUE] /\ committed' = committed + 1
      /\ UNCHANGED <<window, visible, geometry, lit, shellVisible, frameDue, calls>>
  BY DEF CommitWithBuffer
<1>3. /\ toShell \in Seq(Messages) /\ mapped \in [Toplevels -> BOOLEAN]
      /\ visible \in [Toplevels -> BOOLEAN] /\ repaint \subseteq lit
  BY DEF CallbackInv, CallbackTypeOK, Messages
<1>4. /\ queue \in Seq(Messages) /\ ToSet(toShell) \subseteq ToSet(queue)
      /\ \A w \in Toplevels : ~visible[w] => Told(queue, w)
  <2>1. State(v, visible[v]) \in Messages
    BY <1>3, MessagesAre
  <2>2. ASSUME NEW w \in Toplevels, ~visible[w] PROVE State(v, visible[v]) # State(w, TRUE)
    <3>1. visible[v] \in BOOLEAN
      BY <1>3
    <3>2. \A b \in BOOLEAN : State(v, b) = State(w, TRUE) => v = w /\ b = TRUE
      BY MessagesAre
    <3> QED
      BY <2>2, <3>1, <3>2
  <2> QED
    BY <1>3, <2>1, <2>2, MessageQueued DEF CallbackInv, HiddenIsTold
<1>5. m \in FencedCommits /\ m.view = v
  <2>1. committed + 1 \in 1..MaxCommitted
    BY <1>2, CallbackAssumption DEF CallbackInv, CallbackTypeOK
  <2>2. changed \in BOOLEAN
    BY <1>3
  <2>3. (v \in Asked(v, asks)) \in BOOLEAN
    OBVIOUS
  <2> HIDE DEF Asked
  <2> QED
    BY <2>1, <2>2, <2>3 DEF FencedCommits
<1> HIDE DEF m, queue
<1>6. \/ CommitApplied(m, queue) /\ UNCHANGED fenced
      \/ /\ \/ fenced' = fenced \cup {m} /\ UNCHANGED lost
            \/ lost' = lost \cup {v} /\ UNCHANGED fenced
         /\ toShell' = queue
         /\ repaint' = IF mapped[v] THEN repaint ELSE lit
  BY <1>1 DEF m, queue
<1>7. /\ toShell' \in Seq(Messages) /\ ToSet(toShell) \subseteq ToSet(toShell')
      /\ \A w \in Toplevels : ~visible[w] => Told(toShell', w)
      /\ repaint \subseteq repaint' /\ repaint' \subseteq lit
  BY <1>3, <1>4, <1>6, AppliedCommit
<1>8. fenced \subseteq fenced' /\ fenced' \subseteq FencedCommits /\ lost' \subseteq Toplevels
  BY <1>5, <1>6 DEF CommitApplied, CallbackInv, CallbackTypeOK
<1>9. awaiting \subseteq awaiting' /\ awaiting' \subseteq awaiting \cup {v}
  BY <1>1 DEF Asked
<1>10. CallbackTypeOK'
  BY <1>2, <1>3, <1>7, <1>8, <1>9, CallbackAssumption DEF CallbackInv, CallbackTypeOK, Messages
<1>11. MappedIsAlive'
  BY <1>2, <1>3 DEF CallbackInv, MappedIsAlive
<1>12. HiddenIsTold'
  BY <1>2, <1>7 DEF HiddenIsTold, Told
<1>13. OwedAnswerIsComing'
  <2> SUFFICES ASSUME NEW w \in awaiting' \ lost', Served(w)'
               PROVE  \/ \E o \in repaint' : NotifiedOn(w, o)'
                      \/ \E n \in fenced' : n.view = w
                      \/ frameDue'
                      \/ Returning(w)'
    BY <1>10, OwedToEach
  <2>1. w \in Toplevels
    BY <1>10 DEF CallbackTypeOK
  <2>2. CASE CommitApplied(m, queue)
    BY <1>2, <2>1, <2>2, AllScheduled DEF CommitApplied
  <2>3. CASE w = v /\ ~CommitApplied(m, queue)
    BY <1>5, <1>6, <2>3
  <2>4. CASE w # v /\ ~CommitApplied(m, queue)
    <3>1. w \in awaiting \ lost
      BY <1>6, <1>9, <2>4
    <3>2. mapped'[w] = mapped[w] /\ \A n \in fenced : n.view = w => n \in fenced'
      BY <1>2, <1>3, <1>8, <2>1, <2>4
    <3> QED
      BY <1>2, <1>7, <2>1, <3>1, <3>2, StillComing
  <2> QED
    BY <2>2, <2>3, <2>4
<1> QED
  BY <1>10, <1>11, <1>12, <1>13 DEF CallbackInv

LEMMA CommitWithoutBufferInv ==
  ASSUME CallbackInv, NEW v \in Toplevels, CommitWithoutBuffer(v) PROVE CallbackInv'
<1>1. /\ awaiting \subseteq awaiting' /\ awaiting' \subseteq awaiting \cup {v}
      /\ mapped' = [mapped EXCEPT ![v] = FALSE]
      /\ repaint' = IF mapped[v] THEN lit ELSE repaint
      /\ toShell' \in {toShell, Append(toShell, State(v, visible[v]))}
      /\ committed < MaxCommitted /\ committed' = committed + 1
      /\ UNCHANGED <<window, visible, geometry, fenced, lost, lit, shellVisible, frameDue, calls>>
  BY DEF CommitWithoutBuffer, Asked
<1>2. /\ toShell \in Seq(Messages) /\ mapped \in [Toplevels -> BOOLEAN]
      /\ visible \in [Toplevels -> BOOLEAN] /\ repaint \subseteq lit
  BY DEF CallbackInv, CallbackTypeOK, Messages
<1>3. /\ toShell' \in Seq(Messages) /\ ToSet(toShell) \subseteq ToSet(toShell')
      /\ \A w \in Toplevels : ~visible[w] => Told(toShell', w)
  <2>1. visible[v] \in BOOLEAN /\ State(v, visible[v]) \in Messages
    BY <1>2, MessagesAre
  <2>2. ASSUME NEW w \in Toplevels, ~visible[w] PROVE State(v, visible[v]) # State(w, TRUE)
    <3>1. \A b \in BOOLEAN : State(v, b) = State(w, TRUE) => v = w /\ b = TRUE
      BY MessagesAre
    <3> QED
      BY <2>1, <2>2, <3>1
  <2>3. CASE toShell' = toShell
    BY <1>2, <2>3 DEF CallbackInv, HiddenIsTold
  <2>4. CASE toShell' = Append(toShell, State(v, visible[v]))
    <3>1. \A w \in Toplevels : ~visible[w] => Told(toShell, w)
      BY DEF CallbackInv, HiddenIsTold
    <3> QED
      BY <1>2, <2>1, <2>2, <2>4, <3>1, MessageQueued
  <2> QED
    BY <1>1, <2>3, <2>4
<1>4. CallbackTypeOK'
  BY <1>1, <1>2, <1>3, CallbackAssumption DEF CallbackInv, CallbackTypeOK, Messages
<1>5. MappedIsAlive'
  BY <1>1, <1>2 DEF CallbackInv, MappedIsAlive
<1>6. HiddenIsTold'
  BY <1>1, <1>3 DEF HiddenIsTold, Told
<1>7. OwedAnswerIsComing'
  <2> SUFFICES ASSUME NEW w \in awaiting' \ lost', Served(w)'
               PROVE  \/ \E o \in repaint' : NotifiedOn(w, o)'
                      \/ \E n \in fenced' : n.view = w
                      \/ frameDue'
                      \/ Returning(w)'
    BY <1>4, OwedToEach
  <2>1. w \in Toplevels /\ mapped'[w]
    BY <1>4 DEF CallbackTypeOK, Served, NotifiedOn
  <2>2. w # v /\ w \in awaiting \ lost /\ mapped'[w] = mapped[w]
    BY <1>1, <1>2, <2>1
  <2> QED
    BY <1>1, <1>2, <1>3, <2>1, <2>2, StillComing
<1> QED
  BY <1>4, <1>5, <1>6, <1>7 DEF CallbackInv

(* A fence signals, and its commit is applied.                                  *)
LEMMA FenceSignalsInv ==
  ASSUME CallbackInv, NEW m \in fenced, FenceSignals(m) PROVE CallbackInv'
<1>1. /\ fenced' = fenced \ {m} /\ CommitApplied(m, toShell)
      /\ UNCHANGED <<windows, awaiting, lit, shellVisible, frameDue, committed, calls>>
  BY DEF FenceSignals
<1>2. toShell \in Seq(Messages)
  BY DEF CallbackInv, CallbackTypeOK, Messages
<1>3. /\ toShell' \in Seq(Messages) /\ repaint' = lit /\ lost' = lost \ {m.view}
      /\ \A w \in Toplevels : Told(toShell, w) => Told(toShell', w)
  BY <1>1, <1>2, AppliedCommit
<1>4. CallbackTypeOK'
  BY <1>1, <1>3 DEF CallbackInv, CallbackTypeOK, Messages, windows
<1>5. MappedIsAlive'
  BY <1>1 DEF CallbackInv, MappedIsAlive, windows
<1>6. HiddenIsTold'
  BY <1>1, <1>3 DEF CallbackInv, HiddenIsTold, Told, windows
<1>7. OwedAnswerIsComing'
  BY <1>1, <1>3, <1>4, AllScheduled, OwedToEach DEF CallbackTypeOK
<1> QED
  BY <1>4, <1>5, <1>6, <1>7 DEF CallbackInv

(* A commit is lost: its window waits for the next, the others as before.       *)
LEMMA FenceLostInv ==
  ASSUME CallbackInv, NEW m \in fenced, FenceLost(m) PROVE CallbackInv'
<1>1. /\ fenced' = fenced \ {m} /\ lost' = lost \cup {m.view}
      /\ UNCHANGED <<window, mapped, visible, geometry, awaiting, lit, repaint, toShell,
                     shellVisible, frameDue, committed, calls>>
  BY DEF FenceLost, windows, display, shell
<1>2. CallbackTypeOK'
  BY <1>1 DEF CallbackInv, CallbackTypeOK, FencedCommits
<1>3. MappedIsAlive' /\ HiddenIsTold'
  BY <1>1 DEF CallbackInv, MappedIsAlive, HiddenIsTold, Told
<1>4. OwedAnswerIsComing'
  <2> SUFFICES ASSUME NEW w \in awaiting' \ lost', Served(w)'
               PROVE  \/ \E o \in repaint' : NotifiedOn(w, o)'
                      \/ \E n \in fenced' : n.view = w
                      \/ frameDue'
                      \/ Returning(w)'
    BY <1>2, OwedToEach
  <2>1. w \in Toplevels /\ w \in awaiting \ lost /\ w # m.view
    BY <1>1, <1>2 DEF CallbackTypeOK
  <2> QED
    BY <1>1, <2>1, StillComing
<1> QED
  BY <1>2, <1>3, <1>4 DEF CallbackInv

(* A window dies: nobody waits for it any more.                                 *)
LEMMA DestroyToplevelInv ==
  ASSUME CallbackInv, NEW v \in Toplevels, DestroyToplevel(v) PROVE CallbackInv'
<1>1. /\ window' = [window EXCEPT ![v] = "gone"] /\ mapped' = [mapped EXCEPT ![v] = FALSE]
      /\ geometry' = [geometry EXCEPT ![v] = Unknown]
      /\ awaiting' = awaiting \ {v} /\ lost' = lost \ {v}
      /\ fenced' = {m \in fenced : m.view # v}
      /\ repaint' = IF mapped[v] THEN lit ELSE repaint
      /\ UNCHANGED <<visible, lit, toShell, shellVisible, frameDue, committed, calls>>
  BY DEF DestroyToplevel, shell
<1>2. /\ window \in [Toplevels -> {"none", "alive", "gone"}] /\ mapped \in [Toplevels -> BOOLEAN]
      /\ geometry \in [Toplevels -> Places \cup {Unknown}] /\ repaint \subseteq lit
  BY DEF CallbackInv, CallbackTypeOK
<1>3. CallbackTypeOK'
  BY <1>1, <1>2 DEF CallbackInv, CallbackTypeOK
<1>4. MappedIsAlive'
  BY <1>1, <1>2 DEF CallbackInv, MappedIsAlive
<1>5. HiddenIsTold'
  BY <1>1 DEF CallbackInv, HiddenIsTold, Told
<1>6. OwedAnswerIsComing'
  <2> SUFFICES ASSUME NEW w \in awaiting' \ lost', Served(w)'
               PROVE  \/ \E o \in repaint' : NotifiedOn(w, o)'
                      \/ \E n \in fenced' : n.view = w
                      \/ frameDue'
                      \/ Returning(w)'
    BY <1>3, OwedToEach
  <2>1. w \in Toplevels /\ w # v /\ w \in awaiting \ lost
    BY <1>1, <1>3 DEF CallbackTypeOK
  <2>2. \A o : NotifiedOn(w, o)' <=> NotifiedOn(w, o)
    BY <1>1, <1>2, <2>1 DEF NotifiedOn, IntersectsOutput, Intersect
  <2>3. Served(w)
    BY <1>1, <2>2 DEF Served
  <2> QED
    BY <1>1, <1>2, <2>1, <2>2, <2>3 DEF CallbackInv, OwedAnswerIsComing, Returning
<1> QED
  BY <1>3, <1>4, <1>5, <1>6 DEF CallbackInv

(* A window is hidden or shown: if it was hidden, the shell has yet to draw it. *)
LEMMA ChangeVisibilityInv ==
  ASSUME CallbackInv, NEW v \in Toplevels, NEW b \in BOOLEAN, ChangeVisibility(v, b)
  PROVE  CallbackInv'
<1>1. /\ visible' = [visible EXCEPT ![v] = b] /\ toShell' = Append(toShell, State(v, b))
      /\ calls < MaxCalls /\ calls' = calls + 1
      /\ UNCHANGED <<window, mapped, geometry, awaiting, fenced, lost, lit, repaint, shellVisible,
                     frameDue, committed>>
  BY DEF ChangeVisibility, Called, StateTold, pending, display
<1>2. /\ toShell \in Seq(Messages) /\ visible \in [Toplevels -> BOOLEAN]
  BY DEF CallbackInv, CallbackTypeOK, Messages
<1>3. State(v, b) \in Messages /\ \A w \in Toplevels : State(v, b) = State(w, TRUE) => v = w /\ b
  BY MessagesAre
<1>4. /\ toShell' \in Seq(Messages) /\ ToSet(toShell) \subseteq ToSet(toShell')
      /\ \A w \in Toplevels : ~visible'[w] => Told(toShell', w)
  <2>1. ASSUME NEW w \in Toplevels, ~visible'[w], w # v PROVE Told(toShell', w)
    <3>1. Told(toShell, w) /\ State(v, b) # State(w, TRUE)
      BY <1>1, <1>2, <1>3, <2>1 DEF CallbackInv, HiddenIsTold
    <3> QED
      BY <1>1, <1>2, <1>3, <3>1, MessageQueued
  <2>2. ASSUME ~visible'[v] PROVE Told(toShell', v)
    <3>1. State(v, b) = State(v, FALSE)
      BY <1>1, <1>2, <2>2
    <3> QED
      BY <1>1, <1>2, <1>3, <3>1, MessageQueued
  <2> QED
    BY <1>1, <1>2, <1>3, <2>1, <2>2, MessageQueued
<1>5. CallbackTypeOK'
  BY <1>1, <1>2, <1>4, CallbackAssumption DEF CallbackInv, CallbackTypeOK, Messages
<1>6. MappedIsAlive' /\ HiddenIsTold'
  BY <1>1, <1>4 DEF CallbackInv, MappedIsAlive, HiddenIsTold, Told
<1>7. OwedAnswerIsComing'
  <2> SUFFICES ASSUME NEW w \in awaiting' \ lost', Served(w)'
               PROVE  \/ \E o \in repaint' : NotifiedOn(w, o)'
                      \/ \E n \in fenced' : n.view = w
                      \/ frameDue'
                      \/ Returning(w)'
    BY <1>5, OwedToEach
  <2>1. w \in Toplevels /\ w \in awaiting \ lost /\ visible'[w]
    BY <1>1, <1>5 DEF CallbackTypeOK, Served, NotifiedOn
  <2>2. CASE visible[w]
    BY <1>1, <1>2, <1>4, <2>1, <2>2, StillComing
  <2>3. CASE ~visible[w]
    <3>1. Told(toShell, w)
      BY <2>1, <2>3 DEF CallbackInv, HiddenIsTold
    <3>2. ~shellVisible[w] \/ State(w, FALSE) \in ToSet(toShell)
      <4>1. DOMAIN toShell = 1..Len(toShell)
        BY <1>2
      <4>2. ASSUME NEW i \in 1..Len(toShell), toShell[i] = State(w, FALSE)
            PROVE  State(w, FALSE) \in ToSet(toShell)
        BY <4>1, <4>2 DEF ToSet
      <4> QED
        BY <3>1, <4>2 DEF Told
    <3> QED
      BY <1>1, <1>4, <3>2 DEF Returning
  <2> QED
    BY <2>2, <2>3
<1> QED
  BY <1>5, <1>6, <1>7 DEF CallbackInv

(* An output has a frame: whom it does not answer is answered elsewhere.        *)
LEMMA NotifyOnFrameInv ==
  ASSUME CallbackInv, NEW o \in Outputs, NotifyOnFrame(o) PROVE CallbackInv'
<1> DEFINE answered == {v \in Toplevels : NotifiedOn(v, o)}
<1>1. /\ repaint' = repaint \ {o} /\ awaiting' = awaiting \ answered /\ lost' = lost \ answered
      /\ UNCHANGED <<window, mapped, visible, geometry, fenced, lit, toShell, shellVisible,
                     frameDue, committed, calls>>
  BY DEF NotifyOnFrame, windows, shell
<1>2. CallbackTypeOK'
  BY <1>1 DEF CallbackInv, CallbackTypeOK
<1>3. MappedIsAlive' /\ HiddenIsTold'
  BY <1>1 DEF CallbackInv, MappedIsAlive, HiddenIsTold, Told
<1>4. OwedAnswerIsComing'
  <2> SUFFICES ASSUME NEW w \in awaiting' \ lost', Served(w)'
               PROVE  \/ \E p \in repaint' : NotifiedOn(w, p)'
                      \/ \E n \in fenced' : n.view = w
                      \/ frameDue'
                      \/ Returning(w)'
    BY <1>2, OwedToEach
  <2>1. w \in Toplevels /\ w \in awaiting \ lost /\ ~NotifiedOn(w, o)
    BY <1>1, <1>2 DEF CallbackTypeOK
  <2>2. \A p : NotifiedOn(w, p)' <=> NotifiedOn(w, p)
    BY <1>1 DEF NotifiedOn, IntersectsOutput, Intersect
  <2>3. Served(w)
    BY <1>1, <2>2 DEF Served
  <2> QED
    BY <1>1, <2>1, <2>2, <2>3 DEF CallbackInv, OwedAnswerIsComing, Returning
<1> QED
  BY <1>2, <1>3, <1>4 DEF CallbackInv

(* The shell hears of a window that comes back, and draws.                      *)
LEMMA RunMessageInv == ASSUME CallbackInv, RunMessage PROVE CallbackInv'
<1> DEFINE x == Head(toShell)
<1>1. /\ toShell # <<>> /\ toShell' = Tail(toShell)
      /\ \/ /\ x.kind = "draw" /\ frameDue' = TRUE /\ UNCHANGED shellVisible
         \/ /\ x.kind = "state"
            /\ shellVisible' = [shellVisible EXCEPT ![x.view] = x.visible]
            /\ frameDue' = (frameDue \/ shellVisible[x.view] # x.visible)
      /\ UNCHANGED <<window, mapped, visible, geometry, awaiting, fenced, lost, lit, repaint,
                     committed, calls>>
  BY DEF RunMessage, windows, pending, display
<1>2. /\ toShell \in Seq(Messages) /\ shellVisible \in [Toplevels -> BOOLEAN] /\ frameDue \in BOOLEAN
  BY DEF CallbackInv, CallbackTypeOK, Messages
<1>3. /\ toShell' \in Seq(Messages) /\ x \in Messages /\ x = toShell[1] /\ 1 \in 1..Len(toShell)
      /\ Len(toShell') = Len(toShell) - 1 /\ Len(toShell) \in Nat
      /\ \A i \in 1..Len(toShell') : toShell'[i] = toShell[i + 1]
      /\ DOMAIN toShell = 1..Len(toShell) /\ DOMAIN toShell' = 1..Len(toShell')
  BY <1>1, <1>2, HeadTailProperties
<1>4. \A i \in 1..Len(toShell) : i # 1 => i - 1 \in 1..Len(toShell') /\ toShell'[i - 1] = toShell[i]
  BY <1>3
<1>5. /\ ToSet(toShell') \subseteq ToSet(toShell)
      /\ \A y \in ToSet(toShell) : y # x => y \in ToSet(toShell')
  <2>1. ASSUME NEW y \in ToSet(toShell') PROVE y \in ToSet(toShell)
    <3>1. PICK i \in 1..Len(toShell') : toShell'[i] = y
      BY <1>3, <2>1 DEF ToSet
    <3>2. i + 1 \in 1..Len(toShell) /\ toShell[i + 1] = y
      BY <1>3, <3>1
    <3> QED
      BY <1>3, <3>2 DEF ToSet
  <2>2. ASSUME NEW y \in ToSet(toShell), y # x PROVE y \in ToSet(toShell')
    <3>1. PICK i \in 1..Len(toShell) : toShell[i] = y
      BY <1>3, <2>2 DEF ToSet
    <3>2. i - 1 \in 1..Len(toShell') /\ toShell'[i - 1] = y
      BY <1>3, <1>4, <2>2, <3>1
    <3> QED
      BY <1>3, <3>2 DEF ToSet
  <2> QED
    BY <2>1, <2>2
<1>6. \/ x = Draw /\ x.kind = "draw"
      \/ /\ x.kind = "state" /\ x.view \in Toplevels /\ x.visible \in BOOLEAN
         /\ x = State(x.view, x.visible)
  BY <1>3, MessagesAre
<1> HIDE DEF x
<1>7. shellVisible' \in [Toplevels -> BOOLEAN] /\ frameDue' \in BOOLEAN
  BY <1>1, <1>2, <1>6
<1>8. CallbackTypeOK'
  BY <1>1, <1>3, <1>7 DEF CallbackInv, CallbackTypeOK, Messages
<1>9. MappedIsAlive'
  BY <1>1 DEF CallbackInv, MappedIsAlive
<1>10. \A v \in Toplevels : /\ x = State(v, TRUE) => shellVisible'[v] = TRUE
                            /\ x = State(v, FALSE) => shellVisible'[v] = FALSE
                            /\ x # State(v, TRUE) /\ x # State(v, FALSE) => shellVisible'[v] = shellVisible[v]
  <2> SUFFICES ASSUME NEW v \in Toplevels
               PROVE  /\ x = State(v, TRUE) => shellVisible'[v] = TRUE
                      /\ x = State(v, FALSE) => shellVisible'[v] = FALSE
                      /\ x # State(v, TRUE) /\ x # State(v, FALSE) => shellVisible'[v] = shellVisible[v]
    OBVIOUS
  <2>1. CASE x = Draw /\ x.kind = "draw"
    BY <1>1, <2>1, MessagesAre
  <2>2. CASE /\ x.kind = "state" /\ x.view \in Toplevels /\ x.visible \in BOOLEAN
             /\ x = State(x.view, x.visible)
    <3>1. \A b \in BOOLEAN : x = State(v, b) <=> x.view = v /\ x.visible = b
      BY <2>2, MessagesAre
    <3>2. shellVisible' = [shellVisible EXCEPT ![x.view] = x.visible]
      BY <1>1, <2>2
    <3> QED
      BY <1>2, <2>2, <3>1, <3>2
  <2> QED
    BY <1>6, <2>1, <2>2
<1>11. HiddenIsTold'
  <2> SUFFICES ASSUME NEW v \in Toplevels, ~visible[v] PROVE Told(toShell, v)'
    BY <1>1 DEF HiddenIsTold
  <2>1. Told(toShell, v)
    BY DEF CallbackInv, HiddenIsTold
  <2>2. CASE ~shellVisible[v] /\ State(v, TRUE) \notin ToSet(toShell)
    <3>1. x # State(v, TRUE)
      BY <1>3, <2>2 DEF ToSet
    <3> QED
      BY <1>5, <1>10, <2>2, <3>1 DEF Told
  <2>3. CASE \E i \in 1..Len(toShell) :
               /\ toShell[i] = State(v, FALSE)
               /\ \A j \in 1..Len(toShell) : j > i => toShell[j] # State(v, TRUE)
    <3>1. PICK i \in 1..Len(toShell) :
               /\ toShell[i] = State(v, FALSE)
               /\ \A j \in 1..Len(toShell) : j > i => toShell[j] # State(v, TRUE)
      BY <2>3
    <3>2. CASE i = 1
      <4>1. shellVisible'[v] = FALSE
        BY <1>3, <1>10, <3>1, <3>2
      <4>2. ASSUME NEW k \in 1..Len(toShell') PROVE toShell'[k] # State(v, TRUE)
        <5>1. k + 1 \in 1..Len(toShell) /\ k + 1 > i /\ toShell'[k] = toShell[k + 1]
          BY <1>3, <3>2
        <5> QED
          BY <3>1, <5>1
      <4>3. State(v, TRUE) \notin ToSet(toShell')
        BY <1>3, <4>2 DEF ToSet
      <4> QED
        BY <4>1, <4>3 DEF Told
    <3>3. CASE i # 1
      <4>1. i - 1 \in 1..Len(toShell') /\ toShell'[i - 1] = State(v, FALSE)
        BY <1>4, <3>1, <3>3
      <4>2. ASSUME NEW k \in 1..Len(toShell'), k > i - 1 PROVE toShell'[k] # State(v, TRUE)
        <5>1. k + 1 \in 1..Len(toShell) /\ toShell'[k] = toShell[k + 1]
          BY <1>3
        <5>2. k + 1 > i
          BY <1>3, <4>2
        <5> QED
          BY <3>1, <5>1, <5>2
      <4> QED
        BY <4>1, <4>2 DEF Told
    <3> QED
      BY <3>2, <3>3
  <2> QED
    BY <2>1, <2>2, <2>3 DEF Told
<1>12. OwedAnswerIsComing'
  <2> SUFFICES ASSUME NEW w \in awaiting' \ lost', Served(w)'
               PROVE  \/ \E o \in repaint' : NotifiedOn(w, o)'
                      \/ \E n \in fenced' : n.view = w
                      \/ frameDue'
                      \/ Returning(w)'
    BY <1>8, OwedToEach
  <2>1. w \in Toplevels /\ w \in awaiting \ lost
    BY <1>1, <1>8 DEF CallbackTypeOK
  <2>2. \A o : NotifiedOn(w, o)' <=> NotifiedOn(w, o)
    BY <1>1 DEF NotifiedOn, IntersectsOutput, Intersect
  <2>3. Served(w)
    BY <1>1, <2>2 DEF Served
  <2>4. frameDue => frameDue'
    BY <1>1
  <2>5. Returning(w) => frameDue' \/ Returning(w)'
    <3>1. CASE x = State(w, FALSE)
      BY <1>10, <2>1, <3>1 DEF Returning
    <3>2. CASE x = State(w, TRUE)
      <4>1. x.kind = "state" /\ x.view = w /\ x.visible = TRUE
        BY <3>2 DEF State
      <4>2. ~shellVisible[w] => frameDue'
        BY <1>1, <1>2, <2>1, <4>1
      <4>3. x # State(w, FALSE)
        BY <2>1, <3>2, MessagesAre
      <4> QED
        BY <1>5, <4>2, <4>3 DEF Returning
    <3>3. CASE x # State(w, FALSE) /\ x # State(w, TRUE)
      BY <1>5, <1>10, <2>1, <3>3 DEF Returning
    <3> QED
      BY <3>1, <3>2, <3>3
  <2> QED
    BY <1>1, <2>1, <2>2, <2>3, <2>4, <2>5 DEF CallbackInv, OwedAnswerIsComing, Returning
<1> QED
  BY <1>8, <1>9, <1>11, <1>12 DEF CallbackInv

(* Steps after which a frame of the shell or of every lit output is to come.    *)
LEMMA ScheduledInv ==
  ASSUME CallbackInv,
         \/ \E v \in Toplevels, p \in Places : PlaceWindow(v, p)
         \/ \E l \in SUBSET Outputs : Reconcile(l)
         \/ PresentComposition
  PROVE  CallbackInv'
<1>1. /\ UNCHANGED <<window, mapped, visible, awaiting, fenced, lost, toShell, shellVisible, committed>>
      /\ frameDue' = TRUE \/ repaint' = lit'
  BY DEF PlaceWindow, Reconcile, PresentComposition, windows, pending, display, shell
<1>2. CallbackTypeOK'
  <2>1. geometry' \in [Toplevels -> Places \cup {Unknown}]
    BY DEF CallbackInv, CallbackTypeOK, PlaceWindow, Reconcile, PresentComposition, windows
  <2>2. frameDue' \in BOOLEAN /\ lit' \subseteq Outputs /\ repaint' \subseteq lit'
    <3>1. CASE \E v \in Toplevels, p \in Places : PlaceWindow(v, p)
      BY <3>1 DEF CallbackInv, CallbackTypeOK, PlaceWindow, display
    <3>2. CASE \E l \in SUBSET Outputs : Reconcile(l)
      BY <3>2 DEF CallbackInv, CallbackTypeOK, Reconcile, shell
    <3>3. CASE PresentComposition
      <4>1. frameDue' \in BOOLEAN
        BY <3>3 DEF PresentComposition
      <4>2. repaint' = lit /\ lit' = lit
        BY <3>3 DEF PresentComposition
      <4>3. lit' \subseteq Outputs /\ repaint' \subseteq lit'
        BY <4>2 DEF CallbackInv, CallbackTypeOK
      <4> QED
        BY <4>1, <4>3
    <3> QED
      BY <3>1, <3>2, <3>3
  <2>3. calls' \in 0..MaxCalls
    BY CallbackAssumption DEF CallbackInv, CallbackTypeOK, PlaceWindow, Reconcile, PresentComposition, Called
  <2> QED
    BY <1>1, <2>1, <2>2, <2>3 DEF CallbackInv, CallbackTypeOK
<1>3. MappedIsAlive' /\ HiddenIsTold'
  BY <1>1 DEF CallbackInv, MappedIsAlive, HiddenIsTold, Told
<1>4. OwedAnswerIsComing'
  BY <1>1, <1>2, AllScheduled, OwedToEach DEF CallbackTypeOK
<1> QED
  BY <1>2, <1>3, <1>4 DEF CallbackInv

LEMMA CallbackStepInv == ASSUME CallbackInv, [CallbackNext]_callbackVars PROVE CallbackInv'
<1>1. ASSUME NEW v \in Toplevels, CreateToplevel(v) PROVE CallbackInv'
  <2>1. /\ window[v] = "none" /\ window' = [window EXCEPT ![v] = "alive"]
        /\ UNCHANGED <<mapped, visible, geometry, awaiting, fenced, lost, lit, repaint, toShell,
                       shellVisible, frameDue, committed, calls>>
    BY <1>1 DEF CreateToplevel, pending, display, shell
  <2>2. window \in [Toplevels -> {"none", "alive", "gone"}] /\ ~mapped[v]
    BY <2>1 DEF CallbackInv, CallbackTypeOK, MappedIsAlive
  <2>3. CallbackTypeOK'
    BY <2>1, <2>2 DEF CallbackInv, CallbackTypeOK
  <2>4. MappedIsAlive' /\ HiddenIsTold'
    BY <2>1, <2>2 DEF CallbackInv, MappedIsAlive, HiddenIsTold, Told
  <2>5. OwedAnswerIsComing'
    <3> SUFFICES ASSUME NEW w \in awaiting' \ lost', Served(w)'
                 PROVE  \/ \E o \in repaint' : NotifiedOn(w, o)'
                        \/ \E n \in fenced' : n.view = w
                        \/ frameDue'
                        \/ Returning(w)'
      BY <2>3, OwedToEach
    <3>1. w \in Toplevels /\ w \in awaiting \ lost /\ mapped[w]
      BY <2>1, <2>3 DEF CallbackTypeOK, Served, NotifiedOn
    <3>2. w # v
      BY <2>2, <3>1
    <3> QED
      BY <2>1, <2>2, <3>1, <3>2, StillComing
  <2> QED
    BY <2>3, <2>4, <2>5 DEF CallbackInv
<1>2. CASE UNCHANGED callbackVars
  <2>1. CallbackTypeOK'
    BY <1>2 DEF CallbackInv, CallbackTypeOK, callbackVars, windows, pending, display, shell
  <2>3. MappedIsAlive' /\ HiddenIsTold'
    BY <1>2 DEF CallbackInv, MappedIsAlive, HiddenIsTold, Told, callbackVars, windows, shell
  <2>2. OwedAnswerIsComing'
    BY <1>2 DEF CallbackInv, OwedAnswerIsComing, Served, NotifiedOn, IntersectsOutput, Intersect,
                callbackVars, windows, pending, display, shell
  <2> QED
    BY <2>1, <2>2, <2>3 DEF CallbackInv
<1>3. ASSUME NEW v \in Toplevels, RequestMinimize(v) PROVE CallbackInv'
  BY <1>3, ChangeVisibilityInv DEF RequestMinimize
<1> QED
  BY <1>1, <1>2, <1>3, CommitWithoutBufferInv, CommitWithBufferInv, FenceSignalsInv, FenceLostInv,
     DestroyToplevelInv, ChangeVisibilityInv, NotifyOnFrameInv, RunMessageInv, ScheduledInv
     DEF CallbackNext

LEMMA CallbackInvariance == CallbackSpec => []CallbackInv
  BY CallbackInitInv, CallbackStepInv, PTL DEF CallbackSpec

(* Every variable of the frame callbacks keeps its type, and outputs that are    *)
(* off are not scheduled.                                                        *)
THEOREM CallbacksTyped == CallbackSpec => []CallbackTypeOK
<1>1. CallbackInv => CallbackTypeOK
  BY DEF CallbackInv
<1> QED
  BY <1>1, CallbackInvariance, PTL

(* A client that waits and could be answered has an answer on its way, for any   *)
(* windows, outputs, layouts and calls of the shell.                             *)
THEOREM AnswersAreComing == CallbackSpec => []OwedAnswerIsComing
<1>1. CallbackInv => OwedAnswerIsComing
  BY DEF CallbackInv
<1> QED
  BY <1>1, CallbackInvariance, PTL
=============================================================================
