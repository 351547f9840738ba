--------------------------- MODULE SurfaceCommit ---------------------------
(***************************************************************************)
(* From a client's commit to the picture on the screen: the commit handler  *)
(* and commit_surface on the Wayland thread (zenith_surface.cpp), the       *)
(* registry of client images that the raster thread samples under a mutex   *)
(* (ExternalTextureRegistry), and the messages that reach Flutter through   *)
(* the platform thread's queue (EmbedderState).                             *)
(*                                                                          *)
(* An image is the number of the application that published it: 1, 2, ...   *)
(* for each view.  What a commit says about geometry, role, subsurfaces,    *)
(* title and the like travels in one message and is not told apart here.    *)
(* Every client buffer has a texture (the renderer is GLES2), so a commit   *)
(* with pixels always publishes.  Who frees an image is Shutdown.tla's;     *)
(* the frames that are scheduled on the way, and the clients they answer,   *)
(* are FrameCallbacks.tla's.                                                *)
(***************************************************************************)
EXTENDS Integers, Sequences, SequencesExt, FiniteSets

CONSTANTS
  Views,       \* view ids; one is never used again
  Serialized,  \* gl_context_serialization_enabled, set once when the compositor starts
  MaxCommits   \* bound: commits of one surface

ASSUME BoundAssumption == MaxCommits \in Nat /\ Serialized \in BOOLEAN

VARIABLES
  surface,     \* "none", "alive", "destroyed"
  attached,    \* the surface has a current buffer
  commits,     \* commits of each surface that had a buffer
  waiting,     \* pending_surface_commits: messages behind their fences
  chains,      \* surface_buffer_chains
  images,      \* images published for each view
  announcing,  \* the texture commit the Wayland thread is in the middle of
  frames,      \* external_textures: the image and the `acquired` flag
  platform,    \* EmbedderState::callable_queue
  laidOut,     \* the image that went with the last commit each view's widget got
  registered,  \* Flutter: textures
  painted,     \* Flutter: the image it keeps for each view, None when invalidated
  sampled,     \* Flutter: views it ever got an image of
  drawing      \* Flutter: a frame is requested

client  == <<surface, attached, commits>>
server  == <<waiting, chains, images, announcing>>
flutter == <<laidOut, registered, painted, sampled, drawing>>
vars    == <<client, server, frames, platform, flutter>>

None == 0
Commits == [view : Views, changed : BOOLEAN, callback : BOOLEAN, number : 1..MaxCommits]
NoFrame == [image |-> None, acquired |-> FALSE]

Task(kind, view, image) == [kind |-> kind, view |-> view, image |-> image]

Init ==
  /\ surface = [v \in Views |-> "none"] /\ attached = [v \in Views |-> FALSE]
  /\ commits = [v \in Views |-> 0] /\ images = [v \in Views |-> 0]
  /\ waiting = {} /\ chains = {} /\ announcing = {}
  /\ frames = [v \in Views |-> NoFrame]
  /\ platform = <<>>
  /\ laidOut = [v \in Views |-> None] /\ painted = [v \in Views |-> None]
  /\ registered = {} /\ sampled = {} /\ drawing = FALSE

-----------------------------------------------------------------------------
(* The Wayland thread *)

Idle == announcing = {}   \* no handler is in the middle of commit_surface

Create(v) ==
  /\ Idle /\ surface[v] = "none"
  /\ surface' = [surface EXCEPT ![v] = "alive"]
  /\ UNCHANGED <<attached, commits, server, frames, platform, flutter>>

(* surface_commit_updates_texture: `bits` are the parts of the state the      *)
(* commit changed.                                                           *)
UpdatesTexture(bits) == bits \cap {"buffer", "surface damage", "buffer damage"} # {}

(* commit_surface, no new pixels: the message, and for a frame callback a     *)
(* frame of Flutter.                                                         *)
CommitMetadata(m) ==
  /\ platform' = platform \o <<Task("commit", m.view, images[m.view])>>
                   \o (IF m.callback THEN <<Task("frame", m.view, None)>> ELSE <<>>)
  /\ UNCHANGED <<chains, images, announcing, frames>>

Published(v) == [frames EXCEPT ![v].image = images[v] + 1]

(* commit_surface, new pixels: the chain and its texture, if they are missing, *)
(* and the registry, which the raster thread reads at any time ...           *)
PublishImage(m) ==
  /\ platform' = IF m.view \in chains THEN platform
                 ELSE Append(platform, Task("register", m.view, None))
  /\ chains' = chains \cup {m.view}
  /\ images' = [images EXCEPT ![m.view] = @ + 1]
  /\ frames' = Published(m.view)
  /\ announcing' = {m}

ApplyCommit(m) == IF m.changed THEN PublishImage(m) ELSE CommitMetadata(m)

Unmarked(m) == <<Task("commit", m.view, images[m.view])>>   \* Mutant

Announcement(m) == <<Task("mark", m.view, None), Task("commit", m.view, images[m.view])>>

(* ... and then what Flutter is told of it.                                   *)
Announce ==
  /\ \E m \in announcing : platform' = platform \o Announcement(m)
  /\ announcing' = {}
  /\ UNCHANGED <<client, waiting, chains, images, frames, flutter>>

(* zenith_surface_commit without a buffer: the handler returns.               *)
CommitNothing(v) ==
  /\ Idle /\ surface[v] = "alive" /\ attached[v]
  /\ attached' = [attached EXCEPT ![v] = FALSE]
  /\ UNCHANGED <<surface, commits, server, frames, platform, flutter>>

(* Buffers that may come with a fence: a dma-buf with its exported sync file or *)
(* the dma-buf itself, any other with a native fence of the GL context.        *)
MayWait(dmabuf) == dmabuf \/ ~Serialized

(* zenith_surface_commit.  There is no fence, or one that is watched, or one    *)
(* that cannot be watched: that commit is lost.                               *)
CommitBuffer(v) ==
  /\ Idle /\ surface[v] = "alive" /\ commits[v] < MaxCommits
  /\ \E bits \in {{"buffer"}, {"surface damage"}, {"opaque region"}}, callback \in BOOLEAN :
       LET m == [view |-> v, changed |-> UpdatesTexture(bits), callback |-> callback,
                 number |-> commits[v] + 1]
       IN /\ attached[v] \/ "buffer" \in bits
          /\ \/ /\ ApplyCommit(m)
                /\ UNCHANGED waiting
             \/ /\ \E dmabuf \in BOOLEAN : MayWait(dmabuf)
                /\ waiting' \in {waiting \cup {m}, waiting}
                /\ UNCHANGED <<chains, images, announcing, frames, platform>>
  /\ attached' = [attached EXCEPT ![v] = TRUE]
  /\ commits' = [commits EXCEPT ![v] = @ + 1]
  /\ UNCHANGED <<surface, flutter>>

(* The event source of a fence: readable, or hung up.                         *)
FenceReadable(m) ==
  /\ Idle /\ m \in waiting
  /\ waiting' = waiting \ {m}
  /\ IF surface[m.view] = "alive" THEN ApplyCommit(m)
     ELSE UNCHANGED <<chains, images, announcing, frames, platform>>
  /\ UNCHANGED <<client, flutter>>

FenceFails(m) ==
  /\ Idle /\ m \in waiting
  /\ waiting' = waiting \ {m}
  /\ UNCHANGED <<client, chains, images, announcing, frames, platform, flutter>>

(* ExternalTextureRegistry::surface_destroyed *)
SurfaceDestroyedAll(v) == [frames EXCEPT ![v] = NoFrame]   \* Mutant: acquired or not

SurfaceDestroyed(v) ==
  IF frames[v].acquired THEN frames ELSE [frames EXCEPT ![v] = NoFrame]

Destroy(v) ==
  /\ Idle /\ surface[v] = "alive"
  /\ surface' = [surface EXCEPT ![v] = "destroyed"]
  /\ chains' = chains \ {v}
  /\ waiting' = {m \in waiting : m.view # v}
  /\ frames' = SurfaceDestroyed(v)
  /\ UNCHANGED <<attached, commits, images, announcing, platform, flutter>>

-----------------------------------------------------------------------------
(* The platform thread runs the queue; Flutter's widgets and raster thread     *)

RunTask ==
  /\ platform # <<>> /\ platform' = Tail(platform)
  /\ LET task == Head(platform)
         v == task.view
     IN /\ registered' = IF task.kind = "register" THEN registered \cup {v} ELSE registered
        /\ painted' = IF task.kind = "mark" THEN [painted EXCEPT ![v] = None] ELSE painted
        /\ laidOut' = IF task.kind = "commit" THEN [laidOut EXCEPT ![v] = task.image] ELSE laidOut
        /\ drawing' \in CASE task.kind \in {"mark", "frame"} -> {TRUE}
                         [] task.kind = "commit" -> {drawing, TRUE}  \* if widgets change
                         [] OTHER -> {drawing}
  /\ UNCHANGED <<client, server, frames, sampled>>

(* Flutter draws a view whose image it does not have: acquire.                *)
Paintable(v) == v \in registered /\ laidOut[v] # None /\ painted[v] = None /\ frames[v].image # None

Sample(v) ==
  /\ drawing /\ Paintable(v)
  /\ painted' = [painted EXCEPT ![v] = frames[v].image]
  /\ sampled' = sampled \cup {v}
  /\ frames' = [frames EXCEPT ![v].acquired = TRUE]
  /\ UNCHANGED <<client, server, platform, laidOut, registered, drawing>>

(* commit_framebuffer: what was sampled is in a frame.                        *)
PresentFrame ==
  /\ drawing /\ \A v \in Views : ~Paintable(v)
  /\ drawing' = FALSE
  /\ UNCHANGED <<client, server, frames, platform, laidOut, registered, painted, sampled>>

-----------------------------------------------------------------------------
Next ==
  \/ \E v \in Views : Create(v) \/ CommitNothing(v) \/ CommitBuffer(v) \/ Destroy(v) \/ Sample(v)
  \/ \E m \in waiting : FenceReadable(m) \/ FenceFails(m)
  \/ Announce \/ RunTask \/ PresentFrame

Spec == Init /\ [][Next]_vars

-----------------------------------------------------------------------------
(* Properties *)

Tasks == {Task(k, v, None) : k \in {"register", "mark", "frame"}, v \in Views}
           \cup {Task("commit", v, i) : v \in Views, i \in Nat}

TypeOK ==
  /\ surface \in [Views -> {"none", "alive", "destroyed"}] /\ attached \in [Views -> BOOLEAN]
  /\ commits \in [Views -> 0..MaxCommits] /\ images \in [Views -> Nat]
  /\ waiting \subseteq Commits /\ chains \subseteq Views
  /\ announcing \subseteq Commits
  /\ frames \in [Views -> [image : Nat, acquired : BOOLEAN]]
  /\ platform \in Seq(Tasks)
  /\ laidOut \in [Views -> Nat] /\ painted \in [Views -> Nat]
  /\ registered \subseteq Views /\ sampled \subseteq Views
  /\ drawing \in BOOLEAN

\* commit_surface publishes before it queues the message, and the raster thread does
\* not wait for the queue: while a surface lives, the image it can sample is never
\* older than the one the view's last layout came with.
LayoutHasItsImage ==
  \A v \in Views : surface[v] = "alive" => frames[v].image >= laidOut[v]

\* "Keep the same registry frame and Flutter image for callback/metadata commits":
\* Flutter resolves a texture only when told to.  An image it keeps is the newest, or
\* the notice that it is not is on its way.
ChangedImageIsMarked ==
  \A v \in Views :
    painted[v] \notin {None, frames[v].image} =>
      \/ \E m \in announcing : m.view = v
      \/ Task("mark", v, None) \in ToSet(platform)

\* "Retain displayed surfaces for Flutter closing animations.  Cursor surfaces and
\* other surfaces Flutter never sampled must not stay in the registry."  Nor does a
\* commit behind its fence bring a destroyed surface back.
ClosingImageKept ==
  \A v \in Views :
    surface[v] = "destroyed" => /\ frames[v].image # None <=> v \in sampled
                                /\ painted[v] # None => painted[v] <= frames[v].image
=============================================================================
