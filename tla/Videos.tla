------------------------------- MODULE Videos -------------------------------
(***************************************************************************)
(* VideoService, with the services it reaches Bunny by: the videos, their  *)
(* objects at Bunny, and how far one student has watched each. Bunny's     *)
(* webhooks come in any order and more than once; a call to Bunny may fail *)
(* before or after it was done. Titles, addresses and the counts of views  *)
(* are left out: an operation on those still saves the row it has read.    *)
(***************************************************************************)
EXTENDS Requests

CONSTANTS
    Video, Object,     \* ids of videos, and of what Bunny keeps
    Positions,         \* where a student may be, in seconds
    Lengths,           \* VideoLength in a webhook, 0 for none
    BunnyAttempts      \* BUNNY_HTTP_MAX_RETRIES + 1

ASSUME VideosAssumption ==
    /\ Positions \subseteq Nat /\ Lengths \subseteq Nat /\ BunnyAttempts \in Nat \ {0}
    /\ Video # {} /\ Object # {} /\ Null \notin Video \cup Object

VARIABLES
    video,      \* videos
    watch,      \* video_watch_progress of the student
    objects,    \* external: the objects at Bunny
    used,       \* external: the objects Bunny has ever made
    resources,  \* the objects with a video_resources row
    viewer,     \* the requests in progress
    mislaid,    \* history: objects whose making was not answered, or that were not noted
    lost,       \* history: videos saved, or left, as they were while their object was removed
    rewound     \* history: videos whose progress was saved over a change

videos == <<video, watch, objects, used, resources, viewer, mislaid, lost, rewound>>

VideoRow == [status : {"pending", "processing", "ready", "failed", "deleted"}, object : Object, durationSeconds : Nat]
WatchRow == [lastPositionSeconds : Nat, isCompleted : BOOLEAN]

ASSUME VideosNullAssumption == Null \notin VideoRow \cup WatchRow

\* keeps: the request makes a row for the object.
Viewing == [pc : {"idle", "unified", "legacy", "resourceInsert", "videoInsert", "playCheck", "videoSave",
                  "objectRemove", "hookInfo", "watchFind", "watchSave"},
            keeps : BOOLEAN, attempt : 1..BunnyAttempts, object : {Null} \cup Object, video : {Null} \cup Video,
            row : {Null} \cup VideoRow, removing : BOOLEAN, position : Nat, total : BOOLEAN,
            before : {Null} \cup WatchRow, after : {Null} \cup WatchRow]
NoViewing == [pc |-> "idle", keeps |-> FALSE, attempt |-> 1, object |-> Null, video |-> Null, row |-> Null, removing |-> FALSE,
              position |-> 0, total |-> FALSE, before |-> Null, after |-> Null]

\* One video, ready, of one of the lengths; or, until the part is begun, none.
VideosInit(begun) ==
    LET first == CHOOSE v \in Video : TRUE
        its == CHOOSE o \in Object : TRUE
    IN  /\ \E length \in Lengths :
              video = [v \in Video |-> IF begun /\ v = first
                                       THEN [status |-> "ready", object |-> its, durationSeconds |-> length] ELSE Null]
        /\ objects = (IF begun THEN {its} ELSE {}) /\ used = objects
        /\ watch = [v \in Video |-> Null]
        /\ resources = {} /\ mislaid = {} /\ lost = {} /\ rewound = {}
        /\ viewer = [p \in Proc |-> NoViewing]

VideosTypes ==
    /\ video \in [Video -> {Null} \cup VideoRow]
    /\ watch \in [Video -> {Null} \cup WatchRow]
    /\ objects \subseteq used /\ resources \subseteq used /\ mislaid \subseteq used /\ used \subseteq Object
    /\ viewer \in [Proc -> Viewing]
    /\ lost \subseteq Video /\ rewound \subseteq Video

ViewerBegin(p, memo) == viewer[p].pc = "idle" /\ viewer' = [viewer EXCEPT ![p] = memo]
ViewerTo(p, step) == viewer' = [viewer EXCEPT ![p].pc = step]
ViewerEnd(p) == viewer' = [viewer EXCEPT ![p] = NoViewing]

(***************************************************************************)
(* Making a video                                                          *)
(***************************************************************************)
\* createVideoWithFallback(), for create() or for a lesson's upload, of which the client
\* keeps the id: which service is tried first is the rollout's choice.
VideoCreate(p) ==
    /\ \E service \in {"unified", "legacy"}, keeps \in BOOLEAN :
          ViewerBegin(p, [NoViewing EXCEPT !.pc = service, !.keeps = keeps])
    /\ UNCHANGED <<video, watch, objects, used, resources, mislaid, lost, rewound>>

\* getUploadCredentials(): for a video whose object is gone the unified service makes a new
\* one, which no row names.
CredentialsFind(p) ==
    /\ \E v \in Video :
          /\ video[v] # Null /\ video[v].object \notin objects
          /\ ViewerBegin(p, [NoViewing EXCEPT !.pc = "unified", !.video = v])
    /\ UNCHANGED <<video, watch, objects, used, resources, mislaid, lost, rewound>>

\* Bunny makes an object, and answers or does not.
Produced(o) == o \notin used /\ objects' = objects \cup {o} /\ used' = used \cup {o}

\* requestWithRetry(): an attempt that was not answered, or answered 429 or 5xx, is made
\* again; after the last, a refusal, or an answer without an id, the legacy service makes the
\* video, unless it has one.
UnifiedPost(p) ==
    LET refused == IF viewer[p].video = Null THEN viewer' = [viewer EXCEPT ![p].pc = "legacy", ![p].attempt = 1]
                   ELSE ViewerEnd(p)
        next == IF viewer[p].attempt < BunnyAttempts THEN viewer' = [viewer EXCEPT ![p].attempt = @ + 1]
                ELSE refused
    IN  /\ viewer[p].pc = "unified"
        /\ \/ \E o \in Object :
                /\ Produced(o)
                /\ \/ /\ viewer[p].keeps
                      /\ viewer' = [viewer EXCEPT ![p].pc = "videoInsert", ![p].object = o]
                      /\ UNCHANGED mislaid
                   \/ /\ next \/ refused \/ (~viewer[p].keeps /\ ViewerEnd(p))
                      /\ mislaid' = mislaid \cup {o}
           \/ (next \/ refused) /\ UNCHANGED <<objects, used, mislaid>>
        /\ UNCHANGED <<video, watch, resources, made, lost, rewound>>

\* The legacy createVideo(): one attempt.
LegacyPost(p) ==
    /\ viewer[p].pc = "legacy"
    /\ \E o \in Object :
          /\ Produced(o)
          /\ \/ viewer' = [viewer EXCEPT ![p].pc = "resourceInsert", ![p].object = o] /\ UNCHANGED mislaid
             \/ ViewerEnd(p) /\ mislaid' = mislaid \cup {o}
    /\ UNCHANGED <<video, watch, resources, made, lost, rewound>>

\* ... which notes it as a lesson's video as well.
ResourceInsert(p) ==
    /\ viewer[p].pc = "resourceInsert"
    /\ resources' = resources \cup {viewer[p].object}
    /\ IF viewer[p].keeps THEN ViewerTo(p, "videoInsert") ELSE ViewerEnd(p)
    /\ UNCHANGED <<video, watch, objects, used, made, mislaid, lost, rewound>>

VideoInsert(p) ==
    /\ viewer[p].pc = "videoInsert"
    /\ \E v \in Video :
          /\ video[v] = Null
          /\ video' = [video EXCEPT ![v] = [status |-> "pending", object |-> viewer[p].object, durationSeconds |-> 0]]
    /\ ViewerEnd(p)
    /\ UNCHANGED <<watch, objects, used, resources, made, mislaid, lost, rewound>>

(***************************************************************************)
(* A video                                                                 *)
(***************************************************************************)
\* update() and delete() of any video there has been, and getSignedPlaybackUrl(): 'Video is
\* not available for playback' unless it is ready.
VideoFind(p) ==
    /\ \E v \in Video :
          LET found(step) == [NoViewing EXCEPT !.pc = step, !.video = v, !.row = video[v]] IN
          /\ video[v] # Null
          /\ \/ ViewerBegin(p, found("videoSave"))
             \/ ViewerBegin(p, found("objectRemove"))
             \/ video[v].status = "ready" /\ ViewerBegin(p, found("playCheck"))
    /\ UNCHANGED <<video, watch, objects, used, resources, mislaid, lost, rewound>>

\* 'Subscription required to watch this video', or a view more.
PlayCheck(p) ==
    /\ viewer[p].pc = "playCheck"
    /\ ViewerEnd(p) \/ ViewerTo(p, "videoSave")
    /\ UNCHANGED <<video, watch, objects, used, resources, made, mislaid, lost, rewound>>

\* Mutant: the row keeps its status.
ObjectRemove_StatusKept(p) ==
    LET o == viewer[p].row.object IN
    /\ viewer[p].pc = "objectRemove"
    /\ o \in objects
    /\ objects' = objects \ {o}
    /\ \/ /\ viewer' = [viewer EXCEPT ![p].pc = "videoSave", ![p].removing = TRUE]
          /\ UNCHANGED lost
       \/ ViewerEnd(p) /\ lost' = lost \cup {viewer[p].video}
    /\ UNCHANGED <<video, watch, used, resources, made, mislaid, rewound>>

\* delete(): first the object, and then the row is marked. Bunny refuses to remove what is
\* gone, and the answer may be lost.
ObjectRemove(p) ==
    LET o == viewer[p].row.object IN
    /\ viewer[p].pc = "objectRemove"
    /\ o \in objects
    /\ objects' = objects \ {o}
    /\ \/ /\ viewer' = [viewer EXCEPT ![p].pc = "videoSave", ![p].removing = TRUE, ![p].row.status = "deleted"]
          /\ UNCHANGED lost
       \/ ViewerEnd(p) /\ lost' = lost \cup {viewer[p].video}
    /\ UNCHANGED <<video, watch, used, resources, made, mislaid, rewound>>

\* The whole row, whatever has happened to it, and to its object, since it was read.
VideoSave(p) ==
    LET v == viewer[p].video IN
    /\ viewer[p].pc = "videoSave"
    /\ video' = [video EXCEPT ![v] = viewer[p].row]
    /\ lost' = IF viewer[p].removing THEN lost \ {v}
               ELSE IF viewer[p].row.object \notin objects THEN lost \cup {v} ELSE lost
    /\ ViewerEnd(p)
    /\ UNCHANGED <<watch, objects, used, resources, made, mislaid, rewound>>

\* handleBunnyWebhook(): by any status, also for a video that was deleted.
StatusOf(code, status) ==
    CASE code = 4 -> "ready" [] code \in {5, 6} -> "failed" [] code \in 1..3 -> "processing" [] OTHER -> status

VideoHook(p) ==
    /\ \E v \in Video, code \in 0..6, length \in Lengths :
          /\ video[v] # Null
          /\ ViewerBegin(p, [NoViewing EXCEPT
                !.pc = "hookInfo", !.video = v,
                !.row = [video[v] EXCEPT !.status = StatusOf(code, @),
                                         !.durationSeconds = IF length > 0 THEN length ELSE @]])
    /\ UNCHANGED <<video, watch, objects, used, resources, mislaid, lost, rewound>>

\* getVideoInfo(): an object that is gone is no error.
HookInfo(p) ==
    /\ viewer[p].pc = "hookInfo"
    /\ ViewerTo(p, "videoSave")
    /\ UNCHANGED <<video, watch, objects, used, resources, made, mislaid, lost, rewound>>

(***************************************************************************)
(* Watching                                                                *)
(***************************************************************************)
\* updateProgress(): the video, ...
WatchBegin(p) ==
    /\ \E v \in Video, position \in Positions, total \in BOOLEAN :
          /\ video[v] # Null
          /\ ViewerBegin(p, [NoViewing EXCEPT !.pc = "watchFind", !.video = v, !.row = video[v],
                                              !.position = position, !.total = total])
    /\ UNCHANGED <<video, watch, objects, used, resources, mislaid, lost, rewound>>

\* Mutant: completion follows the position.
Watched_Recomputed(before, position, length) ==
    [lastPositionSeconds |-> position, isCompleted |-> length > 0 /\ position * 100 >= 90 * length]

\* ... what the student has watched, completed once and for all at 90 percent; ...
Watched(before, position, length) ==
    [lastPositionSeconds |-> position,
     isCompleted |-> (before # Null /\ before.isCompleted) \/ (length > 0 /\ position * 100 >= 90 * length)]

WatchFind(p) ==
    LET memo == viewer[p] IN
    /\ memo.pc = "watchFind"
    /\ viewer' = [viewer EXCEPT ![p].pc = "watchSave", ![p].before = watch[memo.video],
                                ![p].after = Watched(watch[memo.video], memo.position, memo.row.durationSeconds)]
    /\ UNCHANGED <<video, watch, objects, used, resources, made, mislaid, lost, rewound>>

\* ... the row: a second one is refused, and so is a first one with a time in all, because
\* that is compared with a column which has no value yet.
WatchSave(p) ==
    LET memo == viewer[p]
        v == memo.video
    IN  /\ memo.pc = "watchSave"
        /\ IF memo.before = Null /\ (watch[v] # Null \/ memo.total) THEN UNCHANGED <<watch, rewound>>
           ELSE /\ watch' = [watch EXCEPT ![v] = memo.after]
                /\ rewound' = IF watch[v] = memo.before THEN rewound ELSE rewound \cup {v}
        /\ ViewerEnd(p)
        /\ UNCHANGED <<video, objects, used, resources, made, mislaid, lost>>

\* A call fails, or the process stops.
ViewerHalt(p) ==
    /\ viewer[p].pc # "idle"
    /\ mislaid' = IF viewer[p].object # Null /\ viewer[p].object \notin resources
                  THEN mislaid \cup {viewer[p].object} ELSE mislaid
    /\ lost' = IF viewer[p].removing THEN lost \cup {viewer[p].video} ELSE lost
    /\ ViewerEnd(p)
    /\ UNCHANGED <<video, watch, objects, used, resources, made, rewound>>

(***************************************************************************)
(* The service                                                             *)
(***************************************************************************)
ViewerContinue(p) ==
    \/ UnifiedPost(p) \/ LegacyPost(p) \/ ResourceInsert(p) \/ VideoInsert(p)
    \/ PlayCheck(p) \/ ObjectRemove(p) \/ VideoSave(p) \/ HookInfo(p)
    \/ WatchFind(p) \/ WatchSave(p) \/ ViewerHalt(p)

\* The routes of VideoController, and the upload of ContentController.
ViewerServe(p) == (VideoCreate(p) \/ CredentialsFind(p) \/ VideoFind(p) \/ VideoHook(p) \/ WatchBegin(p)) /\ Request

VideosNext == \E p \in Proc : ViewerServe(p) \/ ViewerContinue(p)

Removing(v) == \E p \in Proc : viewer[p].removing /\ viewer[p].video = v
Named(o) == o \in resources \/ \E v \in Video : video[v] # Null /\ video[v].object = o

\* 'Delete from Bunny.net', 'Mark as deleted' (delete): a video that can be played has its
\* object at Bunny, but while it is being removed, or where the removal stopped half way or
\* another request saved the row it had read; and Bunny keeps no object without a row, but
\* for those in the making, those whose making was not answered or not noted, and those
\* only a client has the id of.
BunnyMatches ==
    /\ \A v \in Video : video[v] # Null /\ video[v].status = "ready" /\ video[v].object \notin objects
                           => v \in lost \/ Removing(v)
    /\ \A o \in objects : Named(o) \/ o \in mislaid \/ \E p \in Proc : viewer[p].object = o

\* 'Mark as completed' (updateProgress): a video watched to the end once stays so, unless a
\* report was saved over another.
WatchStands ==
    [][\A v \in Video : watch[v] # Null /\ watch[v].isCompleted /\ v \notin rewound'
          => watch'[v] # Null /\ watch'[v].isCompleted]_videos
=============================================================================
