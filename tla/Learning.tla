------------------------------ MODULE Learning ------------------------------
(***************************************************************************)
(* The learning services side by side: the catalogue, the videos, the      *)
(* students' progress and the notifications. They share no rows and call   *)
(* none of each other's operations, so a behaviour is one of any part,     *)
(* with the other parts at rest.                                           *)
(***************************************************************************)
EXTENDS Catalog, Videos, Progress, Notifications

VARIABLE part  \* the part whose behaviour it is

vars == <<part, made, catalog, videos, reports, notices>>

Init ==
    /\ part \in {"catalog", "videos", "progress", "notifications"}
    /\ RequestsInit
    /\ CatalogInit(part = "catalog")
    /\ VideosInit(part = "videos")
    /\ ProgressInit(part = "progress")
    /\ NotificationsInit

Next ==
    /\ \/ part = "catalog" /\ CatalogNext /\ UNCHANGED <<videos, reports, notices>>
       \/ part = "videos" /\ VideosNext /\ UNCHANGED <<catalog, reports, notices>>
       \/ part = "progress" /\ ProgressNext /\ UNCHANGED <<catalog, videos, notices>>
       \/ part = "notifications" /\ NotificationsNext /\ UNCHANGED <<catalog, videos, reports>>
    /\ UNCHANGED part

Spec == Init /\ [][Next]_vars

\* The rows, the memory of the requests and the history are well typed in every part; a
\* module belongs to a course there is, and a lesson to a module there is.
TypeOK == CatalogTypes /\ VideosTypes /\ ProgressTypes /\ NotificationsTypes

\* What students have reported stands: a video watched to the end once stays so, and so does
\* content that was completed; the time spent and the percentage are those of the reports
\* saved, unless a report was saved over another, or one crossed another or failed.
ReportsStand == WatchStands /\ []ProgressStands /\ ProgressCompletes
=============================================================================
