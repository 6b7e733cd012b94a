------------------------------ MODULE Catalog ------------------------------
(***************************************************************************)
(* ContentService and BunnyNetService: courses, their modules and lessons, *)
(* and the resources with the lessons' videos. A course row keeps how many *)
(* lessons and minutes it has; the operations on lessons refresh it, in    *)
(* steps of their own. Titles, versions and what has been published are    *)
(* left out, and with them programs: those columns decide nothing here,    *)
(* but each operation still writes the whole row it has read.              *)
(*                                                                         *)
(* Each awaited call is an action. A transaction that reads what others    *)
(* can change before it saves (updateCourse()) is several: it sees its own *)
(* rows over what is committed (READ COMMITTED), others see them at its    *)
(* commit, and wait for a row it has written. save() inserts a row that is *)
(* gone again; a foreign key may refuse it.                                *)
(***************************************************************************)
EXTENDS Requests, FiniteSetsExt, SequencesExt

CONSTANTS
    Course, Module, Lesson, Resource,  \* ids
    Plan,     \* curricula a request may bring: sequences of sections
    Minutes,  \* durations an author may give
    Seconds   \* durations a webhook may bring, 0 for none

ASSUME CatalogAssumption ==
    /\ IsFiniteSet(Course) /\ IsFiniteSet(Lesson) /\ Minutes \subseteq Nat /\ Seconds \subseteq Nat
    /\ Null \notin Course \cup Module \cup Lesson \cup Resource

ASSUME PlanAssumption ==
    Plan \subseteq Seq([id : Module, lessons : Seq([id : Lesson, durationMinutes : {Null} \cup Nat,
                                                  video : {Null} \cup Resource])])

VARIABLES
    course,    \* courses
    module,    \* modules: the course of each
    lesson,    \* lessons
    resource,  \* video_resources
    taken,     \* the ids of courses, modules and lessons that have been used
    author,    \* the requests in progress
    drifted    \* history: courses whose numbers were left behind

rows == <<course, module, lesson, resource, taken>>
catalog == <<course, module, lesson, resource, taken, author, drifted>>

CourseRow == [lessonCount : Nat, totalDurationMinutes : Nat]
LessonRow == [moduleId : Module, durationMinutes : Nat, video : Resource \cup {Null}]
ResourceRow == [status : {"pending", "uploading", "processing", "ready", "failed"}, durationSeconds : Nat]
Modules == [Module -> {Null} \cup Course]
Lessons == [Lesson -> {Null} \cup LessonRow]

ASSUME CatalogNullAssumption == Null \notin CourseRow \cup LessonRow \cup ResourceRow

\* row is the entity that was found, found a course's content, read its lessons with their minutes.
\* own are the rows a transaction has written, as they are in found: its course or not, modules, lessons.
NoRows == [course |-> FALSE, module |-> {}, lesson |-> {}]
Authoring == [pc : {"idle", "courseSave", "courseRemove", "planApply", "planLessons", "planCourse", "planSave", "planCommit",
                    "moduleInsert", "moduleSave", "moduleRemove",
                    "lessonInsert", "lessonSave", "lessonRemove", "resourceSave", "linkedFind",
                    "statsModule", "statsLessons", "statsCourse", "statsSave"},
              course : {Null} \cup Course, module : {Null} \cup Module, lesson : {Null} \cup Lesson,
              video : {Null} \cup Resource, row : {Null} \cup CourseRow \cup Course \cup LessonRow \cup ResourceRow,
              found : {Null} \cup [module : Modules, lesson : Lessons], plan : {Null, <<>>} \cup Plan,
              own : [course : BOOLEAN, module : SUBSET Module, lesson : SUBSET Lesson], replace : BOOLEAN, refresh : BOOLEAN, read : SUBSET (Lesson \X Nat)]
NoAuthoring == [pc |-> "idle", course |-> Null, module |-> Null, lesson |-> Null, video |-> Null, row |-> Null,
                found |-> Null, plan |-> Null, own |-> NoRows, replace |-> FALSE, refresh |-> FALSE, read |-> {}]

\* A course with one module, its lesson, and the video of that, waiting for its upload; or,
\* until the part is begun, nothing.
CatalogInit(begun) ==
    \E c \in Course, m \in Module, l \in Lesson, v \in Resource :
        /\ course = [x \in Course |-> IF begun /\ x = c THEN [lessonCount |-> 1, totalDurationMinutes |-> 0] ELSE Null]
        /\ module = [x \in Module |-> IF begun /\ x = m THEN c ELSE Null]
        /\ lesson = [x \in Lesson |-> IF begun /\ x = l THEN [moduleId |-> m, durationMinutes |-> 0, video |-> v] ELSE Null]
        /\ resource = [x \in Resource |-> IF begun /\ x = v THEN [status |-> "pending", durationSeconds |-> 0] ELSE Null]
        /\ taken = IF begun THEN {c, m, l} ELSE {}
        /\ author = [p \in Proc |-> NoAuthoring]
        /\ drifted = {}

CatalogTypes ==
    /\ course \in [Course -> {Null} \cup CourseRow]
    /\ module \in Modules
    /\ lesson \in Lessons
    /\ resource \in [Resource -> {Null} \cup ResourceRow]
    /\ taken \subseteq Course \cup Module \cup Lesson
    /\ author \in [Proc -> Authoring]
    /\ drifted \subseteq Course
    /\ \A m \in Module : module[m] # Null => course[module[m]] # Null
    /\ \A l \in Lesson : lesson[l] # Null => module[lesson[l].moduleId] # Null

AuthorBegin(p, memo) == author[p].pc = "idle" /\ author' = [author EXCEPT ![p] = memo]
AuthorTo(p, step) == author' = [author EXCEPT ![p].pc = step]
AuthorEnd(p) == author' = [author EXCEPT ![p] = NoAuthoring]
\* findCourseById, findModuleById and findLessonById have thrown 'not found' otherwise.
Found(step, row) == [NoAuthoring EXCEPT !.pc = step, !.row = row]

(***************************************************************************)
(* The numbers of a course                                                 *)
(***************************************************************************)
LessonsOf(c, modules, lessons) ==
    {<<l, lessons[l].durationMinutes>> :
        l \in {k \in Lesson : lessons[k] # Null /\ modules[lessons[k].moduleId] = c}}
Stats(read) == [lessonCount |-> Cardinality(read), totalDurationMinutes |-> MapThenSumSet(LAMBDA x : x[2], read)]

Refreshing(c) ==
    \E p \in Proc : \/ author[p].pc = "statsModule" /\ module[author[p].module] = c
                    \/ author[p].pc \in {"statsLessons", "statsCourse", "statsSave"} /\ author[p].course = c

\* The courses a step gives other lessons or minutes, or takes a refresh from, are left
\* behind, but for one that is to be refreshed or just was.
Changed == {c \in Course : LessonsOf(c, module', lesson') # LessonsOf(c, module, lesson)}
Dropped == {c \in Course : Refreshing(c) /\ ~Refreshing(c)'}
LeftBehind(except) == drifted' = drifted \cup ((Changed \cup Dropped) \ {except})

\* updateCourseStats(), of both services: the module, ...
StatsModule(p) ==
    LET c == module[author[p].module] IN
    /\ author[p].pc = "statsModule"
    /\ IF c = Null THEN AuthorEnd(p)
       ELSE author' = [author EXCEPT ![p].pc = "statsLessons", ![p].course = c]
    /\ UNCHANGED <<rows, made, drifted>>

\* ... the lessons of its course, ...
StatsLessons(p) ==
    /\ author[p].pc = "statsLessons"
    /\ author' = [author EXCEPT ![p].pc = "statsCourse", ![p].read = LessonsOf(author[p].course, module, lesson)]
    /\ UNCHANGED <<rows, made, drifted>>

\* ... the course, ...
StatsCourse(p) ==
    /\ author[p].pc = "statsCourse"
    /\ IF course[author[p].course] = Null THEN AuthorEnd(p) ELSE AuthorTo(p, "statsSave")
    /\ UNCHANGED <<rows, made, drifted>>

\* ... and its row; what has changed since the lessons were read is not counted.
StatsSave(p) ==
    LET c == author[p].course IN
    /\ author[p].pc = "statsSave"
    /\ course' = [course EXCEPT ![c] = Stats(author[p].read)]
    /\ drifted' = IF author[p].read = LessonsOf(c, module, lesson) THEN drifted \ {c} ELSE drifted \cup {c}
    /\ AuthorEnd(p)
    /\ UNCHANGED <<module, lesson, resource, taken, made>>

(***************************************************************************)
(* A curriculum                                                            *)
(***************************************************************************)
NoContent == [module |-> [m \in Module |-> Null], lesson |-> [l \in Lesson |-> Null]]

\* What findCourseById() loads of the course: a lesson without minutes shows those of its video.
Content(c) ==
    [module |-> [m \in Module |-> IF module[m] = c THEN c ELSE Null],
     lesson |-> [l \in Lesson |->
        IF lesson[l] = Null \/ module[lesson[l].moduleId] # c THEN Null
        ELSE IF lesson[l].durationMinutes = 0 /\ lesson[l].video # Null
        THEN [lesson[l] EXCEPT !.durationMinutes = (resource[lesson[l].video].durationSeconds + 59) \div 60]
        ELSE lesson[l]]]

Under(found, m) == {l \in Lesson : found.lesson[l] # Null /\ found.lesson[l].moduleId = m}
\* db holds the modules and lessons as the transaction has them, and whether it still may commit.
\* Mutant: the lessons of a module stay.
WithoutModules_LessonsStay(db, removed) ==
    [db EXCEPT !.module = [m \in Module |-> IF m \in removed THEN Null ELSE db.module[m]]]

WithoutModules(db, removed) ==
    [db EXCEPT !.module = [m \in Module |-> IF m \in removed THEN Null ELSE db.module[m]],
               !.lesson = [l \in Lesson |-> IF db.lesson[l] # Null /\ db.lesson[l].moduleId \in removed
                                            THEN Null ELSE db.lesson[l]]]

\* A save of a module found with its lessons takes these back, and fails to take out another.
ModuleSaved(db, c, found, m) ==
    LET loaded == found.module[m] # Null IN
    [module |-> [db.module EXCEPT ![m] = c],
     lesson |-> [l \in Lesson |-> IF loaded /\ l \in Under(found, m) /\ db.lesson[l] # Null
                                  THEN [db.lesson[l] EXCEPT !.moduleId = m] ELSE db.lesson[l]],
     ok |-> db.ok /\ (loaded => Under(db, m) \subseteq Under(found, m))]

\* The lesson as it was found in this module, or else as its row is, with what is given;
\* a video belongs to one lesson.
LessonSaved(db, found, m, given) ==
    LET l == given.id
        old == IF l \in Under(found, m) THEN found.lesson[l]
               ELSE IF db.lesson[l] # Null THEN db.lesson[l]
               ELSE [moduleId |-> m, durationMinutes |-> 0, video |-> Null]
        video == IF given.video = Null \/ resource[given.video] = Null THEN old.video ELSE given.video
        minutes == IF given.durationMinutes = Null THEN old.durationMinutes ELSE given.durationMinutes
    IN  [db EXCEPT !.lesson[l] = [moduleId |-> m, durationMinutes |-> minutes, video |-> video],
                   !.ok = @ /\ \A k \in Lesson \ {l} : db.lesson[k] # Null /\ video # Null => db.lesson[k].video # video]

\* One section: the module, and the lessons to take out, ...
SectionKept(db, c, found, replace, section) ==
    LET m == section.id
        given == {section.lessons[i].id : i \in DOMAIN section.lessons}
        saved == ModuleSaved(db, c, found, m)
    IN  [saved EXCEPT !.lesson = [l \in Lesson |->
            IF replace /\ l \in Under(found, m) \ given THEN Null ELSE saved.lesson[l]]]

\* ... and the lessons it has.
SectionSaved(db, c, found, replace, section) ==
    FoldLeft(LAMBDA d, g : LessonSaved(d, found, section.id, g), SectionKept(db, c, found, replace, section), section.lessons)

SectionsSaved(db, c, found, replace, plan) ==
    FoldLeft(LAMBDA d, s : SectionSaved(d, c, found, replace, s), db, plan)

Ids(plan) == UNION {{plan[i].id} \cup {plan[i].lessons[j].id : j \in DOMAIN plan[i].lessons} : i \in DOMAIN plan}
LessonsGiven(plan) == FoldLeft(LAMBDA n, s : n + Len(s.lessons), 0, plan)

\* createCourse(), one transaction: the lessons are counted, their minutes are not.
CourseCreate(p) ==
    \E c \in Course \ taken, plan \in {<<>>} \cup Plan :
        LET db == SectionsSaved([module |-> module, lesson |-> lesson, ok |-> TRUE], c, NoContent, FALSE, plan) IN
        /\ author[p].pc = "idle"
        /\ db.ok
        /\ course' = [course EXCEPT ![c] = [lessonCount |-> LessonsGiven(plan), totalDurationMinutes |-> 0]]
        /\ module' = db.module /\ lesson' = db.lesson
        /\ taken' = taken \cup {c} \cup Ids(plan)
        /\ UNCHANGED <<resource, author>>
        /\ LeftBehind(Null)

\* The transaction has these rows by now: those it wrote are kept, until the commit.
Opened(memo, db) ==
    LET own == [course |-> course[memo.course] # memo.row,
                module |-> {m \in Module : db.module[m] # module[m]},
                lesson |-> {l \in Lesson : db.lesson[l] # lesson[l]}]
    IN  [NoAuthoring EXCEPT !.pc = "planLessons", !.course = memo.course, !.own = own,
            !.found = [module |-> [m \in Module |-> IF m \in own.module THEN db.module[m] ELSE Null],
                       lesson |-> [l \in Lesson |-> IF l \in own.lesson THEN db.lesson[l] ELSE Null]]]

\* What a request sees: the rows of its transaction over those committed.
Seen(memo) ==
    [module |-> [m \in Module |-> IF m \in memo.own.module THEN memo.found.module[m] ELSE module[m]],
     lesson |-> [l \in Lesson |-> IF l \in memo.own.lesson THEN memo.found.lesson[l] ELSE lesson[l]]]

\* updateCourse() and publishCourse() find the course ...
CourseFind(p) ==
    \E c \in Course :
        /\ course[c] # Null
        /\ \/ AuthorBegin(p, [Found("courseSave", course[c]) EXCEPT !.course = c])
           \/ \E plan \in {Null, <<>>} \cup Plan, replace \in BOOLEAN :
                AuthorBegin(p, [Found("planApply", course[c]) EXCEPT !.course = c, !.found = Content(c),
                                                                     !.plan = plan, !.replace = replace])
           \/ AuthorBegin(p, [Found("courseRemove", course[c]) EXCEPT !.course = c])
        /\ UNCHANGED <<rows, drifted>>

\* ... publishCourse() saves it, with the numbers it had; ...
CourseSave(p) ==
    LET c == author[p].course IN
    /\ author[p].pc = "courseSave"
    /\ course' = [course EXCEPT ![c] = author[p].row]
    /\ drifted' = IF course[c] = author[p].row THEN drifted ELSE drifted \cup {c}
    /\ AuthorEnd(p)
    /\ UNCHANGED <<module, lesson, resource, taken, made>>

\* ... updateCourse() does so in a transaction, which fails for a module added meanwhile. Without
\* sections that is all; otherwise it brings them, ...
PlanApply(p) ==
    LET memo == author[p]
        c == memo.course
        its == {m \in Module : memo.found.module[m] # Null}
        given == {memo.plan[i].id : i \in DOMAIN memo.plan}
        back == [module |-> [m \in Module |-> IF m \in its /\ module[m] # Null THEN c ELSE module[m]],
                 lesson |-> lesson, ok |-> {m \in Module : module[m] = c} \subseteq its]
        pruned == IF memo.replace THEN WithoutModules(back, its \ given) ELSE back
        db == IF memo.plan = Null THEN back ELSE SectionsSaved(pruned, c, memo.found, memo.replace, memo.plan)
    IN  /\ memo.pc = "planApply"
        /\ \/ /\ db.ok /\ memo.plan = Null
              /\ course' = [course EXCEPT ![c] = memo.row]
              /\ module' = db.module
              /\ AuthorEnd(p)
              /\ UNCHANGED <<lesson, taken>>
              /\ drifted' = drifted \cup Changed \cup Dropped \cup (IF course[c] = memo.row THEN {} ELSE {c})
           \/ /\ db.ok /\ memo.plan # Null
              /\ author' = [author EXCEPT ![p] = Opened(memo, db)]
              /\ taken' = taken \cup Ids(memo.plan)
              /\ UNCHANGED <<course, module, lesson, drifted>>
           \/ /\ ~db.ok
              /\ AuthorEnd(p)
              /\ UNCHANGED <<course, module, lesson, taken, drifted>>
        /\ UNCHANGED <<resource, made>>

\* ... and with updateCourseStatsByCourseId() reads the lessons as it has them, ...
PlanLessons(p) ==
    LET db == Seen(author[p]) IN
    /\ author[p].pc = "planLessons"
    /\ author' = [author EXCEPT ![p].pc = "planCourse", ![p].read = LessonsOf(author[p].course, db.module, db.lesson)]
    /\ UNCHANGED <<rows, made, drifted>>

\* ... and the course, unless another request has removed it, ...
PlanCourse(p) ==
    /\ author[p].pc = "planCourse"
    /\ AuthorTo(p, IF author[p].own.course \/ course[author[p].course] # Null THEN "planSave" ELSE "planCommit")
    /\ UNCHANGED <<rows, made, drifted>>

\* ... saves its row and commits; what others have committed since the lessons were read is not counted.
PlanSave(p) ==
    LET memo == author[p]
        c == memo.course
        db == Seen(memo)
    IN  /\ module' = db.module /\ lesson' = db.lesson
        /\ AuthorEnd(p)
        /\ \/ /\ memo.pc = "planSave"
              /\ course' = [course EXCEPT ![c] = Stats(memo.read)]
              /\ drifted' = IF memo.read = LessonsOf(c, module', lesson') THEN (drifted \cup Changed \cup Dropped) \ {c}
                            ELSE drifted \cup Changed \cup Dropped \cup {c}
           \/ memo.pc = "planCommit" /\ UNCHANGED course /\ LeftBehind(Null)
        /\ UNCHANGED <<resource, taken, made>>

\* deleteCourse(): its modules and their lessons go with it.
CourseRemove(p) ==
    LET c == author[p].course
        db == WithoutModules([module |-> module, lesson |-> lesson], {m \in Module : module[m] = c})
    IN  /\ author[p].pc = "courseRemove"
        /\ course' = [course EXCEPT ![c] = Null]
        /\ module' = db.module /\ lesson' = db.lesson
        /\ AuthorEnd(p)
        /\ UNCHANGED <<resource, taken, made, drifted>>

(***************************************************************************)
(* Modules                                                                 *)
(***************************************************************************)
ModuleFind(p) ==
    /\ \/ \E c \in Course :
            course[c] # Null /\ AuthorBegin(p, [Found("moduleInsert", Null) EXCEPT !.course = c])
       \/ \E m \in Module, step \in {"moduleSave", "moduleRemove"} :
            module[m] # Null /\ AuthorBegin(p, [Found(step, module[m]) EXCEPT !.module = m])
    /\ UNCHANGED <<rows, drifted>>

\* createModule(): of a course that is still there.
ModuleInsert(p) ==
    /\ author[p].pc = "moduleInsert"
    /\ IF course[author[p].course] # Null
       THEN \E m \in Module \ taken :
              module' = [module EXCEPT ![m] = author[p].course] /\ taken' = taken \cup {m}
       ELSE UNCHANGED <<module, taken>>
    /\ AuthorEnd(p)
    /\ UNCHANGED <<course, lesson, resource, made, drifted>>

\* updateModule(): the module goes back to the course it was found in.
ModuleSave(p) ==
    /\ author[p].pc = "moduleSave"
    /\ module' = IF course[author[p].row] = Null THEN module
                 ELSE [module EXCEPT ![author[p].module] = author[p].row]
    /\ AuthorEnd(p)
    /\ UNCHANGED <<course, lesson, resource, taken, made>>
    /\ LeftBehind(Null)

\* deleteModule(): with its lessons, which the course still counts.
ModuleRemove(p) ==
    LET db == WithoutModules([module |-> module, lesson |-> lesson], {author[p].module}) IN
    /\ author[p].pc = "moduleRemove"
    /\ module' = db.module /\ lesson' = db.lesson
    /\ AuthorEnd(p)
    /\ UNCHANGED <<course, resource, taken, made>>
    /\ LeftBehind(Null)

(***************************************************************************)
(* Lessons                                                                 *)
(***************************************************************************)
\* createLesson(), publishLesson(), updateLesson() and deleteLesson().
LessonFind(p) ==
    /\ \/ \E m \in Module, minutes \in Minutes :
            /\ module[m] # Null
            /\ AuthorBegin(p, [Found("lessonInsert", [moduleId |-> m, durationMinutes |-> minutes, video |-> Null])
                                  EXCEPT !.module = m])
       \/ \E l \in Lesson :
            /\ lesson[l] # Null
            /\ \/ AuthorBegin(p, [Found("lessonSave", lesson[l]) EXCEPT !.lesson = l])
               \/ \E minutes \in Minutes \cup {lesson[l].durationMinutes} :
                    AuthorBegin(p, [Found("lessonSave", [lesson[l] EXCEPT !.durationMinutes = minutes])
                                       EXCEPT !.lesson = l, !.module = lesson[l].moduleId, !.refresh = TRUE])
               \/ AuthorBegin(p, [Found("lessonRemove", lesson[l])
                                     EXCEPT !.lesson = l, !.module = lesson[l].moduleId, !.refresh = TRUE])
    /\ UNCHANGED <<rows, drifted>>

\* The numbers of the module's course are refreshed next.
Refresh(p) == author' = [author EXCEPT ![p] = [NoAuthoring EXCEPT !.pc = "statsModule", !.module = author[p].module]]
Refreshed(p) == IF author[p].refresh THEN module[author[p].module] ELSE Null

LessonInsert(p) ==
    /\ author[p].pc = "lessonInsert"
    /\ IF module[author[p].module] # Null
       THEN \E l \in Lesson \ taken :
              /\ lesson' = [lesson EXCEPT ![l] = author[p].row]
              /\ taken' = taken \cup {l}
              /\ Refresh(p)
       ELSE UNCHANGED <<lesson, taken>> /\ AuthorEnd(p)
    /\ UNCHANGED <<course, module, resource, made, drifted>>

\* The whole row, into the module and with the video it had: the module may be gone, and the
\* video may be another lesson's by now.
CanSaveLesson(l, row) ==
    /\ module[row.moduleId] # Null
    /\ \A k \in Lesson \ {l} : lesson[k] # Null /\ row.video # Null => lesson[k].video # row.video

LessonSave(p) ==
    LET l == author[p].lesson IN
    /\ author[p].pc = "lessonSave"
    /\ IF CanSaveLesson(l, author[p].row)
       THEN /\ lesson' = [lesson EXCEPT ![l] = author[p].row]
            /\ IF author[p].refresh THEN Refresh(p) ELSE AuthorEnd(p)
       ELSE UNCHANGED lesson /\ AuthorEnd(p)
    /\ UNCHANGED <<course, module, resource, taken, made>>
    /\ LeftBehind(Refreshed(p))

\* Mutant: the course's numbers are not refreshed.
LessonRemove_NotRefreshed(p) ==
    /\ author[p].pc = "lessonRemove"
    /\ lesson' = [lesson EXCEPT ![author[p].lesson] = Null]
    /\ AuthorEnd(p)
    /\ UNCHANGED <<course, module, resource, taken, made>>
    /\ LeftBehind(Refreshed(p))

LessonRemove(p) ==
    /\ author[p].pc = "lessonRemove"
    /\ lesson' = [lesson EXCEPT ![author[p].lesson] = Null]
    /\ Refresh(p)
    /\ UNCHANGED <<course, module, resource, taken, made>>
    /\ LeftBehind(Refreshed(p))

(***************************************************************************)
(* The resources with the videos                                           *)
(***************************************************************************)
\* createVideo(), once Bunny has given the id.
ResourceCreate(v) ==
    /\ resource[v] = Null
    /\ resource' = [resource EXCEPT ![v] = [status |-> "pending", durationSeconds |-> 0]]
    /\ UNCHANGED <<course, module, lesson, taken, author, drifted>>

\* processWebhookEvent(): mapWebhookStatus() of any code, and a duration if there is one; ...
ResourceHook(p) ==
    \E v \in Resource, status \in {"pending", "uploading", "processing", "ready", "failed"}, seconds \in Seconds :
        /\ resource[v] # Null
        /\ AuthorBegin(p, [Found("resourceSave",
                                 [status |-> status,
                                  durationSeconds |-> IF seconds > 0 THEN seconds ELSE resource[v].durationSeconds])
                              EXCEPT !.video = v])
        /\ UNCHANGED <<rows, drifted>>

\* ... the resource; once it is ready its lesson takes the duration, if it has one.
ResourceSave(p) ==
    LET row == author[p].row IN
    /\ author[p].pc = "resourceSave"
    /\ resource' = [resource EXCEPT ![author[p].video] = row]
    /\ IF row.status = "ready" /\ row.durationSeconds > 0 THEN AuthorTo(p, "linkedFind") ELSE AuthorEnd(p)
    /\ UNCHANGED <<course, module, lesson, taken, made, drifted>>

\* updateLinkedLessonAndCourseDurations(): a minute at least, and a lesson that has it is not saved.
LinkedFind(p) ==
    LET minutes == (author[p].row.durationSeconds + 59) \div 60
        linked == {l \in Lesson : lesson[l] # Null /\ lesson[l].video = author[p].video}
    IN  /\ author[p].pc = "linkedFind"
        /\ IF linked = {} THEN AuthorEnd(p)
           ELSE \E l \in linked :
                  LET memo == [NoAuthoring EXCEPT !.module = lesson[l].moduleId] IN
                  author' = [author EXCEPT ![p] =
                     IF lesson[l].durationMinutes = minutes THEN [memo EXCEPT !.pc = "statsModule"]
                     ELSE [memo EXCEPT !.pc = "lessonSave", !.lesson = l, !.refresh = TRUE,
                                       !.row = [lesson[l] EXCEPT !.durationMinutes = minutes]]]
        /\ UNCHANGED <<rows, made, drifted>>

\* A call fails, or the process stops: a refresh may be left out.
AuthorHalt(p) ==
    /\ author[p].pc # "idle"
    /\ AuthorEnd(p)
    /\ UNCHANGED <<rows, made>>
    /\ LeftBehind(Null)

(***************************************************************************)
(* PostgreSQL's locks                                                      *)
(***************************************************************************)
\* The rows a statement writes, and those an open transaction has written, as they are then.
Statement == [course |-> {c \in Course : course'[c] # course[c]},
              module |-> {m \in Module : module'[m] # module[m]}, lesson |-> {l \in Lesson : lesson'[l] # lesson[l]},
              found |-> [module |-> module', lesson |-> lesson'],
              removed |-> {c \in Course : course[c] # Null /\ course'[c] = Null}]
Open(memo) == [course |-> IF memo.own.course THEN {memo.course} ELSE {},
               module |-> memo.own.module, lesson |-> memo.own.lesson, found |-> memo.found, removed |-> {}]

Removed(w) == {m \in w.module : w.found.module[m] = Null}
Parents(w) == {w.found.lesson[l].moduleId : l \in {k \in w.lesson : w.found.lesson[k] # Null}}
VideosOf(w) == {w.found.lesson[l].video : l \in {k \in w.lesson : w.found.lesson[k] # Null}} \ {Null}

\* A row, or a unique value, that both write, or one that one writes and the other's rows refer to.
Collide(v, w) ==
    \/ v.course \cap w.course # {} \/ v.module \cap w.module # {} \/ v.lesson \cap w.lesson # {}
    \/ VideosOf(v) \cap VideosOf(w) # {}
    \/ Parents(v) \cap Removed(w) # {} \/ Parents(w) \cap Removed(v) # {}
    \/ \E m \in w.module : w.found.module[m] \in v.removed

\* A statement waits for the transactions of the others.
Unlocked(p) ==
    \A q \in Proc \ {p} : author[q].own # NoRows =>
        ~Collide(Statement, Open(author[q])) /\ ~Collide(Open(author'[p]), Open(author[q]))

(***************************************************************************)
(* The services                                                            *)
(***************************************************************************)
AuthorContinue(p) ==
    \/ CourseSave(p) \/ PlanApply(p) \/ PlanLessons(p) \/ PlanCourse(p) \/ PlanSave(p) \/ CourseRemove(p)
    \/ ModuleInsert(p) \/ ModuleSave(p) \/ ModuleRemove(p)
    \/ LessonInsert(p) \/ LessonSave(p) \/ LessonRemove(p)
    \/ ResourceSave(p) \/ LinkedFind(p)
    \/ StatsModule(p) \/ StatsLessons(p) \/ StatsCourse(p) \/ StatsSave(p)
    \/ AuthorHalt(p)

\* The routes of ContentController, the upload of a video, and Bunny's webhook.
AuthorServe(p) ==
    /\ \/ CourseCreate(p) \/ CourseFind(p) \/ ModuleFind(p) \/ LessonFind(p)
       \/ (\E v \in Resource : ResourceCreate(v)) \/ ResourceHook(p)
    /\ Request

CatalogNext == \E p \in Proc : (AuthorServe(p) \/ AuthorContinue(p)) /\ Unlocked(p)

\* updateCourseStats(): the numbers in a course's row are those of its lessons, unless they
\* are being refreshed, or were left behind: by an operation that refreshes nothing or another
\* course, by a row that was saved as it had been found, or by a refresh that another change
\* has overtaken or that stopped, and in each case not refreshed since.
StatsMatch ==
    \A c \in Course :
        course[c] # Null /\ c \notin drifted /\ ~Refreshing(c) => course[c] = Stats(LessonsOf(c, module, lesson))
=============================================================================
