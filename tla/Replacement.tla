---------------------------- MODULE Replacement ----------------------------
(***************************************************************************)
(* Replacing a service's binary: ReplacementsController#create saves a row *)
(* whose before_save archives the upload and copies it onto the team's box *)
(* before the row is inserted.  Admin::ReplacementsController saves through *)
(* the same callback and may also change or destroy a row.  One team's copy *)
(* of one service is modelled: no other shares its box, its archive files   *)
(* or its rows.                                                             *)
(***************************************************************************)
EXTENDS Integers, FiniteSets

CONSTANTS
    Binary,      \* the files a team may upload, by digest
    Shipped,     \* the binary the box was delivered with
    Truncated,   \* what a copy that broke off leaves
    Web,         \* the web server's processes
    MaxRounds,   \* bound: rounds of the game
    MaxUploads,  \* bound: uploads begun
    MaxCrashes   \* bound: times a web process may die

ASSUME ShippedAssumption == Shipped \notin Binary /\ Truncated \notin Binary
ASSUME ReplacementBoundAssumption ==
    MaxRounds \in Nat /\ MaxUploads \in Nat /\ MaxCrashes \in Nat

VARIABLES
    round,     \* Round.current, 0 before and between games
    rows,      \* rows of replacements
    archive,   \* digests with a file under archive_path
    box,       \* the binary on the team's box
    req,       \* the upload each web process is serving
    uploads, crashes,  \* counters of the bounds
    installed  \* observation: rounds and binaries that were put on the box

uploadVars == <<round, rows, archive, box, req, uploads, crashes, installed>>

\* merged is an observation: an update met a row that another had changed since it
\* was loaded, and the two were mixed.
ReplacementRow == [id: 1..MaxUploads, round: 1..MaxRounds, digest: Binary, merged: BOOLEAN]
\* loaded holds the row that an admin's update has loaded, if it is one.
Upload == [pc: {"archive", "install", "write"}, id: 1..MaxUploads, round: 0..MaxRounds,
           digest: Binary, loaded: SUBSET ReplacementRow]
Idle == [pc |-> "idle"]

InitUploads ==
    /\ round = 0 /\ rows = {} /\ archive = {} /\ box = Shipped
    /\ req = [p \in Web |-> Idle]
    /\ uploads = 0 /\ crashes = 0 /\ installed = {}

-----------------------------------------------------------------------------
\* Each definition a bug may change after its mutant.
AfterArchiveSkipped == "write"
\* scp.run follows the copy into the archive.
AfterArchive == "install"

\* belongs_to :round is required.
Valid(r) == r # 0

Unarchived(d) == archive
Archived(d) == archive \cup {d}

\* The round is read when the request begins; save validates before any callback.
Begin(p, d) ==
    /\ req[p] = Idle /\ uploads < MaxUploads
    /\ uploads' = uploads + 1
    /\ req' = [req EXCEPT ![p] = IF Valid(round)
                                 THEN [pc |-> "archive", id |-> uploads + 1, round |-> round,
                                       digest |-> d, loaded |-> {}]
                                 ELSE Idle]
    /\ UNCHANGED <<round, rows, archive, box, crashes, installed>>

\* Admin::ReplacementsController#create and, for a row that it loads, #update: an
\* admin names the round.
AdminBegin(p, d, r, loaded) ==
    /\ req[p] = Idle /\ uploads < MaxUploads
    /\ uploads' = uploads + 1
    /\ \E id \in IF loaded = {} THEN {uploads + 1} ELSE {x.id : x \in loaded} :
           req' = [req EXCEPT ![p] = [pc |-> "archive", id |-> id, round |-> r, digest |-> d,
                                      loaded |-> loaded]]
    /\ UNCHANGED <<round, rows, archive, box, crashes, installed>>

AdminDestroy(x) ==
    /\ rows' = rows \ {x}
    /\ UNCHANGED <<round, archive, box, req, uploads, crashes, installed>>

\* FileUtils.cp file.path, archive_path
Archive(p) ==
    /\ req[p].pc = "archive"
    /\ archive' = Archived(req[p].digest)
    /\ req' = [req EXCEPT ![p] = [@ EXCEPT !.pc = AfterArchive]]
    /\ UNCHANGED <<round, rows, box, uploads, crashes, installed>>

\* scp.run; when it fails it raises, and the box has the old file, the new one or
\* a part of it.
Install(p) ==
    /\ req[p].pc = "install"
    /\ box' = req[p].digest
    /\ installed' = installed \cup {[round |-> round, digest |-> req[p].digest]}
    /\ req' = [req EXCEPT ![p] = [@ EXCEPT !.pc = "write"]]
    /\ UNCHANGED <<round, rows, archive, uploads, crashes>>

InstallFails(p) ==
    /\ req[p].pc = "install"
    /\ box' \in {box, req[p].digest, Truncated}
    /\ req' = [req EXCEPT ![p] = Idle]
    /\ UNCHANGED <<round, rows, archive, uploads, crashes, installed>>

\* The row as the request would have it: an insert is of what was uploaded, an
\* update by id sets the columns that differ from those it loaded.
Requested(u) == [id |-> u.id, round |-> u.round, digest |-> u.digest, merged |-> FALSE]
Updated(x, was, u) ==
    LET r == IF u.round = was.round THEN x.round ELSE u.round
        d == IF u.digest = was.digest THEN x.digest ELSE u.digest
    IN  [id |-> x.id, round |-> r, digest |-> d, merged |-> <<r, d>> # <<u.round, u.digest>>]

\* The rows a request leaves of its id: none when an update finds its row gone.
Written(u) ==
    IF u.loaded = {} THEN {Requested(u)}
    ELSE {Updated(x, was, u) : x \in {y \in rows : y.id = u.id}, was \in u.loaded}

\* The unique index on team, service and round, against the rows with another id.
Free(r, id) == \A x \in rows : x.id # id => x.round # r

\* The insert or the update, and the commit; or the index's refusal.
Write(p) ==
    /\ req[p].pc = "write"
    /\ LET new == Written(req[p])
       IN  rows' = IF \A x \in new : Free(x.round, x.id)
                   THEN {x \in rows : x.id # req[p].id} \cup new
                   ELSE rows
    /\ req' = [req EXCEPT ![p] = Idle]
    /\ UNCHANGED <<round, archive, box, uploads, crashes, installed>>

Crash(p) ==
    /\ req[p] # Idle /\ crashes < MaxCrashes
    /\ crashes' = crashes + 1
    /\ req' = [req EXCEPT ![p] = Idle]
    /\ UNCHANGED <<round, rows, archive, box, uploads, installed>>

\* bin/service ends the round and starts the next.
NextRound ==
    /\ round < MaxRounds /\ round' = round + 1
    /\ UNCHANGED <<rows, archive, box, req, uploads, crashes, installed>>

NextUpload ==
    \/ NextRound
    \/ \E p \in Web :
        \/ \E d \in Binary : Begin(p, d)
        \/ \E d \in Binary, r \in 1..round, loaded \in {{}} \cup {{x} : x \in rows} :
               AdminBegin(p, d, r, loaded)
        \/ Archive(p) \/ Install(p) \/ InstallFails(p) \/ Write(p) \/ Crash(p)
    \/ \E x \in rows : AdminDestroy(x)

UploadSpec == InitUploads /\ [][NextUpload]_uploadVars

-----------------------------------------------------------------------------
\* Every variable has its type: no row without a round among them.
UploadTypeOK ==
    /\ round \in 0..MaxRounds /\ rows \subseteq ReplacementRow /\ archive \subseteq Binary
    /\ box \in Binary \cup {Shipped, Truncated}
    /\ req \in [Web -> Upload \cup {Idle}]
    /\ uploads \in 0..MaxUploads /\ crashes \in Nat
    /\ installed \subseteq [round: 0..MaxRounds, digest: Binary]

\* What other teams may download is there: every listed binary is in the archive
\* and was put on the box, in the round it is listed for or a later one unless
\* concurrent updates of one row were mixed.
ListedIsReal ==
    \A x \in rows :
        /\ x.digest \in archive
        /\ \E i \in installed : i.digest = x.digest /\ (x.merged \/ i.round >= x.round)

\* Whatever fails halfway, a binary that runs on a box can be examined afterwards:
\* it is the one that was shipped or one in the archive.
BoxArchived == box \in Binary => box \in archive
=============================================================================
