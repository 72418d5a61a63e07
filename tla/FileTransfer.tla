---------------------------- MODULE FileTransfer ----------------------------
(***************************************************************************)
(* Uploads, downloads and zipped folders: the handlers of /file and        *)
(* /folder of src/rest/api/routes.py and the part of src/rest/utils/       *)
(* io_utils.py that they use, inside the pipeline of RequestPipeline.      *)
(*                                                                         *)
(* Three things are shared by all requests: the files; the archive, which  *)
(* has one name for all; and the working directory of the agent, which     *)
(* shutil.make_archive changes while it works (until Python 3.10) and      *)
(* against which relative paths are resolved. There is one file in each    *)
(* directory.                                                              *)
(***************************************************************************)
EXTENDS Naturals

CONSTANTS
  Threads, RequestIds, NoId, Tokens, NoToken, NoneText, AuthToken,
  Folders,    \* folders that clients ask for
  Home,       \* the directory in which the agent was started
  Relative,   \* the path of the file relative to the working directory
  NotFolder,  \* a path that exists and is no directory
  Missing,    \* a path that does not exist, or cannot be opened
  FilePaths,  \* the paths that clients send to /file
  Values,     \* contents that clients upload
  Nothing     \* no content, no directory

ASSUME IdAssumption == NoId \notin RequestIds
ASSUME TokenAssumption ==
  /\ NoToken \notin Tokens
  /\ NoneText \in Tokens
  /\ AuthToken \in Tokens \cup {NoToken}
ASSUME PathAssumption ==
  /\ Home \notin Folders
  /\ FilePaths \subseteq Folders \cup {Home, Relative, Missing}
  /\ {Relative, NotFolder, Missing, Nothing} \cap (Folders \cup {Home}) = {}
ASSUME ContentAssumption == Nothing \notin Values

VARIABLES
  dumper, http,  \* the pipeline
  disk,          \* the file of each directory
  cwd,           \* the working directory of the agent
  zip,           \* /tmp/results.zip
  work,          \* what the handler of each request is doing
  landed,        \* history: the last upload to a file that was undisturbed
  tangled        \* history: have two folders been zipped at the same time?

P == INSTANCE RequestPipeline

files == <<disk, cwd, zip, landed, tangled>>
vars == <<dumper, http, disk, cwd, zip, work, landed, tangled>>

---------------------------------------------------------------------------
Dirs == Folders \cup {Home}
Pcs == {"start", "write", "enter", "open", "add", "close", "leave", "failed", "send", "sent"}

(* A file and the archive: absent, whole, open (empty or in part, as one   *)
(* who writes has left it so far), or mixed, of two who wrote at once.     *)
Absent == [st |-> "absent", of |-> Nothing]
Partial == [st |-> "open", of |-> Nothing]
Mixed == [st |-> "mixed", of |-> Nothing]
Whole(x) == [st |-> "whole", of |-> x]

File == {Absent, Partial, Mixed} \cup {Whole(v) : v \in Values}
Archive == {Absent, Partial, Mixed} \cup {Whole(d) : d \in Dirs}

(* asked is the folder to be zipped, or the content to be written; target  *)
(* the file that is open, or the directory that has been zipped; saved the *)
(* directory to return to; crossed tells that another one had the archive  *)
(* open for writing at the same time; body is the archive that the response*)
(* holds. shared is history: another one zipped a folder, or wrote to the  *)
(* file, while this one did.                                               *)
Work ==
  [pc : Pcs, asked : Dirs \cup {NotFolder, Nothing} \cup Values, target : Dirs \cup {Nothing},
   saved : Dirs \cup {Nothing}, body : Archive, crossed : BOOLEAN, shared : BOOLEAN]

NoWork == [pc |-> "start", asked |-> Nothing, target |-> Nothing, saved |-> Nothing,
           body |-> Absent, crossed |-> FALSE, shared |-> FALSE]

Resolve(path) == IF path = Relative THEN cwd ELSE path

Init ==
  /\ P!Init
  /\ disk = [d \in Dirs |-> Absent]
  /\ cwd = Home
  /\ zip = Absent
  /\ work = [t \in Threads |-> NoWork]
  /\ landed = [d \in Dirs |-> Nothing]
  /\ tangled = FALSE

---------------------------------------------------------------------------
(* Which handler a request is for, and with what, shows when it is called. *)
(* A path of Nothing is a request without its header, a value of Nothing   *)
(* an upload without a body.                                               *)

Receive(t) ==
  /\ \E token \in Tokens \cup {NoToken}, docs \in BOOLEAN : P!Receive(t, token, docs)
  /\ UNCHANGED <<work, files>>

(* A handler of files, at one of its steps.                                *)
Doing(t, pc) == P!At(t, "handle") /\ work[t].pc = pc
Continue(t, w) == work' = [work EXCEPT ![t] = w] /\ UNCHANGED <<dumper, http>>

(* The handler ends with its response, or with an ApiException.            *)
Return(t) == P!Handled(t, 200) /\ work' = [work EXCEPT ![t] = NoWork]
Raise(t) == P!Handled(t, 500) /\ work' = [work EXCEPT ![t] = NoWork]

(* The requests other than t that work[t] is shared with become so, too.   *)
Share(t, w, others) ==
  /\ work' = [u \in Threads |->
                CASE u = t -> [w EXCEPT !.shared = others # {}]
                  [] u \in others -> [work[u] EXCEPT !.shared = TRUE]
                  [] OTHER -> work[u]]
  /\ UNCHANGED <<dumper, http>>

---------------------------------------------------------------------------
(* POST and PUT /file.                                                     *)

Writing(d) == {t \in Threads : work[t].pc = "write" /\ work[t].target = d}

(* No header, no body, or a path that cannot be opened.                    *)
UploadRefused(t) ==
  /\ Doing(t, "start")
  /\ \E path \in FilePaths \cup {Nothing}, value \in Values \cup {Nothing} :
       path \in {Nothing, Missing} \/ value = Nothing
  /\ Raise(t)
  /\ UNCHANGED files

(* write_to_file_binary opens the file, which empties it.                  *)
UploadOpens(t) ==
  /\ Doing(t, "start")
  /\ \E path \in FilePaths \ {Missing}, value \in Values :
       LET d == Resolve(path) IN
       /\ disk' = [disk EXCEPT ![d] = Partial]
       /\ Share(t, [NoWork EXCEPT !.pc = "write", !.asked = value, !.target = d], Writing(d))
  /\ UNCHANGED <<cwd, zip, landed, tangled>>

(* Mutant of Filled: the file was opened without truncating it.            *)
FilledOver(old, new) == {new} \cup (IF old = Absent THEN {} ELSE {Mixed})

(* One who writes at the beginning of a file that another has filled since *)
(* it was emptied leaves the tail of what is longer.                       *)
Filled(old, new) == {new} \cup (IF old = Partial THEN {} ELSE {Mixed})

UploadWrites(t) ==
  LET d == work[t].target IN
  /\ Doing(t, "write")
  /\ \E result \in Filled(disk[d], Whole(work[t].asked)) : disk' = [disk EXCEPT ![d] = result]
  /\ landed' = [landed EXCEPT ![d] = IF work[t].shared THEN Nothing ELSE work[t].asked]
  /\ Return(t)
  /\ UNCHANGED <<cwd, zip, tangled>>

(* The write fails, on a full disk for one: what was there before is gone. *)
UploadFails(t) ==
  /\ Doing(t, "write")
  /\ landed' = [landed EXCEPT ![work[t].target] = Nothing]
  /\ Raise(t)
  /\ UNCHANGED <<disk, cwd, zip, tangled>>

(* GET /file tests for the file and reads it.                              *)
Download(t) ==
  /\ Doing(t, "start")
  /\ \E path \in FilePaths \cup {Nothing} :
       IF path \notin {Nothing, Missing} /\ disk[Resolve(path)] # Absent
       THEN Return(t) ELSE Raise(t)
  /\ UNCHANGED files

---------------------------------------------------------------------------
(* GET /folder: shutil.make_archive remembers the working directory, makes *)
(* the folder the working directory, zips what is below it, and returns.   *)

(* The requests that are at work on a folder, or on its archive.           *)
Zipping == {t \in Threads : work[t].pc \notin {"start", "write"}}

(* No header, or a path that does not exist.                               *)
FolderRefused(t) ==
  /\ Doing(t, "start")
  /\ Raise(t)
  /\ UNCHANGED files

FolderBegins(t) ==
  /\ Doing(t, "start")
  /\ \E folder \in Dirs \cup {NotFolder} :
       Share(t, [NoWork EXCEPT !.pc = "enter", !.asked = folder, !.saved = cwd], Zipping)
  /\ tangled' = (tangled \/ Zipping # {})
  /\ UNCHANGED <<disk, cwd, zip, landed>>

(* Mutant of EnterFolder: the working directory is not changed.            *)
EnterFolderNot(t) ==
  /\ Doing(t, "enter")
  /\ work[t].asked # NotFolder
  /\ Continue(t, [work[t] EXCEPT !.pc = "open"])
  /\ UNCHANGED files

EnterFolder(t) ==
  /\ Doing(t, "enter")
  /\ work[t].asked # NotFolder
  /\ cwd' = work[t].asked
  /\ Continue(t, [work[t] EXCEPT !.pc = "open"])
  /\ UNCHANGED <<disk, zip, landed, tangled>>

EnterFails(t) ==
  /\ Doing(t, "enter")
  /\ work[t].asked = NotFolder
  /\ Raise(t)
  /\ UNCHANGED files

(* Open for writing, which empties it.                                     *)
OpenArchive(t) ==
  LET others == {u \in Threads : work[u].pc \in {"add", "close"}} IN
  /\ Doing(t, "open")
  /\ zip' = Partial
  /\ work' = [u \in Threads |->
                CASE u = t -> [work[t] EXCEPT !.pc = "add", !.crossed = others # {}]
                  [] u \in others -> [work[u] EXCEPT !.crossed = TRUE]
                  [] OTHER -> work[u]]
  /\ UNCHANGED <<dumper, http, disk, cwd, landed, tangled>>

(* What t has written so far is all there is in the archive, unless another*)
(* one has had it open: the parts of both may then lie side by side, or    *)
(* cover each other.                                                       *)
Written(t, whole) == {whole} \cup (IF work[t].crossed THEN {Mixed} ELSE {})

(* The walk starts at ".".                                                 *)
AddFiles(t) ==
  /\ Doing(t, "add")
  /\ Continue(t, [work[t] EXCEPT !.pc = "close", !.target = cwd])
  /\ UNCHANGED files

(* A file cannot be read, or the disk is full: the archive is closed as it *)
(* is.                                                                     *)
AddFails(t) ==
  /\ Doing(t, "add")
  /\ zip' \in Written(t, zip)
  /\ Continue(t, [work[t] EXCEPT !.pc = "failed"])
  /\ UNCHANGED <<disk, cwd, landed, tangled>>

CloseArchive(t) ==
  /\ Doing(t, "close")
  /\ zip' \in Written(t, Whole(work[t].target))
  /\ Continue(t, [work[t] EXCEPT !.pc = "leave"])
  /\ UNCHANGED <<disk, cwd, landed, tangled>>

LeaveFolder(t) ==
  /\ Doing(t, "leave")
  /\ cwd' = work[t].saved
  /\ Continue(t, [work[t] EXCEPT !.pc = "send"])
  /\ UNCHANGED <<disk, zip, landed, tangled>>

(* Mutant of LeaveAfterFailure: without the finally of make_archive.       *)
LeaveNever(t) ==
  /\ Doing(t, "failed")
  /\ Raise(t)
  /\ UNCHANGED files

LeaveAfterFailure(t) ==
  /\ Doing(t, "failed")
  /\ cwd' = work[t].saved
  /\ Raise(t)
  /\ UNCHANGED <<disk, zip, landed, tangled>>

(* send_file opens the archive.                                            *)
SendArchive(t) ==
  /\ Doing(t, "send")
  /\ P!Handled(t, 200)
  /\ work' = [work EXCEPT ![t] = [@ EXCEPT !.pc = "sent", !.target = Nothing, !.saved = Nothing,
                                           !.crossed = FALSE]]
  /\ UNCHANGED files

ZipFolder(t) ==
  \/ FolderRefused(t) \/ FolderBegins(t) \/ EnterFolder(t) \/ EnterFails(t)
  \/ OpenArchive(t) \/ AddFiles(t) \/ AddFails(t) \/ CloseArchive(t)
  \/ LeaveFolder(t) \/ LeaveAfterFailure(t) \/ SendArchive(t)

---------------------------------------------------------------------------
(* Any other handler does nothing to files.                                *)
HandleOther(t) ==
  /\ P!At(t, "handle")
  /\ work[t] = NoWork
  /\ Return(t) \/ Raise(t)
  /\ UNCHANGED files

(* after_request logs the body, and so it reads the archive that send_file *)
(* has opened, as it is now.                                               *)
ReadBody(t) ==
  /\ P!LogResponse(t)
  /\ work' = [work EXCEPT ![t].body = IF t \in Zipping THEN zip ELSE @]
  /\ UNCHANGED files

Respond(t) ==
  /\ P!Respond(t)
  /\ work' = [work EXCEPT ![t] = NoWork]
  /\ UNCHANGED files

Handle(t) ==
  \/ P!Around(t) /\ UNCHANGED <<work, files>>
  \/ UploadRefused(t) \/ UploadOpens(t) \/ UploadWrites(t) \/ UploadFails(t)
  \/ Download(t) \/ ZipFolder(t) \/ HandleOther(t)
  \/ ReadBody(t) \/ Respond(t)

Next == \E t \in Threads : Receive(t) \/ Handle(t)

Spec == Init /\ [][Next]_vars

---------------------------------------------------------------------------
(* Properties.                                                             *)

TypeOK ==
  /\ P!TypeOK
  /\ disk \in [Dirs -> File]
  /\ cwd \in Dirs
  /\ zip \in Archive
  /\ work \in [Threads -> Work]
  /\ landed \in [Dirs -> Values \cup {Nothing}]
  /\ tangled \in BOOLEAN

LoneResponseHasItsId == P!LoneResponseHasItsId
DumpIsNeverDisturbed == P!DumpIsNeverDisturbed

(* Whoever reads a file gets the last upload, whole, unless one to this    *)
(* very file is going on, has failed, or met another one (upload_file).    *)
LastUploadIsThere ==
  \A d \in Dirs : Writing(d) = {} /\ landed[d] # Nothing => disk[d] = Whole(landed[d])

(* The archive that GET /folder answers with is whole, and of the folder   *)
(* that was asked for, if no other folder was at the same time.            *)
LoneArchiveIsOfItsFolder ==
  \A t \in Threads :
     P!At(t, "sent") /\ t \in Zipping /\ ~work[t].shared =>
       work[t].body = Whole(work[t].asked)

(* As long as folders are asked for one after the other, the agent is back *)
(* in its own directory after each of them, also after those that fail:    *)
(* cmds/ and runcmd are found relative to it (io_utils.zip_file).          *)
AgentReturnsHome ==
  ~tangled /\ (\A t \in Zipping : work[t].pc \in {"enter", "send", "sent"}) => cwd = Home

---------------------------------------------------------------------------
(* "The content of the folder as zip archive" (rest/api/swagger.py, GET    *)
(* /folder) is what every 200 has.                                         *)
ArchiveIsOfItsFolder ==
  \A t \in Threads :
     P!At(t, "sent") /\ t \in Zipping => work[t].body = Whole(work[t].asked)

=============================================================================
