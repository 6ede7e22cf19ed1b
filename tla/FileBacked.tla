------------------------------ MODULE FileBacked ------------------------------
(***************************************************************************)
(* A parameter kept in a file: class FileBacked of tr/cwmptypes.py, with   *)
(* the WaitUntilIdle of tr/mainloop.py that delays its write, the watches  *)
(* of tr/filenotifier.py, and the writers of tr/helpers.py.                *)
(*                                                                         *)
(* An assignment writes filename.tmp, and the ioloop renames it to filename*)
(* when it is idle.  Other programs write the file too; inotify tells of   *)
(* every change, in a later callback.                                      *)
(*                                                                         *)
(* A definition marked "Mutation" is a plausible bug, used by no other     *)
(* definition.                                                             *)
(***************************************************************************)
EXTENDS Integers

CONSTANTS
  Values,         \* what may be assigned; "" is one of them
  Strip,          \* what a value is without the white space at its end
  Garbage,        \* contents that the validator of the parameter refuses
  DeleteIfEmpty,  \* delete_if_empty
  MaxForeign      \* bound: writes by other programs

Absent == "(absent)"    \* no such file
None   == "(none)"

Contents == Values \cup Garbage

\* What is assumed of the constants.
FileBackedAssumption ==
  /\ "" \in Values /\ Absent \notin Contents /\ None \notin Contents
  /\ Garbage \cap Values = {}
  /\ Strip \in [Values -> Values]
  /\ Strip[""] = ""
  /\ \A v \in Values : Strip[Strip[v]] = Strip[v]
  /\ DeleteIfEmpty \in BOOLEAN
  /\ MaxForeign \in Nat

VARIABLES
  file, tmp,    \* the contents of filename and of filename.tmp
  dir,          \* their directory exists
  cached,       \* the value in the instance's attribute
  watch,        \* it has a Watch
  timeouts,     \* WaitUntilIdle has a call of _ReallyWriteFile to make
  event,        \* inotify has an event for filename that was not read yet
  assigned,     \* observation only: the last value assigned, if no other
                \*   program wrote the file since
  seen,         \* observation only: the file when the callbacks were last called
  foreign       \* writes by other programs so far

disk   == <<file, tmp, dir>>
memory == <<cached, watch, timeouts, event>>
vars   == <<file, tmp, dir, cached, watch, timeouts, event, assigned, seen, foreign>>

Init ==
  /\ file = Absent /\ tmp = Absent /\ dir = FALSE
  /\ cached = None /\ watch = FALSE /\ timeouts = FALSE /\ event = FALSE
  /\ assigned = None /\ seen = Absent
  /\ foreign = 0

\* What a read of the parameter returns.
ValueOf(content) ==
  IF content = Absent THEN None
  ELSE IF content \in Garbage THEN "" ELSE Strip[content]

\* None and the empty string are the same value.
SameValue(v, w) == v = w \/ {v, w} \subseteq {None, ""}

\* The watch is registered by the first access that finds the directory.
RegisterNotifier == watch' = (watch \/ dir)

\* A read calls the callbacks itself when it finds a new value.
Get ==
  /\ RegisterNotifier
  /\ LET v   == ValueOf(file)
         new == file # Absent /\ ~SameValue(v, cached)
     IN  /\ cached' = IF new THEN v ELSE cached
         /\ seen'   = IF new \/ watch # watch' THEN file ELSE seen
  /\ UNCHANGED <<disk, timeouts, event, assigned, foreign>>

\* Mutation: nothing is left of a temporary file when the value is empty.
KeepTmp(v) == IF v = "" THEN tmp ELSE Strip[v]

\* What _WriteFile leaves of filename.tmp.
Written(v) == IF v = "" THEN (IF DeleteIfEmpty THEN Absent ELSE "") ELSE Strip[v]

\* The value is cached before the write, which raises if there is no directory.
Set(v) ==
  /\ RegisterNotifier
  /\ cached' = v
  /\ seen' = IF dir THEN file ELSE seen
  /\ IF dir
     THEN /\ tmp' = Written(v)
          /\ timeouts' = TRUE
          /\ assigned' = v
     ELSE UNCHANGED <<tmp, timeouts, assigned>>
  /\ UNCHANGED <<file, dir, event, foreign>>

\* Mutation: nothing is done when there is no temporary file.
IgnoreMissing == /\ file' = IF tmp # Absent THEN tmp ELSE file
                 /\ tmp' = Absent

\* The rename fails if the value was to be deleted: then filename is removed.
RenameOrUnlink == file' = tmp /\ tmp' = Absent

\* The timeout of WaitUntilIdle: one call, however often it was scheduled.
ReallyWriteFile ==
  /\ timeouts
  /\ timeouts' = FALSE
  /\ RenameOrUnlink
  /\ event' = (event \/ (watch /\ (file # Absent \/ file' # Absent)))
  /\ UNCHANGED <<dir, cached, watch, assigned, seen, foreign>>

\* Mutation: a notification is dropped while a write is waiting.
DropWhileWaiting == seen' = IF timeouts THEN seen ELSE file

CallCallbacks == seen' = file

\* FileNotifier._Notified
Notified ==
  /\ event
  /\ event' = FALSE
  /\ CallCallbacks
  /\ UNCHANGED <<disk, cached, watch, timeouts, assigned, foreign>>

\* Another program creates the directory, or writes or removes the file.
MakeDirectory ==
  /\ ~dir
  /\ dir' = TRUE
  /\ UNCHANGED <<file, tmp, memory, assigned, seen, foreign>>

ForeignWrite(content) ==
  /\ dir /\ content # file
  /\ foreign < MaxForeign
  /\ foreign' = foreign + 1
  /\ file' = content
  /\ event' = watch
  /\ assigned' = None
  /\ UNCHANGED <<tmp, dir, cached, watch, timeouts, seen>>

\* The process dies and starts again: the files stay, filename.tmp too.
Restart ==
  /\ cached' = None /\ watch' = FALSE /\ timeouts' = FALSE /\ event' = FALSE
  /\ assigned' = None
  /\ UNCHANGED <<disk, seen, foreign>>

Next ==
  \/ Get
  \/ \E v \in Values : Set(v)
  \/ ReallyWriteFile
  \/ Notified
  \/ MakeDirectory
  \/ \E content \in Contents \cup {Absent} : ForeignWrite(content)
  \/ Restart

Spec == Init /\ [][Next]_vars

-----------------------------------------------------------------------------
(* Properties *)

TypeOK ==
  /\ file \in Contents \cup {Absent} /\ tmp \in Values \cup {Absent} /\ dir \in BOOLEAN
  /\ cached \in Values \cup {None}
  /\ watch \in BOOLEAN /\ timeouts \in BOOLEAN /\ event \in BOOLEAN
  /\ assigned \in Values \cup {None}
  /\ seen \in Contents \cup {Absent}
  /\ foreign \in 0..MaxForeign

\* When the ioloop has become idle the file holds the value assigned last,
\* whatever was assigned, read or left behind by an earlier process before.
WritesLand ==
  ~timeouts /\ assigned # None => SameValue(ValueOf(file), Strip[assigned])

\* Whoever watches the parameter has been called after the last change of the
\* file, or will be: no change is missed between a write and its notification.
ChangesNoticed == watch /\ ~event => seen = file
=============================================================================
