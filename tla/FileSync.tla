------------------------------- MODULE FileSync -------------------------------
(***************************************************************************)
(* A file and the editor that shows it: stc::open and stc::visual load it, *)
(* wxID_SAVE and file_save write it, and on_idle calls file::check_sync,   *)
(* which compares two stats and loads the file again when another program  *)
(* has changed it.  What a load or a save has done to the editor is only   *)
(* finished by an event posted to it (file_action).                        *)
(*                                                                         *)
(* The other program acts between any two system calls of the editor: the  *)
(* two stats and the load of check_sync are three steps, a write and the   *)
(* stats after it two.  Texts are sequences of chunks; a modification time *)
(* is in seconds.  Edits in ex mode (see ExStream), hexmode and an undo    *)
(* back to the text that was saved are left out.                           *)
(***************************************************************************)
EXTENDS Integers, SequencesExt

CONSTANTS
  Paths,       \* the files
  Logs,        \* those with the extension .log
  Texts,       \* the texts that are typed, or written by another program
  AtFirst,     \* what the files hold in the beginning
  Nul,         \* the padding of a text that was read past its end
  NoText,
  LogMin,      \* a log that shows more than this is synced by appending
  MaxTime,     \* bound: the seconds
  MaxOutside,  \* bound: the acts of the other program
  MaxActs,     \* bound: the acts of the user
  MaxPosted    \* bound: the events that are pending

\* What texts are made of.
Chunk == UNION {Range(t) : t \in Texts}
Text == Seq(Chunk \cup {Nul})

ASSUME SyncAssumption ==
  /\ Texts \subseteq Seq(Chunk) /\ Nul \notin Chunk
  /\ Logs \subseteq Paths
  /\ AtFirst \in [Paths -> Texts]
  /\ NoText \notin Texts
  /\ MaxTime \in Nat \ {0} /\ MaxOutside \in Nat /\ MaxActs \in Nat
  /\ MaxPosted \in Nat /\ LogMin \in Nat

VARIABLES
  disk,      \* what is on disk: text, mtime, readonly, and whether it is there
  now,       \* the second it is
  path,      \* m_path
  path_stat, \* m_path.m_stat
  stat,      \* m_stat
  text,      \* the text of the editor
  modified,  \* stc::IsModified
  readonly,  \* stc::GetReadOnly
  previous,  \* m_previous_size
  visual,    \* stc::is_visual
  step,      \* what the main thread is in the middle of
  posted,    \* the events that are pending
  \* history
  owed,      \* what the user typed and neither saved nor gave up
  astray,    \* why the editor and the disk may have come apart
  outside, acts

shown == <<text, modified, readonly, previous>>
stats == <<path_stat, stat>>
bounds == <<now, outside, acts>>
vars == <<disk, path, stats, shown, visual, step, posted, owed,
          astray, bounds>>

Steps == {"ready", "load", "reload", "restat", "saved"}
Event == {"wxID_SAVE", "FILE_LOAD", "FILE_LOAD_SYNC", "FILE_SAVE"}
File == [there : BOOLEAN, text : Text, mtime : 0..MaxTime, readonly : BOOLEAN]
Stat == [ok : BOOLEAN, mtime : 0..MaxTime, size : Nat]
Why == {"raced", "same second", "failed", "refused", "unopened", "overlaid",
        "gone", "not there", "stale size", "undo emptied", "replaced log",
        "edited log", "locked log", "saved log"}

-----------------------------------------------------------------------------
(* System calls.                                                           *)

\* file_stat::sync: a stat that fails keeps what it knew.
Synced(st, p) ==
  IF disk[p].there
  THEN [ok |-> TRUE, mtime |-> disk[p].mtime, size |-> Len(disk[p].text)]
  ELSE [st EXCEPT !.ok = FALSE]

\* A text written from the start of a file that was not truncated.
Over(new, old) == new \o SubSeq(old, Len(new) + 1, Len(old))

\* file_stat::is_readonly asks access() at the time of the call.
IsReadonly(st, p) == st.ok /\ (~disk[p].there \/ disk[p].readonly)

\* fstream(path) opens a file for in and out, which truncates nothing;
\* write opens one that is not open for out, which truncates or creates it.
OpensBoth(p) == disk[p].there /\ ~disk[p].readonly
OpensOut(p) == ~disk[p].there \/ ~disk[p].readonly

\* file::write, of a file that may be open already.
Written(p, open) ==
  [there |-> TRUE, readonly |-> FALSE, mtime |-> now,
   text |-> IF open THEN Over(text, disk[p].text) ELSE text]

\* file::read: as many characters as the stat says there are.
Read(content, from, size) ==
  [i \in 1..(size - from) |->
     IF from + i <= Len(content) THEN content[from + i] ELSE Nul]

-----------------------------------------------------------------------------
Init ==
  /\ path \in Paths
  /\ visual \in BOOLEAN
  /\ \E r \in BOOLEAN :
       /\ disk = [p \in Paths |->
                    [there |-> TRUE, text |-> AtFirst[p], mtime |-> 0,
                     readonly |-> r /\ p = path]]
       /\ readonly = (r \/ ~visual)
  /\ text = IF visual THEN AtFirst[path] ELSE <<>>
  /\ previous = Len(AtFirst[path])
  /\ path_stat = [ok |-> TRUE, mtime |-> 0, size |-> previous]
  /\ stat = path_stat
  /\ now = 1
  /\ modified = FALSE
  /\ step = "ready"
  /\ posted = <<>>
  /\ owed = NoText
  /\ astray = {}
  /\ outside = 0
  /\ acts = 0

-----------------------------------------------------------------------------
(* Time, and the other program.                                            *)

Tick ==
  /\ now < MaxTime
  /\ now' = now + 1
  /\ UNCHANGED <<disk, path, stats, shown, visual, step, posted, owed, astray,
                 outside, acts>>

\* The other program acts on the file the editor has.
Outside(content) ==
  /\ outside < MaxOutside
  /\ outside' = outside + 1
  /\ disk' = [disk EXCEPT ![path] = content]
  /\ UNCHANGED <<path, stats, shown, visual, step, posted, owed, now, acts>>

WrittenOutside(t) ==
  /\ Outside([there |-> TRUE, text |-> t, mtime |-> now,
              readonly |-> disk[path].there /\ disk[path].readonly])
  /\ astray' = astray \cup
       {why \in Why :
          \/ why = "raced" /\ step # "ready"
          \/ why = "same second" /\ stat.mtime = now
          \/ why = "replaced log" /\ path \in Logs
             /\ ~IsPrefix(disk[path].text, t)}

Removed ==
  /\ disk[path].there
  /\ Outside([disk[path] EXCEPT !.there = FALSE])
  /\ UNCHANGED astray

\* A change of the mode does not change the modification time.
Chmod ==
  /\ disk[path].there
  /\ Outside([disk[path] EXCEPT !.readonly = ~@])
  /\ UNCHANGED astray

-----------------------------------------------------------------------------
(* The user saves and edits.                                               *)

Act == step = "ready" /\ acts < MaxActs /\ acts' = acts + 1

Type(t) ==
  /\ Act
  /\ visual /\ ~readonly /\ t # text
  /\ text' = t
  /\ modified' = TRUE
  /\ owed' = t
  /\ UNCHANGED <<disk, path, stats, readonly, previous, visual, step, posted,
                 astray, now, outside>>

SaveUnflagged ==
  /\ Act
  /\ visual
  /\ Len(posted) < MaxPosted
  /\ posted' = Append(posted, "wxID_SAVE")
  /\ modified' = FALSE
  /\ UNCHANGED <<disk, path, stats, text, readonly, previous, visual, step,
                 owed, astray, now, outside>>

\* The commands :w and ZZ, and auto_write when the text is modified.
Save ==
  /\ Act
  /\ visual
  /\ Len(posted) < MaxPosted
  /\ posted' = Append(posted, "wxID_SAVE")
  /\ UNCHANGED <<disk, path, stats, shown, visual, step, owed, astray, now,
                 outside>>

\* file_save: do_file_save, and the flag that is reset whatever came of it.
\* What the user typed stays owed when the write failed.
Saving(p, open, before) ==
  LET ok == open \/ OpensOut(p)
      to == Written(p, open)
  IN  /\ readonly' = TRUE
      /\ modified' = FALSE
      /\ disk' = IF ok THEN [disk EXCEPT ![p] = to] ELSE disk
      /\ owed' = IF ok THEN NoText ELSE owed
      /\ posted' = IF ok THEN Append(before, "FILE_SAVE") ELSE before
      /\ astray' = IF ~ok THEN astray \cup {"failed"}
                   ELSE IF to.text # text THEN {"overlaid"} ELSE {}

SaveNow ==
  /\ step = "ready"
  /\ posted # <<>> /\ Head(posted) = "wxID_SAVE"
  /\ Saving(path, FALSE, Tail(posted))
  /\ step' = "saved"
  /\ UNCHANGED <<path, stats, text, previous, visual, bounds>>

\* file_save(p): assign opens a file that exists for in and out.
SaveAs(p) ==
  /\ Act
  /\ visual /\ p # path
  /\ Len(posted) < MaxPosted
  /\ path' = p
  /\ path_stat' = Synced(path_stat, p)
  /\ stat' = Synced(stat, p)
  /\ Saving(p, OpensBoth(p), posted)
  /\ step' = "saved"
  /\ UNCHANGED <<text, previous, visual, now, outside>>

\* file_save ends with both stats.
Saved ==
  /\ step = "saved"
  /\ path_stat' = Synced(path_stat, path)
  /\ stat' = Synced(stat, path)
  /\ step' = "ready"
  /\ UNCHANGED <<disk, path, shown, visual, posted, owed, astray, bounds>>

-----------------------------------------------------------------------------
(* Loading: do_file_load, with the dialog that asks for the edits.         *)

Answers == IF modified THEN {"yes", "no", "cancel"} ELSE {"no"}

AppendsOpened(synced, size) ==
  path \in Logs /\ Len(text) > LogMin /\ previous < size

\* A log that has grown is appended to what is shown.
Appends(synced, size) ==
  synced /\ path \in Logs /\ Len(text) > LogMin /\ previous < size

Refused ==
  /\ astray' = astray \cup {"refused"}
  /\ UNCHANGED <<disk, path_stat, shown, posted, owed>>

\* After yes the text is written to m_fs, which is open for in and out, and
\* the stats are synced; then the file is read, as far as the stat says.
Loaded(synced, yes) ==
  LET wrote   == yes /\ OpensBoth(path)
      to      == IF wrote THEN Written(path, TRUE) ELSE disk[path]
      st      == IF yes THEN [ok |-> TRUE, mtime |-> to.mtime,
                              size |-> Len(to.text)]
                        ELSE path_stat
      append  == Appends(synced, st.size)
      locked  == readonly \/ yes
      failed  == yes /\ ~wrote
      mixed   == wrote /\ to.text # text
      event   == IF synced THEN "FILE_LOAD_SYNC" ELSE "FILE_LOAD"
  IN  /\ disk' = [disk EXCEPT ![path] = to]
      /\ path_stat' = st
      /\ text' = IF ~append THEN Read(to.text, 0, st.size)
                 ELSE IF locked THEN text
                 ELSE text \o Read(to.text, previous, st.size)
      /\ modified' = FALSE
      /\ readonly' = (append /\ locked)
      /\ previous' = st.size
      /\ posted' = Append(IF wrote THEN Append(posted, "FILE_SAVE") ELSE posted,
                        event)
      /\ owed' = IF failed THEN owed ELSE NoText
      /\ astray' =
           LET why == {w \in Why : \/ w = "failed" /\ failed
                                   \/ w = "overlaid" /\ mixed
                                   \/ w = "edited log" /\ append /\ modified
                                   \/ w = "locked log" /\ append /\ locked
                                   \/ w = "saved log" /\ append
                                      /\ previous # Len(text)
                                   \/ w = "stale size"
                                      /\ st.size # Len(to.text)}
           IN  IF why = {} /\ ~append THEN {} ELSE astray \cup why

Load(synced, answer) ==
  IF answer = "cancel" THEN Refused ELSE Loaded(synced, answer = "yes")

\* stc::open of another file: a path that has its stat, and is then assigned.
Open(p) ==
  /\ Act
  /\ visual /\ p # path
  /\ Len(posted) < MaxPosted
  /\ path' = p
  /\ path_stat' = Synced(path_stat, p)
  /\ step' = "load"
  /\ UNCHANGED <<disk, stat, shown, visual, posted, owed, astray, now,
                 outside>>

\* stc::visual: the path is assigned to itself, with the stat it has.
Visual ==
  /\ Act
  /\ Len(posted) < MaxPosted
  /\ visual' = TRUE
  /\ readonly' = FALSE
  /\ step' = "load"
  /\ UNCHANGED <<disk, path, stats, text, modified, previous, posted, owed,
                 astray, now, outside>>

\* file_load(path): a file that is not there leaves the path switched.
FileLoad ==
  /\ step = "load"
  /\ stat' = Synced(stat, path)
  /\ IF disk[path].there
     THEN \E answer \in Answers : Load(FALSE, answer)
     ELSE /\ astray' = astray \cup {"not there"}
          /\ UNCHANGED <<disk, path_stat, shown, posted, owed>>
  /\ step' = "ready"
  /\ UNCHANGED <<path, visual, bounds>>

-----------------------------------------------------------------------------
(* on_idle: check_sync.                                                    *)

NoticedSize(st) ==
  IF st.ok /\ st.size # stat.size THEN "reload" ELSE "ready"

\* What the first stat of check_sync leads to.
Noticed(st) ==
  IF ~st.ok THEN "ready"
  ELSE IF st.mtime # stat.mtime THEN "reload"
  ELSE IF IsReadonly(st, path) # IsReadonly(stat, path) THEN "restat"
  ELSE "ready"

\* A file that is gone is not looked at again.
CheckSync ==
  /\ step = "ready" /\ visual
  /\ path_stat.ok
  /\ Len(posted) < MaxPosted
  /\ path_stat' = Synced(path_stat, path)
  /\ step' = Noticed(Synced(path_stat, path))
  /\ astray' = astray \cup (IF disk[path].there THEN {} ELSE {"gone"})
  /\ UNCHANGED <<disk, path, stat, shown, visual, posted, owed, bounds>>

\* file_load(true) opens for in and out, and its result is not looked at.
Reload ==
  /\ step = "reload"
  /\ IF OpensBoth(path)
     THEN \E answer \in Answers :
            /\ Load(TRUE, answer)
            /\ stat' = IF answer = "yes" THEN path_stat' ELSE stat
     ELSE /\ astray' = astray \cup {"unopened"}
          /\ UNCHANGED <<disk, stats, shown, posted, owed>>
  /\ step' = "restat"
  /\ UNCHANGED <<path, visual, bounds>>

\* The second stat, and file_readonly_attribute_changed.
Restat ==
  /\ step = "restat"
  /\ stat' = Synced(stat, path)
  /\ readonly' = IsReadonly(path_stat, path)
  /\ step' = "ready"
  /\ UNCHANGED <<disk, path, path_stat, text, modified, previous, visual,
                 posted, owed, astray, bounds>>

-----------------------------------------------------------------------------
(* file_action.                                                            *)

\* EmptyUndoBuffer makes the text an unmodified one; inject sets readonly.
LoadEvent ==
  /\ Head(posted) \in {"FILE_LOAD", "FILE_LOAD_SYNC"}
  /\ modified' = FALSE
  /\ astray' = astray \cup (IF modified THEN {"undo emptied"} ELSE {})
  /\ readonly' = (readonly \/ (disk[path].there /\ IsReadonly(path_stat, path)))

SaveEvent ==
  /\ Head(posted) = "FILE_SAVE"
  /\ readonly' = IsReadonly(path_stat, path)
  /\ UNCHANGED <<modified, astray>>

FileAction ==
  /\ step = "ready"
  /\ posted # <<>>
  /\ LoadEvent \/ SaveEvent
  /\ posted' = Tail(posted)
  /\ UNCHANGED <<disk, path, stats, text, previous, visual, step, owed,
                 bounds>>

-----------------------------------------------------------------------------
Other == (\E t \in Texts : WrittenOutside(t)) \/ Removed \/ Chmod

User ==
  \/ \E t \in Texts : Type(t)
  \/ Save
  \/ Visual
  \/ \E p \in Paths : Open(p) \/ SaveAs(p)

\* The main thread: each of these is enabled until it is taken.
Editor == SaveNow \/ Saved \/ FileLoad \/ Reload \/ Restat \/ FileAction

Next == Tick \/ Other \/ User \/ Editor \/ CheckSync

\* The main thread handles what is posted and is idle now and then.
Spec == Init /\ [][Next]_vars /\ WF_vars(Editor) /\ WF_vars(CheckSync)

-----------------------------------------------------------------------------
TypeOK ==
  /\ disk \in [Paths -> File]
  /\ now \in 0..MaxTime
  /\ path \in Paths
  /\ path_stat \in Stat /\ stat \in Stat
  /\ text \in Text
  /\ modified \in BOOLEAN /\ readonly \in BOOLEAN /\ visual \in BOOLEAN
  /\ previous \in Nat
  /\ step \in Steps
  /\ posted \in Seq(Event)
  /\ owed \in Texts \cup {NoText}
  /\ astray \subseteq Why

\* A text that is shown as unmodified, and whose file has the time of the last
\* stat, is the text of that file, unless one of the causes listed in Why came
\* in between and nothing has been loaded or saved since (stc/file.cpp
\* is_contents_changed, file.cpp check_sync).
UnmodifiedIsOnDisk ==
  visual /\ step = "ready" /\ ~modified /\ astray = {} /\ disk[path].there
    /\ stat.mtime = disk[path].mtime
    => text = disk[path].text

\* What the user typed is in the editor, as a modified text, until it has been
\* written or given up by an answer; it is lost by one of the causes only.
EditsKept == owed # NoText /\ astray = {} => modified /\ text = owed

Newer == visual /\ step = "ready" /\ path_stat.ok /\ disk[path].there
         /\ disk[path].mtime # stat.mtime

\* A change by another program is shown in the end, whatever the user does
\* meanwhile, unless one of the causes came in between (file.h:13-14).
ChangeShown == Newer ~> (text = disk[path].text \/ astray # {})

=============================================================================
