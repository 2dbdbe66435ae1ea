------------------------------- MODULE Files -------------------------------
(***************************************************************************)
(* File::create_file, create_path, delete_file, deleteEmptyDir and scanDir *)
(* of zltoolkit, one call of the system at a time: several threads make,   *)
(* look for and remove files and directories beneath a base directory,     *)
(* which is never empty.  A path is the sequence of names that leads to it.*)
(***************************************************************************)
EXTENDS Naturals, Sequences, TLC

CONSTANTS FileThreads,
          DirNames, FileNames,  \* the names of directories are not those of files
          Hidden,               \* names that begin with a dot
          MaxDepth, MaxCalls    \* bounds

VARIABLES disk,   \* the paths there are
          at,     \* what each thread is doing
          answer, \* of the call that has just ended
          lost,   \* files that were removed though nobody had asked for it
          calls

fileVars == <<disk, at, answer, lost, calls>>

Front(seq) == SubSeq(seq, 1, Len(seq) - 1)
Last(seq) == seq[Len(seq)]
IsPrefix(s, t) == Len(s) <= Len(t) /\ SubSeq(t, 1, Len(s)) = s

DirPaths  == UNION {[1..n -> DirNames] : n \in 1..MaxDepth}
FilePaths == {Append(d, f) : d \in DirPaths, f \in FileNames}
IsDir(path) == path \in DirPaths
Exists(path) == path = <<>> \/ path \in disk
Children(dir) == {p \in disk : Len(p) = Len(dir) + 1 /\ IsPrefix(dir, p)}
ParentDir(path) == Front(path)

Idle == [what |-> "idle"]
None == [what |-> "none"]
NoFile == "" \* of a path that ends in a slash

Init == /\ disk \in {d \in SUBSET (DirPaths \cup FilePaths) :
                        \A p \in d : Len(p) > 1 => ParentDir(p) \in d}
        /\ at = [t \in FileThreads |-> Idle]
        /\ answer = None /\ lost = {} /\ calls = 0

\* A call begins; it is crowded when another one is there at some time.
Call(t, record) ==
    LET others == {u \in FileThreads \ {t} : at[u].what # "idle"}
    IN  /\ at[t].what = "idle" /\ calls < MaxCalls /\ calls' = calls + 1
        /\ at' = [u \in FileThreads |->
                     IF u = t THEN [record EXCEPT !.crowded = (others # {})]
                     ELSE IF u \in others THEN [at[u] EXCEPT !.crowded = TRUE] ELSE at[u]]
        /\ answer' = None /\ UNCHANGED <<disk, lost>>

Goto(t, record) == at' = [at EXCEPT ![t] = record] /\ answer' = None
Return(t, ok) == /\ answer' = [ok |-> ok] @@ at[t]
                 /\ at' = [at EXCEPT ![t] = Idle]

\* Something new: deletions that are going on have not seen it.
Make(t, path, record) ==
    /\ disk' = disk \cup {path}
    /\ at' = [u \in FileThreads |->
                 IF u = t THEN record
                 ELSE IF at[u].what = "delete" THEN [at[u] EXCEPT !.fresh = @ \cup {path}]
                 ELSE at[u]]

-----------------------------------------------------------------------------
\* create_path(dir) and, with a file's name, create_file(dir/file)
Create(t, dir, file) ==
    Call(t, [what |-> "create", crowded |-> FALSE, dir |-> dir, file |-> file, index |-> 1,
             missing |-> FALSE])

Access(t) ==
    LET c == at[t] IN
    /\ c.what = "create" /\ ~c.missing /\ c.index <= Len(c.dir)
    /\ Goto(t, IF Exists(SubSeq(c.dir, 1, c.index)) THEN [c EXCEPT !.index = @ + 1]
               ELSE [c EXCEPT !.missing = TRUE])
    /\ UNCHANGED <<disk, lost, calls>>

\* mkdir fails where there is something by now, or no parent any more.
Mkdir(t) ==
    LET c == at[t]
        dir == SubSeq(c.dir, 1, c.index)
    IN  /\ c.what = "create" /\ c.missing
        /\ IF Exists(ParentDir(dir)) /\ ~Exists(dir)
           THEN /\ Make(t, dir, [c EXCEPT !.missing = FALSE, !.index = @ + 1])
                /\ answer' = None
           ELSE Return(t, FALSE) /\ UNCHANGED disk
        /\ UNCHANGED <<lost, calls>>

Fopen(t) ==
    LET c == at[t] IN
    /\ c.what = "create" /\ ~c.missing /\ c.index > Len(c.dir)
    /\ \/ c.file = NoFile /\ Return(t, TRUE) /\ UNCHANGED disk
       \/ c.file # NoFile /\ ~Exists(c.dir) /\ Return(t, FALSE) /\ UNCHANGED disk
       \/ /\ c.file # NoFile /\ Exists(c.dir)
          /\ Make(t, Append(c.dir, c.file), Idle) /\ answer' = [ok |-> TRUE] @@ c
    /\ UNCHANGED <<lost, calls>>

-----------------------------------------------------------------------------
\* delete_file(path, del_empty_dir, backtrace).  stack holds the directories that are
\* being read, target what delete_file_l is to remove, or the directory that
\* deleteEmptyDir is to look at.
DeleteFile(t, path, del, back) ==
    Call(t, [what |-> "delete", crowded |-> FALSE, path |-> path, there |-> Exists(path),
             del |-> del, back |-> back, do |-> "remove", target |-> path, asked |-> TRUE,
             stack |-> <<>>, fresh |-> {}])

Frame(dir) == [dir |-> dir, must |-> Children(dir), listed |-> {}]

\* A file is removed, by a deletion that was asked for or by one of an empty directory.
RemoveFile(t, file) ==
    /\ disk' = disk \ {file}
    /\ lost' = IF at[t].asked \/ file \notin disk THEN lost
               ELSE lost \cup {[file |-> file, fresh |-> file \in at[t].fresh]}

\* What follows a delete_file_l: the parent is looked at.
Returned(t, d, ok) ==
    LET look == [d EXCEPT !.do = "look", !.target = ParentDir(@), !.asked = FALSE, !.stack = <<>>]
    IN  IF (d.asked /\ ~(ok /\ d.del)) \/ (~d.asked /\ ~d.back)
        THEN Return(t, ok \/ ~d.asked)
        ELSE Goto(t, look)

DeleteL(t) ==
    LET d == at[t] IN
    /\ d.what = "delete" /\ d.do = "remove" /\ d.stack = <<>>
    /\ IF IsDir(d.target) /\ Exists(d.target)
       THEN /\ Goto(t, [d EXCEPT !.stack = <<Frame(d.target)>>])
            /\ UNCHANGED <<disk, lost>>
       ELSE RemoveFile(t, d.target) /\ Returned(t, d, Exists(d.target))
    /\ UNCHANGED calls

\* readdir gives what was there when the directory was opened and still is, and
\* perhaps what came since.
ReadEntry(t) ==
    LET d == at[t]
        top == Last(d.stack)
        seen(p) == [top EXCEPT !.listed = @ \cup {p}]
    IN  /\ d.what = "delete" /\ d.stack # <<>>
        /\ \E p \in Children(top.dir) \ top.listed :
              IF IsDir(p)
              THEN /\ Goto(t, [d EXCEPT !.stack = Append(Front(@) \o <<seen(p)>>, Frame(p))])
                   /\ UNCHANGED <<disk, lost>>
              ELSE /\ RemoveFile(t, p)
                   /\ Goto(t, [d EXCEPT !.stack = Front(@) \o <<seen(p)>>])
        /\ UNCHANGED calls

\* rmdir fails if the directory is not empty, or not there any more.
Rmdir(t) ==
    LET d == at[t]
        top == Last(d.stack)
        ok == Exists(top.dir) /\ Children(top.dir) = {}
    IN  /\ d.what = "delete" /\ d.stack # <<>>
        /\ Children(top.dir) \cap top.must \subseteq top.listed
        /\ disk' = IF ok THEN disk \ {top.dir} ELSE disk
        /\ IF Len(d.stack) > 1 THEN Goto(t, [d EXCEPT !.stack = Front(@)])
           ELSE Returned(t, d, ok)
        /\ UNCHANGED <<lost, calls>>

\* mutant: the directory is not looked at
LookNot(t) ==
    LET d == at[t] IN
    /\ d.what = "delete" /\ d.do = "look"
    /\ IF d.target \notin disk THEN Return(t, TRUE)
       ELSE Goto(t, [d EXCEPT !.do = "remove", !.fresh = {}])
    /\ UNCHANGED <<disk, lost, calls>>

\* deleteEmptyDir: what is empty is removed by delete_file, with all that is in it then.
Look(t) ==
    LET d == at[t] IN
    /\ d.what = "delete" /\ d.do = "look"
    /\ IF d.target \notin disk \/ Children(d.target) # {} THEN Return(t, TRUE)
       ELSE Goto(t, [d EXCEPT !.do = "remove", !.fresh = {}])
    /\ UNCHANGED <<disk, lost, calls>>

-----------------------------------------------------------------------------
\* scanDir, with a callback that wants all there is.
ScanDir(t, dir, enter, hidden) ==
    Call(t, [what |-> "scan", crowded |-> FALSE, path |-> dir, enter |-> enter,
             hidden |-> hidden, seen |-> {},
             stack |-> IF Exists(dir) THEN <<Frame(dir)>> ELSE <<>>])

\* A directory beneath is scanned without hidden files, whatever was asked for.
ScanEntry(t) ==
    LET s == at[t]
        top == Last(s.stack)
        seen(p) == Front(s.stack) \o <<[top EXCEPT !.listed = @ \cup {p}]>>
    IN  /\ s.what = "scan" /\ s.stack # <<>>
        /\ \E p \in Children(top.dir) \ top.listed :
              IF Last(p) \in Hidden /\ ~(s.hidden /\ Len(s.stack) = 1)
              THEN Goto(t, [s EXCEPT !.stack = seen(p)])
              ELSE Goto(t, [s EXCEPT !.seen = @ \cup {p},
                                     !.stack = IF IsDir(p) /\ s.enter THEN Append(seen(p), Frame(p))
                                               ELSE seen(p)])
        /\ UNCHANGED <<disk, lost, calls>>

ScanEnds(t) ==
    LET s == at[t]
        top == Last(s.stack)
    IN  /\ s.what = "scan"
        /\ s.stack # <<>> => Children(top.dir) \cap top.must \subseteq top.listed
        /\ IF Len(s.stack) > 1 THEN Goto(t, [s EXCEPT !.stack = Front(@)]) ELSE Return(t, TRUE)
        /\ UNCHANGED <<disk, lost, calls>>

-----------------------------------------------------------------------------
Next == \E t \in FileThreads :
    \/ \E dir \in DirPaths, file \in FileNames \cup {NoFile} : Create(t, dir, file)
    \/ \E path \in DirPaths \cup FilePaths, del, back \in BOOLEAN : DeleteFile(t, path, del, back)
    \/ \E dir \in DirPaths, enter, hidden \in BOOLEAN : ScanDir(t, dir, enter, hidden)
    \/ ScanEntry(t) \/ ScanEnds(t)
    \/ Access(t) \/ Mkdir(t) \/ Fopen(t)
    \/ DeleteL(t) \/ ReadEntry(t) \/ Rmdir(t) \/ Look(t)

Spec == Init /\ [][Next]_fileVars

-----------------------------------------------------------------------------
\* A file goes only if it, or a directory above it, was given to delete_file, or if
\* it was made after deleteEmptyDir had found its directory empty.
NoFileLost == \A l \in lost : l.fresh

\* A call that no other one meets does what it says: creating leaves the path,
\* deleting leaves nothing of it and, if asked, no empty directory on the way up;
\* scanning sees what there is, hidden files only at the top.  Where calls meet, one
\* that creates may fail.
AnswersRight ==
    LET a == answer IN
    a.what # "none" /\ ~a.crowded =>
        /\ a.what = "create" =>
              a.ok /\ Exists(IF a.file = NoFile THEN a.dir ELSE Append(a.dir, a.file))
        /\ a.what = "delete" =>
              /\ a.ok = a.there
              /\ ~\E p \in disk : IsPrefix(a.path, p)
              /\ a.ok /\ a.del => \A n \in 1..(Len(a.path) - 1) :
                    LET dir == SubSeq(a.path, 1, n) IN
                    dir \in disk /\ (a.back \/ n = Len(a.path) - 1) => Children(dir) # {}
        /\ a.what = "scan" =>
              a.seen = {p \in disk :
                  LET n == Len(a.path) IN
                  /\ Len(p) > n /\ IsPrefix(a.path, p) /\ (a.enter \/ Len(p) = n + 1)
                  /\ \A i \in (n + 1)..Len(p) : p[i] \in Hidden => a.hidden /\ i = n + 1}
=============================================================================
