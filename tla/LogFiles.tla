------------------------------ MODULE LogFiles ------------------------------
(***************************************************************************)
(* The log files of the management server:                                 *)
(* management_server/src/management_server/logging.                        *)
(*                                                                         *)
(* Every entry goes to two files of its day, one to be read and one of     *)
(* JSON lines.  Files of earlier days are compressed, files that are old   *)
(* are deleted, and so are the oldest compressed ones if all of them       *)
(* together are too large.  All worker processes share the directory.      *)
(*                                                                         *)
(* One category stands for the nine.  rotate_all looks for files without a *)
(* date, which nothing writes, and does nothing.  Time is counted in days; *)
(* a file has the size of its entries, a compressed one is of size 1.      *)
(***************************************************************************)
EXTENDS Naturals, FiniteSets

CONSTANTS Entries,        \* the log entries
          Compressors,    \* the runs of compress_all, of whatever process
          LastDay,        \* bound on the days
          RETENTION_DAYS, \* how long files are kept
          MAX_TOTAL,      \* how large they may become
          NoLogFile       \* no file

Extensions == {"log", "jsonl"}
LogFile == (0 .. LastDay) \X Extensions

ASSUME LogFilesAssumption ==
    /\ NoLogFile \notin LogFile
    /\ IsFiniteSet(Entries)
    /\ LastDay \in Nat /\ RETENTION_DAYS \in Nat /\ MAX_TOTAL \in Nat

VARIABLES
    today,     \* the day
    plain,     \* plain[f]: the file f, as [there, entries, mtime]
    gz,        \* gz[f]: the compressed one; whole is FALSE while it is being written
    packer,    \* packer[c]: where compress_file of run c is, with the file it has open
    enforced,  \* {} unless enforce() was what happened last, then {what it could not delete}
    \* History, read by the properties only:
    sent,      \* sent[f]: the entries that f was to have and has got
    expired,   \* the files that enforce() deleted
    contended  \* the files that two runs had open at a time

logVars == <<today, plain, gz, packer, enforced, sent, expired, contended>>

NoFile == [there |-> FALSE, entries |-> {}, mtime |-> 0]
NoGz == [there |-> FALSE, whole |-> FALSE, entries |-> {}, mtime |-> 0]
IdlePacker == [pc |-> "idle", file |-> NoLogFile, entries |-> {}]
FailedPacker == [IdlePacker EXCEPT !.pc = "failed"]

LogFilesInit ==
    /\ today = 0
    /\ plain = [f \in LogFile |-> NoFile]
    /\ gz = [f \in LogFile |-> NoGz]
    /\ packer = [c \in Compressors |-> IdlePacker]
    /\ enforced = {}
    /\ sent = [f \in LogFile |-> {}]
    /\ expired = {} /\ contended = {}

Put(f, e) ==
    [plain EXCEPT ![f] = [there |-> TRUE, entries |-> @.entries \cup {e}, mtime |-> today]]

\* write: both files, or only the first when the second cannot be opened.
WriteEntry(e) ==
    LET fs == {<<today, x>> : x \in Extensions}
    IN  /\ \A f \in LogFile : e \notin sent[f]
        /\ \E done \in {fs, {<<today, "log">>}} :
            /\ plain' = [f \in LogFile |-> IF f \in done THEN Put(f, e)[f] ELSE plain[f]]
            /\ sent' = [f \in LogFile |-> IF f \in done THEN sent[f] \cup {e} ELSE sent[f]]
        /\ enforced' = {}
        /\ UNCHANGED <<today, gz, packer, expired, contended>>

Midnight == /\ today < LastDay
            /\ today' = today + 1 /\ enforced' = {}
            /\ UNCHANGED <<plain, gz, packer, sent, expired, contended>>

-----------------------------------------------------------------------------
(* LogCompressor *)

OlderThan(mtime, days) == mtime + days < today

\* compress_all takes up a file of an earlier day that has no compressed one; compress_file has
\* it open and has made the new one, empty.
NotPackedYet(f) == ~gz[f].there
Compress(c, f) ==
    /\ packer[c].pc = "idle"
    /\ plain[f].there /\ OlderThan(plain[f].mtime, 1) /\ NotPackedYet(f)
    /\ packer' = [packer EXCEPT ![c] = [pc |-> "open", file |-> f, entries |-> plain[f].entries]]
    /\ enforced' = {}
    /\ UNCHANGED <<today, plain, gz, sent, expired, contended>>

OpenBy(f) == {c \in Compressors : packer[c].pc \in {"open", "copy", "unlink"} /\ packer[c].file = f}

\* The file may be gone since it was listed; otherwise its compressed one is cut to nothing.
CreateArchive(c) ==
    LET f == packer[c].file
    IN  /\ packer[c].pc = "open"
        /\ IF plain[f].there
           THEN /\ gz' = [gz EXCEPT ![f] = [NoGz EXCEPT !.there = TRUE, !.mtime = today]]
                /\ packer' = [packer EXCEPT ![c].pc = "copy"]
           ELSE packer' = [packer EXCEPT ![c] = FailedPacker] /\ UNCHANGED gz
        /\ contended' = IF OpenBy(f) # {c} THEN contended \cup {f} ELSE contended
        /\ enforced' = {}
        /\ UNCHANGED <<today, plain, sent, expired>>

Copy(c) ==
    LET f == packer[c].file
    IN  /\ packer[c].pc = "copy"
        /\ gz' = IF ~gz[f].there THEN gz
                 ELSE [gz EXCEPT ![f] = [there |-> TRUE, whole |-> TRUE, mtime |-> today,
                                         entries |-> packer[c].entries]]
        /\ packer' = [packer EXCEPT ![c].pc = "unlink"]
        /\ enforced' = {}
        /\ UNCHANGED <<today, plain, sent, expired, contended>>

Unlink(c) ==
    LET f == packer[c].file
    IN  /\ packer[c].pc = "unlink"
        /\ packer' = [packer EXCEPT ![c] =
               IF plain[f].there THEN IdlePacker ELSE FailedPacker]
        /\ plain' = [plain EXCEPT ![f] = NoFile]
        /\ enforced' = {}
        /\ UNCHANGED <<today, gz, sent, expired, contended>>

\* The disk is full, or the process ends.
PackerFails(c) ==
    /\ packer[c].pc \in {"open", "copy", "unlink"}
    /\ packer' = [packer EXCEPT ![c] = FailedPacker]
    /\ enforced' = {}
    /\ UNCHANGED <<today, plain, gz, sent, expired, contended>>

-----------------------------------------------------------------------------
(* RetentionManager *)

Plain == {f \in LogFile : plain[f].there}
Zipped == {f \in LogFile : gz[f].there}

Held(plains) == {x \in plains \X Entries : x[2] \in plain[x[1]].entries}
Size(plains, zips) == Cardinality(Held(plains)) + Cardinality(zips)

\* _remove_oldest: in the order of their age, up to the target.
Oldest(zips, target) ==
    {s \in SUBSET zips : /\ \A f \in s, g \in zips \ s : gz[f].mtime <= gz[g].mtime
                         /\ \/ Cardinality(s) = target
                            \/ s = zips /\ Cardinality(s) <= target}

\* What is removed on top: as much as the limit is exceeded by, and once more as was deleted.
TargetOfExcess(excess, deleted) == deleted
RetentionTarget(excess, deleted) == deleted + excess

\* What enforce() takes for expired: files of today by name stay, the others go by the time they
\* were last written.
Expired == {f \in Plain : f[1] # today /\ OlderThan(plain[f].mtime, RETENTION_DAYS)}
ZippedExpired == {f \in Zipped : f[1] # today /\ OlderThan(gz[f].mtime, RETENTION_DAYS)}

\* The files of ps and the compressed ones of zs are deleted.
Delete(ps, zs) ==
    /\ plain' = [f \in LogFile |-> IF f \in ps THEN NoFile ELSE plain[f]]
    /\ gz' = [f \in LogFile |-> IF f \in zs THEN NoGz ELSE gz[f]]
    /\ expired' = expired \cup ps \cup zs
    /\ UNCHANGED <<today, packer, sent, contended>>

\* enforce: the size of a file counts as deleted before unlink() is called; of the expired ones
\* kept and zkept stay, for it raises an OSError, and of what _remove_oldest chose, stay.
Enforce ==
    LET total  == Size(Plain \ Expired, Zipped \ ZippedExpired)
        target == IF total > MAX_TOTAL
                  THEN RetentionTarget(total - MAX_TOTAL, Size(Expired, ZippedExpired)) ELSE 0
    IN  \E kept \in SUBSET Expired, zkept \in SUBSET ZippedExpired :
        \E more \in Oldest(Zipped \ (ZippedExpired \ zkept), target) :
        \E stay \in SUBSET more :
            /\ Delete(Expired \ kept, (ZippedExpired \ zkept) \cup (more \ stay))
            /\ enforced' = {[plain |-> kept, zips |-> (zkept \ more) \cup stay]}

\* Between its listing and stat() a file vanishes, by another process: the rest is not done.
EnforceFails ==
    \E ps \in SUBSET Expired, zs \in SUBSET ZippedExpired : Delete(ps, zs) /\ enforced' = {}

LogFilesNext ==
    \/ \E e \in Entries : WriteEntry(e)
    \/ Midnight
    \/ \E c \in Compressors : \/ \E f \in LogFile : Compress(c, f)
                              \/ CreateArchive(c) \/ Copy(c) \/ Unlink(c) \/ PackerFails(c)
    \/ Enforce
    \/ EnforceFails

LogFilesSpec == LogFilesInit /\ [][LogFilesNext]_logVars

-----------------------------------------------------------------------------
LogFilesTypeOK ==
    /\ today \in 0 .. LastDay
    /\ \A f \in LogFile : plain[f].entries \subseteq Entries /\ gz[f].entries \subseteq Entries
    /\ \A c \in Compressors : packer[c].file \in LogFile \cup {NoLogFile}
    /\ expired \subseteq LogFile /\ contended \subseteq LogFile
    /\ enforced \subseteq [plain : SUBSET LogFile, zips : SUBSET LogFile]

\* No entry is lost before its time, however compression is cut short: of a file that was not
\* deleted for its age or size, all entries are in it or in its whole compressed form, unless
\* two runs of the compressor had it open at a time.
EntriesSurvive ==
    \A f \in LogFile \ (expired \cup contended) :
        sent[f] \subseteq plain[f].entries \cup (IF gz[f].whole THEN gz[f].entries ELSE {})

\* After enforce() everything together exceeds the limit by no more than the files it failed to
\* delete, or they are all the compressed files that are left.
StorageIsBounded ==
    \A left \in enforced : \/ Size(Plain, Zipped) <= MAX_TOTAL + Size(left.plain, left.zips)
                           \/ Zipped \subseteq left.zips

\* Together: maintenance removes what it must and nothing else.
LogsAreSound == EntriesSurvive /\ StorageIsBounded
=============================================================================
