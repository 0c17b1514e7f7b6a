------------------------------ MODULE TableLock ------------------------------
(***************************************************************************)
(* The lock file of a table, src/src/table.cpp 1676-1740: lock() and       *)
(* unlock() rewrite table.lock, is_locked() and drop_table() look into it. *)
(* Nothing looks before it writes: a lock() or unlock() writes over the    *)
(* lock of another process.  The table is followed from its creation until *)
(* it is dropped, which is one step.                                       *)
(***************************************************************************)
CONSTANTS
    Lockers,    \* processes that call lock() and unlock() on their Table
    Droppers,   \* processes that call drop_table()
    Forces      \* the values they pass for its argument force

ASSUME LockAssumption ==
    Lockers \cap Droppers = {} /\ Forces \subseteq BOOLEAN /\ "nobody" \notin Lockers

VARIABLES
    tableExists,\* the table directory
    lockFile,   \* table.lock: missing, empty or what lock() wrote
    mode,       \* lock_mode of each Table; "closed" when there is none
    held,       \* Impl::locked and Impl::write_locked
    lockPc,     \* the call a process has begun
    author,     \* who wrote table.lock last; "nobody" when it has stopped since
    locksAtCheck   \* the locks held when drop_table() looked, and the author then

lockVars == <<tableExists, lockFile, mode, held, lockPc, author, locksAtCheck>>

LockProcess == Lockers \cup Droppers
Modes == {"NoLock", "AutoLock", "PermanentLock", "UserLock"}
Held == {"no", "read", "write"}

LockTypeOK ==
    /\ tableExists \in BOOLEAN
    /\ lockFile \in {"none", "empty", "read", "write"}
    /\ mode \in [Lockers -> Modes \cup {"closed"}]
    /\ held \in [Lockers -> Held]
    /\ lockPc \in [LockProcess -> {"idle", "read", "write", "unlock", "remove"}]
    /\ author \in Lockers \cup {"nobody"}
    /\ locksAtCheck \in [Droppers -> SUBSET (Lockers \X (Lockers \cup {"nobody"}))]

LockInit ==
    /\ tableExists = TRUE
    /\ lockFile = "none"
    /\ mode = [h \in Lockers |-> "closed"]
    /\ held = [h \in Lockers |-> "no"]
    /\ lockPc = [h \in LockProcess |-> "idle"]
    /\ author = "nobody"
    /\ locksAtCheck = [d \in Droppers |-> {}]

----------------------------------------------------------------------------
is_locked == lockFile \in {"read", "write"}
has_lock(h) == held[h] # "no"

\* Tables that hold a lock and are not in the middle of a call.
Locking == {h \in Lockers : has_lock(h) /\ lockPc[h] = "idle"}

\* Opening a table sets no lock mode and takes no lock.
OpenTable(h) ==
    /\ mode[h] = "closed" /\ tableExists
    /\ mode' = [mode EXCEPT ![h] = "NoLock"]
    /\ UNCHANGED <<tableExists, lockFile, held, lockPc, author, locksAtCheck>>

set_lock_mode(h, m) ==
    /\ mode[h] # "closed" /\ lockPc[h] = "idle"
    /\ mode' = [mode EXCEPT ![h] = m]
    /\ UNCHANGED <<tableExists, lockFile, held, lockPc, author, locksAtCheck>>

\* lock(): the file is truncated, then written, then the Table takes note; it
\* throws when the directory is gone.
LockBegin(h, kind) ==
    /\ mode[h] # "closed" /\ lockPc[h] = "idle" /\ tableExists
    /\ lockFile' = "empty"
    /\ author' = h
    /\ lockPc' = [lockPc EXCEPT ![h] = kind]
    /\ UNCHANGED <<tableExists, mode, held, locksAtCheck>>

LockEnd(h) ==
    /\ lockPc[h] \in {"read", "write"}
    /\ lockFile' = IF tableExists THEN lockPc[h] ELSE "none"
    /\ author' = h
    /\ held' = [held EXCEPT ![h] = lockPc[h]]
    /\ lockPc' = [lockPc EXCEPT ![h] = "idle"]
    /\ UNCHANGED <<tableExists, mode, locksAtCheck>>

\* unlock(): the file is emptied whoever wrote it; the Table takes note.
UnlockBegin(h) ==
    /\ mode[h] # "closed" /\ lockPc[h] = "idle"
    /\ lockFile' = IF tableExists THEN "empty" ELSE "none"
    /\ author' = h
    /\ lockPc' = [lockPc EXCEPT ![h] = "unlock"]
    /\ UNCHANGED <<tableExists, mode, held, locksAtCheck>>

\* Mutant: only the write flag is reset.
UnlockEndWriteOnly(h) ==
    /\ lockPc[h] = "unlock"
    /\ held' = [held EXCEPT ![h] = IF @ = "write" THEN "no" ELSE @]
    /\ lockPc' = [lockPc EXCEPT ![h] = "idle"]
    /\ UNCHANGED <<tableExists, lockFile, mode, author, locksAtCheck>>

UnlockEnd(h) ==
    /\ lockPc[h] = "unlock"
    /\ held' = [held EXCEPT ![h] = "no"]
    /\ lockPc' = [lockPc EXCEPT ![h] = "idle"]
    /\ UNCHANGED <<tableExists, lockFile, mode, author, locksAtCheck>>

\* The Table goes, or its process: table.lock stays as it is.
Stop(h) ==
    /\ mode[h] # "closed"
    /\ mode' = [mode EXCEPT ![h] = "closed"]
    /\ held' = [held EXCEPT ![h] = "no"]
    /\ lockPc' = [lockPc EXCEPT ![h] = "idle"]
    /\ author' = IF author = h THEN "nobody" ELSE author
    /\ UNCHANGED <<tableExists, lockFile, locksAtCheck>>

\* drop_table(): look into the lock file unless forced, then remove.
DropCheck(d, force) ==
    /\ lockPc[d] = "idle" /\ tableExists
    /\ ~force => ~is_locked
    /\ lockPc' = [lockPc EXCEPT ![d] = "remove"]
    /\ locksAtCheck' = [locksAtCheck EXCEPT ![d] =
                            IF force THEN {} ELSE Locking \X {author}]
    /\ UNCHANGED <<tableExists, lockFile, mode, held, author>>

DropRemove(d) ==
    /\ lockPc[d] = "remove"
    /\ tableExists' = FALSE
    /\ lockFile' = "none"
    /\ lockPc' = [lockPc EXCEPT ![d] = "idle"]
    /\ locksAtCheck' = [locksAtCheck EXCEPT ![d] = {}]
    /\ UNCHANGED <<mode, held, author>>

LockNext ==
    \/ \E h \in Lockers :
        \/ OpenTable(h)
        \/ \E m \in Modes : set_lock_mode(h, m)
        \/ \E kind \in {"read", "write"} : LockBegin(h, kind)
        \/ LockEnd(h) \/ UnlockBegin(h) \/ UnlockEnd(h) \/ Stop(h)
    \/ \E d \in Droppers :
        \/ \E force \in Forces : DropCheck(d, force)
        \/ DropRemove(d)

LockSpec == LockInit /\ [][LockNext]_lockVars

----------------------------------------------------------------------------
\* "Check if the table's lock file indicates it is locked (by any process)": of
\* the process that wrote the lock file last, and is between its calls, the file
\* tells whether its Table holds a lock and which; no other write, begun earlier
\* and done later, has left another text there.  So a lock that does not show was
\* written over by a call of another process, and so was each lock that an unforced
\* drop_table() did not see when it went on to remove the table.
HeldLockShows ==
    /\ \A h \in Lockers :
          tableExists /\ author = h /\ lockPc[h] = "idle" =>
              lockFile = IF has_lock(h) THEN held[h] ELSE "empty"
    /\ \A d \in Droppers : \A lock \in locksAtCheck[d] : lock[1] # lock[2]

\* drop_table(), "throws if the table is locked (unless force is true)": it does
\* not go on to remove a table on which a Table holds a lock.
LockedTableStays == \A d \in Droppers : locksAtCheck[d] = {}
=============================================================================
