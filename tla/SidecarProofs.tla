--------------------------- MODULE SidecarProofs ----------------------------
(* What holds of the lock and of the server for any number of processes,    *)
(* ports and calls, and of the stream for any number of writes, failures    *)
(* and frames.                                                              *)
EXTENDS SidecarServer, SidecarStream, TLAPS

Files == File \cup {Absent}
Trying == {"open", "read", "check", "compare", "unlink"}

LockTypes ==
    /\ file \in Files
    /\ pc \in [Pids -> Steps]
    /\ token \in [Pids -> Nat]
    /\ seen \in [Pids -> Files]
    /\ issued \in Nat
    /\ raced \in BOOLEAN

(* A token names one call of one process, and is not in any file before     *)
(* that call has created its own.                                           *)
TokensAreIssued ==
    /\ file.token \in 0..issued
    /\ \A p \in Pids : token[p] \in 0..issued /\ seen[p].token \in 0..issued
TokensAreApart == \A p, q \in Pids : p # q /\ token[p] > 0 => token[p] # token[q]
CallersHaveTokens == \A p \in Pids : pc[p] \in Trying \cup {"write", "owned", "remove"} => token[p] > 0
MadeBy(f) == f.token > 0 => \A p \in Pids : token[p] = f.token => p = f.pid
FilesNameTheirMaker == MadeBy(file) /\ \A q \in Pids : MadeBy(seen[q])
TriersHaveNoFile ==
    \A p \in Pids : pc[p] \in Trying =>
        file.token # token[p] /\ \A q \in Pids : seen[q].token # token[p]

(* The file a recovery is about to remove belongs to no holder: its maker   *)
(* was dead, and whoever has the pid now has another token.                 *)
RecoveredIsNobodys ==
    \A q \in Pids : pc[q] \in {"compare", "unlink"} =>
        \A p \in Holders : token[p] # seen[q].token

HolderHasFile == ~raced => \A p \in Holders : file.token = token[p]

LockInv == /\ LockTypes
           /\ TokensAreIssued /\ TokensAreApart /\ CallersHaveTokens
           /\ FilesNameTheirMaker /\ TriersHaveNoFile
           /\ RecoveredIsNobodys /\ HolderHasFile

LEMMA LockInvInit == LockInit => LockInv
<1> SUFFICES ASSUME LockInit PROVE LockInv
  OBVIOUS
<1>1. file.token = 0 /\ \A p \in Pids : token[p] = 0 /\ seen[p].token = 0 /\ pc[p] = "down"
  BY DEF LockInit, Absent
<1>2. LockTypes
  BY DEF LockInit, LockTypes, Files, Steps
<1>3. TokensAreIssued /\ TokensAreApart /\ FilesNameTheirMaker
  BY <1>1 DEF LockInit, TokensAreIssued, TokensAreApart, FilesNameTheirMaker, MadeBy
<1>4. Holders = {}
  BY <1>1 DEF Holders
<1>5. CallersHaveTokens /\ TriersHaveNoFile
  BY <1>1 DEF CallersHaveTokens, TriersHaveNoFile, Trying
<1>6. RecoveredIsNobodys /\ HolderHasFile
  BY <1>4 DEF RecoveredIsNobodys, HolderHasFile
<1> QED
  BY <1>2, <1>3, <1>5, <1>6 DEF LockInv

(* The step shape most actions have: one process moves its own step.        *)
LEMMA MoveKeepsTokens ==
  ASSUME LockInv, NEW p \in Pids, NEW step \in Steps,
         pc' = [pc EXCEPT ![p] = step],
         step \in Trying => pc[p] \in Trying,
         step \in {"write", "owned", "remove"} => pc[p] \in {"write", "owned", "remove"},
         step \in {"compare", "unlink"} => pc[p] \in {"compare", "unlink"},
         UNCHANGED <<file, token, seen, issued, raced>>
  PROVE  LockInv'
<1>1. LockTypes'
  BY DEF LockInv, LockTypes
<1>2. /\ TokensAreIssued' /\ TokensAreApart' /\ FilesNameTheirMaker'
  BY DEF LockInv, TokensAreIssued, TokensAreApart, FilesNameTheirMaker, MadeBy
<1>3. \A q \in Pids : pc'[q] = IF q = p THEN step ELSE pc[q]
  BY DEF LockInv, LockTypes
<1>4. CallersHaveTokens' /\ TriersHaveNoFile'
  BY <1>3 DEF LockInv, CallersHaveTokens, TriersHaveNoFile, Trying
<1>5. Holders' \subseteq Holders
  BY <1>3 DEF Holders
<1>6. RecoveredIsNobodys' /\ HolderHasFile'
  BY <1>3, <1>5 DEF LockInv, RecoveredIsNobodys, HolderHasFile
<1> QED
  BY <1>1, <1>2, <1>4, <1>6 DEF LockInv

LEMMA AcquireStep ==
  ASSUME LockInv, NEW p \in Pids, Acquire(p)
  PROVE  LockInv'
<1>1. /\ pc' = [pc EXCEPT ![p] = "open"]
      /\ token' = [token EXCEPT ![p] = issued + 1]
      /\ seen' = [seen EXCEPT ![p] = Absent]
      /\ issued' = issued + 1
      /\ UNCHANGED <<file, raced>>
      /\ pc[p] = "free"
  BY DEF Acquire
<1>2. LockTypes'
  BY <1>1 DEF LockInv, LockTypes, Steps, Files
<1>3. \A q \in Pids : /\ pc'[q] = IF q = p THEN "open" ELSE pc[q]
                      /\ token'[q] = IF q = p THEN issued + 1 ELSE token[q]
                      /\ q # p => seen'[q] = seen[q]
                      /\ seen'[p].token = 0
  BY <1>1 DEF LockInv, LockTypes, Absent
<1>4. issued \in Nat /\ file.token \in 0..issued
      /\ \A q \in Pids : token[q] \in 0..issued /\ seen[q].token \in 0..issued
  BY DEF LockInv, LockTypes, TokensAreIssued
<1>5. TokensAreIssued' /\ TokensAreApart'
  BY <1>1, <1>3, <1>4 DEF LockInv, TokensAreIssued, TokensAreApart
<1>6. CallersHaveTokens'
  BY <1>3, <1>4 DEF LockInv, CallersHaveTokens
<1>7. FilesNameTheirMaker'
  <2>1. MadeBy(file)'
    BY <1>1, <1>3, <1>4 DEF LockInv, FilesNameTheirMaker, MadeBy
  <2>2. ASSUME NEW q \in Pids PROVE MadeBy(seen[q])'
    BY <1>1, <1>3, <1>4 DEF LockInv, FilesNameTheirMaker, MadeBy
  <2> QED
    BY <2>1, <2>2 DEF FilesNameTheirMaker
<1>8. TriersHaveNoFile'
  BY <1>1, <1>3, <1>4 DEF LockInv, TriersHaveNoFile, Trying, CallersHaveTokens
<1>9. Holders' = Holders /\ p \notin Holders
  BY <1>1, <1>3 DEF Holders
<1>10. RecoveredIsNobodys' /\ HolderHasFile'
  BY <1>1, <1>3, <1>9 DEF LockInv, RecoveredIsNobodys, HolderHasFile, Holders
<1> QED
  BY <1>2, <1>5, <1>6, <1>7, <1>8, <1>10 DEF LockInv

LEMMA CreateStep ==
  ASSUME LockInv, NEW p \in Pids, pc[p] = "open", file = Absent,
         pc' = [pc EXCEPT ![p] = "write"],
         file' = [token |-> token[p], pid |-> p, written |-> FALSE],
         UNCHANGED <<token, seen, issued, raced>>
  PROVE  LockInv'
<1>1. file' \in File /\ file'.token = token[p] /\ file'.pid = p
  BY DEF LockInv, LockTypes, File
<1>2. LockTypes'
  BY <1>1 DEF LockInv, LockTypes, Steps, Files
<1>3. \A q \in Pids : pc'[q] = IF q = p THEN "write" ELSE pc[q]
  BY DEF LockInv, LockTypes
<1>4. token[p] > 0 /\ token[p] \in Nat /\ file.token = 0
  BY DEF LockInv, LockTypes, CallersHaveTokens, Trying, Absent
<1>5. TokensAreIssued' /\ TokensAreApart' /\ CallersHaveTokens'
  BY <1>1, <1>3, <1>4 DEF LockInv, TokensAreIssued, TokensAreApart, CallersHaveTokens
<1>6. FilesNameTheirMaker'
  BY <1>1, <1>4 DEF LockInv, FilesNameTheirMaker, MadeBy, TokensAreApart
<1>7. TriersHaveNoFile'
  BY <1>1, <1>3, <1>4 DEF LockInv, TriersHaveNoFile, Trying, TokensAreApart
<1>8. Holders' = Holders \cup {p}
  BY <1>3 DEF Holders
<1>9. RecoveredIsNobodys'
  BY <1>3, <1>8 DEF LockInv, RecoveredIsNobodys, TriersHaveNoFile, Trying
<1>10. HolderHasFile'
  <2>0. \A q \in Holders : token[q] > 0
    BY DEF LockInv, CallersHaveTokens, Holders
  <2>1. ~raced => Holders = {}
    BY <1>4, <2>0 DEF LockInv, HolderHasFile
  <2> QED
    BY <2>1, <1>1, <1>8 DEF HolderHasFile
<1> QED
  BY <1>2, <1>5, <1>6, <1>7, <1>9, <1>10 DEF LockInv

LEMMA WriteStep ==
  ASSUME LockInv, NEW p \in Pids, WriteOwner(p)
  PROVE  LockInv'
<1>1. /\ pc[p] = "write" /\ pc' = [pc EXCEPT ![p] = "owned"]
      /\ UNCHANGED <<token, seen, issued, raced>>
  BY DEF WriteOwner, Go
<1>2. token[p] > 0
  BY <1>1 DEF LockInv, CallersHaveTokens
<1>3. file' \in Files /\ file'.token = file.token /\ (file.token > 0 => file'.pid = file.pid)
  <2>1. CASE file.token = token[p]
    <3>1. file \in File
      BY <1>2, <2>1 DEF LockInv, LockTypes, Files, Absent
    <3>2. file' = [file EXCEPT !.written = TRUE]
      BY <2>1 DEF WriteOwner
    <3> QED
      BY <3>1, <3>2 DEF Files, File
  <2>2. CASE file.token # token[p]
    BY <2>2 DEF WriteOwner, LockInv, LockTypes
  <2> QED
    BY <2>1, <2>2
<1>4. LockTypes'
  BY <1>1, <1>3 DEF LockInv, LockTypes, Steps
<1>5. \A q \in Pids : pc'[q] = IF q = p THEN "owned" ELSE pc[q]
  BY <1>1 DEF LockInv, LockTypes
<1>6. TokensAreIssued' /\ TokensAreApart' /\ CallersHaveTokens'
  BY <1>1, <1>2, <1>3, <1>5 DEF LockInv, TokensAreIssued, TokensAreApart, CallersHaveTokens
<1>7. FilesNameTheirMaker'
  BY <1>1, <1>3 DEF LockInv, FilesNameTheirMaker, MadeBy
<1>8. TriersHaveNoFile'
  BY <1>1, <1>3, <1>5 DEF LockInv, TriersHaveNoFile, Trying
<1>9. Holders' = Holders
  BY <1>1, <1>5 DEF Holders
<1>10. RecoveredIsNobodys' /\ HolderHasFile'
  BY <1>1, <1>3, <1>5, <1>9 DEF LockInv, RecoveredIsNobodys, HolderHasFile
<1> QED
  BY <1>4, <1>6, <1>7, <1>8, <1>10 DEF LockInv

LEMMA ReadStep ==
  ASSUME LockInv, NEW p \in Pids, pc[p] = "read", file \in File,
         pc' = [pc EXCEPT ![p] = "check"],
         seen' = [seen EXCEPT ![p] = file],
         UNCHANGED <<file, token, issued, raced>>
  PROVE  LockInv'
<1>1. LockTypes'
  BY DEF LockInv, LockTypes, Steps, Files
<1>2. \A q \in Pids : /\ pc'[q] = IF q = p THEN "check" ELSE pc[q]
                      /\ seen'[q] = IF q = p THEN file ELSE seen[q]
  BY DEF LockInv, LockTypes
<1>3. TokensAreIssued' /\ TokensAreApart'
  BY <1>2 DEF LockInv, TokensAreIssued, TokensAreApart
<1>4. CallersHaveTokens'
  BY <1>2 DEF LockInv, CallersHaveTokens, Trying
<1>5. FilesNameTheirMaker'
  BY <1>2 DEF LockInv, FilesNameTheirMaker, MadeBy
<1>6. TriersHaveNoFile'
  BY <1>2 DEF LockInv, TriersHaveNoFile, Trying
<1>7. Holders' = Holders
  BY <1>2 DEF Holders
<1>8. RecoveredIsNobodys' /\ HolderHasFile'
  BY <1>2, <1>7 DEF LockInv, RecoveredIsNobodys, HolderHasFile
<1> QED
  BY <1>1, <1>3, <1>4, <1>5, <1>6, <1>8 DEF LockInv

(* The owner that the file names has no process: none of its calls goes on. *)
LEMMA DeadOwnerStep ==
  ASSUME LockInv, NEW p \in Pids, pc[p] = "check", ~Alive(seen[p].pid),
         pc' = [pc EXCEPT ![p] = "compare"],
         UNCHANGED <<file, token, seen, issued, raced>>
  PROVE  LockInv'
<1>1. LockTypes'
  BY DEF LockInv, LockTypes, Steps
<1>2. \A q \in Pids : pc'[q] = IF q = p THEN "compare" ELSE pc[q]
  BY DEF LockInv, LockTypes
<1>3. TokensAreIssued' /\ TokensAreApart' /\ FilesNameTheirMaker'
  BY DEF LockInv, TokensAreIssued, TokensAreApart, FilesNameTheirMaker, MadeBy
<1>4. CallersHaveTokens' /\ TriersHaveNoFile'
  BY <1>2 DEF LockInv, CallersHaveTokens, TriersHaveNoFile, Trying
<1>5. Holders' = Holders
  BY <1>2 DEF Holders
<1>6. ASSUME NEW q \in Holders PROVE token[q] # seen[p].token
  <2>1. token[q] > 0 /\ pc[q] # "down" /\ q \in Pids
    BY DEF LockInv, CallersHaveTokens, Holders
  <2>2. MadeBy(seen[p]) /\ pc[seen[p].pid] = "down"
    BY DEF LockInv, FilesNameTheirMaker, Alive
  <2> QED
    BY <2>1, <2>2 DEF MadeBy
<1>7. RecoveredIsNobodys' /\ HolderHasFile'
  BY <1>2, <1>5, <1>6 DEF LockInv, RecoveredIsNobodys, HolderHasFile
<1> QED
  BY <1>1, <1>3, <1>4, <1>7 DEF LockInv

(* A file is removed that is no holder's, unless the removal is a race.     *)
LEMMA RemovalStep ==
  ASSUME LockInv, NEW p \in Pids, NEW step \in {"open", "free"},
         pc[p] \in {"unlink", "remove"},
         step = "open" => pc[p] = "unlink",
         pc' = [pc EXCEPT ![p] = step],
         file' = Absent,
         raced' \in BOOLEAN, raced => raced',
         ~raced' => \A q \in Holders : q = p \/ token[q] # file.token,
         UNCHANGED <<token, seen, issued>>
  PROVE  LockInv'
<1>1. LockTypes'
  BY DEF LockInv, LockTypes, Steps, Files
<1>2. \A q \in Pids : pc'[q] = IF q = p THEN step ELSE pc[q]
  BY DEF LockInv, LockTypes
<1>3. file'.token = 0
  BY DEF Absent
<1>4. TokensAreIssued' /\ TokensAreApart'
  BY <1>3 DEF LockInv, LockTypes, TokensAreIssued, TokensAreApart
<1>5. FilesNameTheirMaker'
  BY <1>3 DEF LockInv, FilesNameTheirMaker, MadeBy
<1>6. CallersHaveTokens'
  BY <1>2 DEF LockInv, CallersHaveTokens, Trying
<1>7. TriersHaveNoFile'
  BY <1>2, <1>3, <1>6 DEF LockInv, LockTypes, TriersHaveNoFile, CallersHaveTokens, Trying
<1>8. Holders' = Holders \ {p}
  BY <1>2 DEF Holders
<1>9. RecoveredIsNobodys'
  BY <1>2, <1>8 DEF LockInv, RecoveredIsNobodys
<1>10. HolderHasFile'
  BY <1>8 DEF LockInv, HolderHasFile
<1> QED
  BY <1>1, <1>4, <1>5, <1>6, <1>7, <1>9, <1>10 DEF LockInv

LEMMA UnlinkStep ==
  ASSUME LockInv, NEW p \in Pids, Unlink(p)
  PROVE  LockInv'
<1>1. /\ pc[p] = "unlink" /\ file' = Absent
      /\ raced' = (raced \/ file \notin {Absent, seen[p]})
      /\ UNCHANGED <<token, seen, issued>>
  BY DEF Unlink
<1>2. PICK step \in {"open", "free"} : pc' = [pc EXCEPT ![p] = step]
  BY DEF Unlink, NextRound, Refuse
<1>3. raced' \in BOOLEAN /\ (raced => raced')
  BY <1>1 DEF LockInv, LockTypes
<1>4. \A q \in Holders : token[q] > 0 /\ token[q] # seen[p].token
  BY <1>1 DEF LockInv, CallersHaveTokens, RecoveredIsNobodys, Holders
<1>5. Absent.token = 0
  BY DEF Absent
<1>6. ASSUME ~raced', NEW q \in Holders PROVE token[q] # file.token
  <2>1. file = Absent \/ file = seen[p]
    BY <1>1, <1>6
  <2>2. token[q] > 0 /\ token[q] # seen[p].token
    BY <1>4
  <2> QED
    BY <2>1, <2>2, <1>5
<1>7. ~raced' => \A q \in Holders : q = p \/ token[q] # file.token
  BY <1>6
<1> QED
  BY <1>1, <1>2, <1>3, <1>7, RemovalStep

LEMMA RemoveStep ==
  ASSUME LockInv, NEW p \in Pids, Remove(p)
  PROVE  LockInv'
<1>1. /\ pc[p] = "remove" /\ file' = Absent /\ pc' = [pc EXCEPT ![p] = "free"]
      /\ UNCHANGED <<token, seen, issued, raced>>
  BY DEF Remove, Go
<1>2. raced' \in BOOLEAN
  BY <1>1 DEF LockInv, LockTypes
<1>3. p \in Holders /\ token[p] > 0
  BY <1>1 DEF LockInv, CallersHaveTokens, Holders
<1>4. ~raced => \A q \in Holders : q = p \/ token[q] # file.token
  BY <1>3 DEF LockInv, HolderHasFile, TokensAreApart, Holders
<1>5. (raced => raced') /\ (~raced' => \A q \in Holders : q = p \/ token[q] # file.token)
  BY <1>1, <1>4
<1>6. PICK step \in {"open", "free"} : step = "free"
  OBVIOUS
<1> QED
  BY <1>1, <1>2, <1>5, <1>6, RemovalStep

LEMMA LockStep ==
  ASSUME LockInv, [LockNext]_lockVars
  PROVE  LockInv'
<1>1. CASE UNCHANGED lockVars
  BY <1>1 DEF LockInv, LockTypes, TokensAreIssued, TokensAreApart, CallersHaveTokens, MadeBy,
              FilesNameTheirMaker, TriersHaveNoFile, RecoveredIsNobodys, HolderHasFile,
              Holders, lockVars
<1>2. SUFFICES ASSUME NEW p \in Pids,
                      Begin(p) \/ Calls(p) \/ Release(p) \/ Die(p)
               PROVE  LockInv'
  BY <1>1 DEF LockNext
<1>3. CASE Begin(p)
  <2>1. "free" \in Steps /\ pc' = [pc EXCEPT ![p] = "free"]
    BY <1>3 DEF Begin, Go, Steps
  <2> QED
    BY <1>3, <2>1, MoveKeepsTokens DEF Begin, Trying
<1>4. CASE Acquire(p)
  BY <1>4, AcquireStep
<1>5. CASE Open(p)
  <2>1. CASE file = Absent
    <3>1. Go(p, "write") /\ file' = [token |-> token[p], pid |-> p, written |-> FALSE]
      BY <1>5, <2>1 DEF Open
    <3> QED
      BY <1>5, <2>1, <3>1, CreateStep DEF Open, Go
  <2>2. CASE file # Absent
    <3>1. "read" \in Steps /\ pc' = [pc EXCEPT ![p] = "read"] /\ pc[p] = "open"
          /\ UNCHANGED <<file, token, seen, issued, raced>>
      BY <1>5, <2>2 DEF Open, Go, Steps
    <3> QED
      BY <3>1, MoveKeepsTokens DEF Trying
  <2> QED
    BY <2>1, <2>2
<1>6. CASE WriteOwner(p)
  BY <1>6, WriteStep
<1>7. CASE WriteFails(p)
  <2>1. "free" \in Steps /\ pc' = [pc EXCEPT ![p] = "free"]
        /\ UNCHANGED <<file, token, seen, issued, raced>>
    BY <1>7 DEF WriteFails, Refuse, Steps
  <2> QED
    BY <2>1, MoveKeepsTokens DEF Trying
<1>8. CASE ReadOwner(p)
  <2>1. CASE file.written /\ Go(p, "check") /\ seen' = [seen EXCEPT ![p] = file]
    <3>1. file \in File
      BY <2>1 DEF LockInv, LockTypes, Files, Absent
    <3> QED
      BY <1>8, <2>1, <3>1, ReadStep DEF ReadOwner, Go
  <2>2. CASE /\ UNCHANGED seen
             /\ Refuse(p, "gone") \/ Refuse(p, "unreadable")
    <3>1. "free" \in Steps /\ pc' = [pc EXCEPT ![p] = "free"]
          /\ UNCHANGED <<file, token, seen, issued, raced>>
      BY <1>8, <2>2 DEF ReadOwner, Refuse, Steps
    <3> QED
      BY <3>1, MoveKeepsTokens DEF Trying
  <2> QED
    BY <1>8, <2>1, <2>2 DEF ReadOwner
<1>9. CASE CheckOwner(p)
  <2>1. CASE Alive(seen[p].pid)
    <3>1. "free" \in Steps /\ pc' = [pc EXCEPT ![p] = "free"]
          /\ UNCHANGED <<file, token, seen, issued, raced>>
      BY <1>9, <2>1 DEF CheckOwner, Refuse, Steps
    <3> QED
      BY <3>1, MoveKeepsTokens DEF Trying
  <2>2. CASE ~Alive(seen[p].pid)
    BY <1>9, <2>2, DeadOwnerStep DEF CheckOwner, Go
  <2> QED
    BY <2>1, <2>2
<1>10. CASE Compare(p)
  <2>1. pc[p] = "compare" /\ UNCHANGED <<file, token, seen, issued, raced>>
    BY <1>10 DEF Compare
  <2>2. PICK step \in {"open", "free", "unlink"} : pc' = [pc EXCEPT ![p] = step]
    BY <1>10 DEF Compare, NextRound, Refuse, Go
  <2> QED
    BY <2>1, <2>2, MoveKeepsTokens DEF Trying, Steps
<1>11. CASE Unlink(p)
  BY <1>11, UnlinkStep
<1>12. CASE Remove(p)
  BY <1>12, RemoveStep
<1>13. CASE Release(p)
  <2>1. pc[p] = "owned" /\ UNCHANGED <<file, token, seen, issued, raced>>
    BY <1>13 DEF Release
  <2>2. PICK step \in {"remove", "free"} : pc' = [pc EXCEPT ![p] = step]
    BY <1>13 DEF Release, Go
  <2> QED
    BY <2>1, <2>2, MoveKeepsTokens DEF Trying, Steps
<1>14. CASE Die(p)
  <2>1. "down" \in Steps /\ pc' = [pc EXCEPT ![p] = "down"]
    BY <1>14 DEF Die, Go, Steps
  <2> QED
    BY <1>14, <2>1, MoveKeepsTokens DEF Die, Trying
<1> QED
  BY <1>2, <1>3, <1>4, <1>5, <1>6, <1>7, <1>8, <1>9, <1>10, <1>11, <1>12, <1>13, <1>14 DEF Calls

LEMMA OneHolder == LockInv => Exclusion
<1> SUFFICES ASSUME LockInv, ~raced, NEW p \in Holders, NEW q \in Holders PROVE p = q
  BY DEF Exclusion
<1>1. token[p] > 0 /\ p \in Pids /\ q \in Pids
  BY DEF LockInv, CallersHaveTokens, Holders
<1>2. token[p] = token[q]
  BY DEF LockInv, HolderHasFile
<1> QED
  BY <1>1, <1>2 DEF LockInv, TokensAreApart

(* Of the lock alone, for every user of it: at most one process holds it,   *)
(* unless a recovery has removed another file than the one it had read.     *)
THEOREM LockExcludes == LockSpec => []Exclusion
<1>1. LockSpec => []LockInv
  BY LockInvInit, LockStep, PTL DEF LockSpec
<1> QED
  BY <1>1, OneHolder, PTL

(* The server takes no step on the lock that the lock does not have.        *)
LEMMA ServerUsesLock == ServerSpec => LockSpec
<1>1. ServerInit => LockInit
  BY DEF ServerInit
<1>2. ASSUME [ServerNext]_lockedServerVars PROVE [LockNext]_lockVars
  <2>1. CASE UNCHANGED lockedServerVars
    BY <2>1 DEF lockedServerVars, lockVars
  <2>2. SUFFICES ASSUME NEW p \in Pids,
                        \/ UseLock(p) \/ Bind(p) \/ WriteEndpoint(p) \/ FailToStart(p)
                        \/ ReadEndpoint(p) \/ ClearEndpoint(p) \/ LetGo(p) \/ ServerCrash(p)
                 PROVE  [LockNext]_lockVars
    BY <1>2, <2>1 DEF ServerNext
  <2>3. CASE UseLock(p)
    BY <2>3 DEF UseLock, Calls, LockNext
  <2>4. CASE Bind(p) \/ WriteEndpoint(p) \/ FailToStart(p) \/ ReadEndpoint(p) \/ ClearEndpoint(p)
    BY <2>4 DEF Bind, WriteEndpoint, FailToStart, ReadEndpoint, ClearEndpoint, To
  <2>5. CASE LetGo(p) \/ ServerCrash(p)
    BY <2>5 DEF LetGo, ServerCrash, LockNext
  <2> QED
    BY <2>2, <2>3, <2>4, <2>5
<1> QED
  BY <1>1, <1>2, PTL DEF ServerSpec, LockSpec

-----------------------------------------------------------------------------
ServerTypes == /\ server \in [Pids -> {"none", "bound", "serving", "clearing", "closed"}]
               /\ port \in [Pids -> Ports]
ServersHold == \A p \in Pids : server[p] \in {"bound", "serving", "clearing"} => pc[p] = "owned"
ServerInv == LockInv /\ ServerTypes /\ ServersHold /\ EndpointNamesServer

LEMMA LockStepKeepsServer ==
  ASSUME ServerInv, NEW p \in Pids, UseLock(p)
  PROVE  (ServerTypes /\ ServersHold /\ EndpointNamesServer)'
<1>1. UNCHANGED <<endpoint, server, port>>
  BY DEF UseLock, serverVars
<1>2. pc[p] # "owned" \/ server[p] = "none"
  BY DEF UseLock, Begin, Remove
<1>3. \A q \in Pids : q # p => pc'[q] = pc[q]
  BY DEF UseLock, Begin, Calls, Acquire, Open, WriteOwner, WriteFails, ReadOwner, CheckOwner, Compare,
         Unlink, Remove, Go, Refuse, NextRound, ServerInv, LockInv, LockTypes
<1>4. raced => raced'
  BY DEF UseLock, Begin, Calls, Acquire, Open, WriteOwner, WriteFails, ReadOwner, CheckOwner, Compare,
         Unlink, Remove
<1> QED
  BY <1>1, <1>2, <1>3, <1>4 DEF ServerInv, ServerTypes, ServersHold, EndpointNamesServer, Endpoint

(* Only the holder of the lock has a server that serves.                    *)
LEMMA ServersExclude ==
  ASSUME ServerInv, ~raced, NEW p \in Pids, pc[p] = "owned",
         NEW q \in Pids, server[q] = "serving"
  PROVE  p = q
<1>1. p \in Holders /\ q \in Holders
  BY DEF ServerInv, ServersHold, Holders
<1> QED
  BY <1>1, OneHolder DEF ServerInv, Exclusion

LEMMA ServerStepKeepsServer ==
  ASSUME ServerInv, NEW p \in Pids,
         \/ Bind(p) \/ WriteEndpoint(p) \/ FailToStart(p)
         \/ ReadEndpoint(p) \/ ClearEndpoint(p)
  PROVE  (ServerTypes /\ ServersHold /\ EndpointNamesServer)'
<1>1. pc[p] = "owned" /\ UNCHANGED <<pc, raced>>
  BY DEF Bind, WriteEndpoint, FailToStart, ReadEndpoint, ClearEndpoint, To, lockVars,
         ServerInv, ServersHold
<1>2. ServerTypes'
  BY DEF Bind, WriteEndpoint, FailToStart, ReadEndpoint, ClearEndpoint, To, ServerInv, ServerTypes
<1>3. \A q \in Pids : q # p => server'[q] = server[q] /\ port'[q] = port[q]
  BY DEF Bind, WriteEndpoint, FailToStart, ReadEndpoint, ClearEndpoint, To, ServerInv, ServerTypes
<1>4. ServersHold'
  BY <1>1, <1>3 DEF ServerInv, ServersHold
<1>5. server'[p] = "serving" => endpoint' = Endpoint(p)'
  BY DEF Bind, WriteEndpoint, FailToStart, ReadEndpoint, ClearEndpoint, To, Endpoint,
         ServerInv, ServerTypes
<1>6. ~raced => \A q \in Pids : server[q] = "serving" => q = p
  BY <1>1, ServersExclude
<1>7. EndpointNamesServer'
  BY <1>1, <1>3, <1>5, <1>6 DEF EndpointNamesServer
<1> QED
  BY <1>2, <1>4, <1>7

LEMMA EndKeepsServer ==
  ASSUME ServerInv, NEW p \in Pids, LetGo(p) \/ ServerCrash(p)
  PROVE  (ServerTypes /\ ServersHold /\ EndpointNamesServer)'
<1>1. UNCHANGED <<endpoint, port, raced>>
  BY DEF LetGo, Release, ServerCrash, Die, serverVars
<1>2. ServerTypes'
  BY <1>1 DEF LetGo, ServerCrash, serverVars, ServerInv, ServerTypes
<1>3. \A q \in Pids : q # p => server'[q] = server[q] /\ pc'[q] = pc[q]
  BY DEF LetGo, Release, ServerCrash, Die, Go, serverVars, ServerInv, ServerTypes, LockInv, LockTypes
<1>4. server'[p] \in {"none", "closed"}
  BY DEF LetGo, ServerCrash, serverVars, ServerInv, ServerTypes
<1>5. ServersHold' /\ EndpointNamesServer'
  BY <1>1, <1>3, <1>4 DEF ServerInv, ServersHold, EndpointNamesServer, Endpoint
<1> QED
  BY <1>2, <1>5

LEMMA ServerStep ==
  ASSUME ServerInv, [ServerNext]_lockedServerVars, LockInv'
  PROVE  ServerInv'
<1>1. CASE UNCHANGED lockedServerVars
  BY <1>1 DEF ServerInv, ServerTypes, ServersHold, EndpointNamesServer, Endpoint, lockedServerVars, lockVars,
              serverVars
<1>2. CASE ServerNext
  BY <1>2, LockStepKeepsServer, ServerStepKeepsServer, EndKeepsServer DEF ServerNext, ServerInv
<1> QED
  BY <1>1, <1>2

(* At most one sidecar holds the lock; and while one serves, the file from  *)
(* which clients learn its address names it: it is written under the lock,  *)
(* and is cleared before the lock is let go.                                *)
THEOREM ServerIsFound == ServerSpec => []EndpointNamesServer
<1>1. LockSpec => []LockInv
  BY LockInvInit, LockStep, PTL DEF LockSpec
<1>2. ServerInit => ServerTypes /\ ServersHold /\ EndpointNamesServer
  BY DEF ServerInit, ServerTypes, ServersHold, EndpointNamesServer
<1>3. ServerInit => ServerInv
  BY <1>2, LockInvInit DEF ServerInv, ServerInit
<1>4. ServerInv => EndpointNamesServer
  BY DEF ServerInv
<1> QED
  BY <1>1, <1>3, <1>4, ServerUsesLock, ServerStep, PTL DEF ServerSpec

(* The same exclusion where the sidecar is the user of the lock.            *)
THEOREM ServersAreAlone == ServerSpec => []Exclusion
BY LockExcludes, ServerUsesLock, PTL
-----------------------------------------------------------------------------
(* A call that nobody steps into: what it has read stays true.              *)

Reasons == {"none", "disk", "gone", "unreadable", "running", "changed", "contention"}
LoneTypes ==
    /\ round \in [Pids -> {1, 2}]
    /\ alone \in [Pids -> BOOLEAN]
    /\ refusal \in [Pids -> Reasons]

(* A reason is there only between calls.                                    *)
NoReasonYet(p) == pc[p] \notin {"free", "down"} => refusal[p] = "none"

Justified(p) ==
    /\ file # Absent
    /\ refusal[p] = IF file.written THEN "running" ELSE "unreadable"
    /\ refusal[p] = "running" => file.pid = p \/ pc[file.pid] # "down"

Lone(p) ==
    /\ pc[p] = "open" /\ round[p] = 2 => file = Absent
    /\ pc[p] = "read" => round[p] = 1 /\ file # Absent
    /\ pc[p] \in {"check", "compare", "unlink"} => round[p] = 1 /\ seen[p] = file /\ file.written
    /\ pc[p] \in {"free", "down"} /\ refusal[p] \notin {"none", "disk"} => Justified(p)

LoneInv ==
    /\ LockTypes /\ LoneTypes
    /\ \A p \in Pids : NoReasonYet(p) /\ (alone[p] => Lone(p))

LEMMA LoneInit == LockInit => LoneInv
<1> SUFFICES ASSUME LockInit PROVE LoneInv
  OBVIOUS
<1>1. LockTypes
  BY LockInvInit DEF LockInv
<1> QED
  BY <1>1 DEF LockInit, LoneInv, LoneTypes, Reasons, NoReasonYet, Lone

(* A step of one process leaves the calls of the others as they are, and    *)
(* disturbs them.                                                           *)
LEMMA OthersDisturbed ==
    ASSUME LoneInv, NEW p \in Pids, Begin(p) \/ Calls(p) \/ Release(p) \/ Die(p)
    PROVE  /\ LoneTypes'
           /\ \A q \in Pids : q # p => NoReasonYet(q)' /\ ~alone'[q]
<1>1. \A q \in Pids : q # p => ~alone'[q]
  BY DEF Begin, Calls, Release, Die, Acquire, Open, WriteOwner, WriteFails, ReadOwner, CheckOwner,
         Compare, Unlink, Remove, Disturb
<1>2. alone' \in [Pids -> BOOLEAN]
  BY DEF Begin, Calls, Release, Die, Acquire, Open, WriteOwner, WriteFails, ReadOwner, CheckOwner,
         Compare, Unlink, Remove, Disturb, LoneInv, LoneTypes
<1>3. /\ round' \in [Pids -> {1, 2}]
      /\ refusal' \in [Pids -> Reasons]
      /\ \A q \in Pids : q # p => pc'[q] = pc[q] /\ refusal'[q] = refusal[q]
  BY DEF Begin, Calls, Release, Die, Acquire, Open, WriteOwner, WriteFails, ReadOwner, CheckOwner,
         Compare, Unlink, Remove, Go, Refuse, NextRound, LoneInv, LoneTypes, LockTypes, Reasons
<1> QED
  BY <1>1, <1>2, <1>3 DEF LoneInv, LoneTypes, NoReasonYet

(* The pieces that the steps are made of.                                   *)
LEMMA GoesOn ==
    ASSUME LoneInv, NEW p \in Pids, NEW step, Go(p, step)
    PROVE  pc'[p] = step /\ round'[p] = round[p] /\ refusal'[p] = refusal[p]
BY DEF Go, LoneInv, LockTypes

LEMMA IsRefused ==
    ASSUME LoneInv, NEW p \in Pids, NEW reason \in Reasons, Refuse(p, reason)
    PROVE  pc'[p] = "free" /\ round'[p] = round[p] /\ refusal'[p] = reason
BY DEF Refuse, LoneInv, LockTypes, LoneTypes

LEMMA StillAlone ==
    ASSUME NEW p \in Pids, Disturb(p)
    PROVE  alone'[p] => alone[p]
BY DEF Disturb

LEMMA OwnStep ==
    ASSUME LoneInv, NEW p \in Pids, Begin(p) \/ Calls(p) \/ Release(p) \/ Die(p)
    PROVE  NoReasonYet(p)' /\ (alone'[p] => Lone(p)')
<1> USE DEF NoReasonYet, Lone
<1>1. NoReasonYet(p) /\ (alone[p] => Lone(p)) /\ file \in Files /\ pc \in [Pids -> Steps]
      /\ seen \in [Pids -> Files]
  BY DEF LoneInv, LockTypes
<1>2. CASE Begin(p)
  <2>1. pc'[p] = "free" /\ refusal'[p] = refusal[p] /\ pc[p] = "down" /\ UNCHANGED file
        /\ (alone'[p] => alone[p])
    BY <1>2, GoesOn, StillAlone DEF Begin
  <2>2. \A q \in Pids : q # p => pc'[q] = pc[q]
    BY <1>1, <1>2 DEF Begin, Go
  <2> QED
    BY <1>1, <2>1, <2>2 DEF Justified, File, Files
<1>3. CASE Die(p)
  <2>1. pc'[p] = "down" /\ refusal'[p] = refusal[p] /\ UNCHANGED file /\ (alone'[p] => alone[p])
    BY <1>3, GoesOn, StillAlone DEF Die
  <2>2. \A q \in Pids : q # p => pc'[q] = pc[q]
    BY <1>1, <1>3 DEF Die, Go
  <2> QED
    BY <1>1, <2>1, <2>2 DEF Justified, File, Files
<1>4. CASE Acquire(p)
  BY <1>1, <1>4 DEF Acquire, LoneInv, LoneTypes
<1>5. CASE Open(p)
  <2>1. pc[p] = "open" /\ (alone'[p] => alone[p])
    BY <1>5, StillAlone DEF Open
  <2>2. CASE file = Absent
    BY <1>1, <1>5, <2>1, <2>2, GoesOn DEF Open
  <2>3. CASE file # Absent
    BY <1>1, <1>5, <2>1, <2>3, GoesOn DEF Open, LoneInv, LoneTypes
  <2> QED
    BY <2>2, <2>3
<1>6. CASE WriteOwner(p)
  BY <1>1, <1>6, GoesOn DEF WriteOwner
<1>7. CASE WriteFails(p)
  BY <1>1, <1>7, IsRefused DEF Reasons, WriteFails
<1>8. CASE ReadOwner(p)
  <2>1. pc[p] = "read" /\ (alone'[p] => alone[p]) /\ UNCHANGED file
    BY <1>8, StillAlone DEF ReadOwner
  <2>2. CASE file = Absent /\ Refuse(p, "gone") /\ UNCHANGED seen
    BY <1>1, <2>1, <2>2, IsRefused DEF Reasons
  <2>3. CASE file # Absent /\ ~file.written /\ Refuse(p, "unreadable") /\ UNCHANGED seen
    BY <1>1, <2>1, <2>3, IsRefused DEF Reasons, Justified
  <2>4. CASE file.written /\ Go(p, "check") /\ seen' = [seen EXCEPT ![p] = file]
    BY <1>1, <2>1, <2>4, GoesOn
  <2> QED
    BY <1>8, <2>2, <2>3, <2>4 DEF ReadOwner
<1>9. CASE CheckOwner(p)
  <2>1. pc[p] = "check" /\ (alone'[p] => alone[p]) /\ UNCHANGED <<file, seen>>
    BY <1>9, StillAlone DEF CheckOwner
  <2>2. CASE Alive(seen[p].pid)
    <3>1. Refuse(p, "running")
      BY <1>9, <2>2 DEF CheckOwner
    <3>2. pc'[p] = "free" /\ refusal'[p] = "running"
      BY <3>1, IsRefused DEF Reasons
    <3>4. \A q \in Pids : q # p => pc'[q] = pc[q]
      BY <1>1, <3>1 DEF Refuse
    <3>3. alone[p] => /\ file # Absent /\ file.written
                      /\ file.pid = p \/ pc'[file.pid] # "down"
      <4>1. SUFFICES ASSUME alone[p]
                     PROVE  file # Absent /\ file.written /\ (file.pid = p \/ pc'[file.pid] # "down")
        OBVIOUS
      <4>2. seen[p] = file /\ file.written
        BY <1>1, <2>1, <4>1
      <4>3. file \in File
        BY <1>1, <4>2 DEF Files, Absent
      <4>4. file.pid \in Pids /\ pc[file.pid] # "down" /\ file # Absent
        BY <2>2, <4>2, <4>3 DEF File, Alive, Absent
      <4> QED
        BY <3>4, <4>2, <4>4
    <3> QED
      BY <2>1, <3>2, <3>3 DEF Justified
  <2>3. CASE ~Alive(seen[p].pid)
    BY <1>1, <1>9, <2>1, <2>3, GoesOn DEF CheckOwner
  <2> QED
    BY <2>2, <2>3
<1>10. CASE Compare(p)
  <2>1. pc[p] = "compare" /\ (alone'[p] => alone[p]) /\ UNCHANGED <<file, seen>>
    BY <1>10, StillAlone DEF Compare
  <2>2. CASE file = seen[p] /\ Go(p, "unlink")
    BY <1>1, <2>1, <2>2, GoesOn
  <2>3. CASE file # seen[p]
    <3>1. ~alone'[p]
      BY <1>1, <2>1, <2>3
    <3>2. pc'[p] \in {"open", "free"} /\ (pc'[p] = "open" => refusal'[p] = "none")
      BY <1>1, <1>10, <2>1, <2>3, IsRefused DEF Reasons, Compare, NextRound
    <3> QED
      BY <3>1, <3>2
  <2>4. CASE file = Absent /\ file = seen[p]
    <3>1. ~alone'[p]
      BY <1>1, <2>1, <2>4 DEF Absent
    <3>2. CASE NextRound(p) /\ round[p] = 1
      <4>1. pc'[p] = "open" /\ refusal' = refusal
        BY <1>1, <3>2 DEF NextRound
      <4>2. refusal'[p] = "none"
        BY <1>1, <2>1, <4>1
      <4> QED
        BY <3>1, <4>1, <4>2
    <3>3. CASE NextRound(p) /\ round[p] = 2
      <4>1. Refuse(p, "contention")
        BY <3>3 DEF NextRound
      <4>2. pc'[p] = "free"
        BY <4>1, IsRefused DEF Reasons
      <4> QED
        BY <3>1, <4>2
    <3>4. CASE Go(p, "unlink")
      <4>1. pc'[p] = "unlink" /\ refusal'[p] = refusal[p]
        BY <3>4, GoesOn
      <4> QED
        BY <1>1, <2>1, <3>1, <4>1
    <3>5. NextRound(p) \/ Go(p, "unlink")
      BY <1>10, <2>4 DEF Compare
    <3> QED
      BY <3>2, <3>3, <3>4, <3>5 DEF NextRound
  <2> QED
    BY <1>10, <2>2, <2>3, <2>4 DEF Compare
<1>11. CASE Unlink(p)
  <2>1. pc[p] = "unlink" /\ (alone'[p] => alone[p]) /\ file' = Absent /\ NextRound(p)
    BY <1>11, StillAlone DEF Unlink
  <2>2. CASE round[p] = 1
    BY <1>1, <2>1, <2>2 DEF NextRound
  <2>3. CASE round[p] = 2
    BY <1>1, <2>1, <2>3, IsRefused DEF Reasons, NextRound
  <2> QED
    BY <2>1, <2>2, <2>3 DEF NextRound
<1>12. CASE Release(p)
  BY <1>1, <1>12, GoesOn DEF Release
<1>13. CASE Remove(p)
  BY <1>1, <1>13, GoesOn DEF Remove
<1> QED
  BY <1>2, <1>3, <1>4, <1>5, <1>6, <1>7, <1>8, <1>9, <1>10, <1>11, <1>12, <1>13 DEF Calls

LEMMA LoneStep ==
    ASSUME LoneInv, LockTypes', [LockNext]_lockVars
    PROVE  LoneInv'
<1>1. CASE UNCHANGED lockVars
  BY <1>1 DEF LoneInv, LockTypes, LoneTypes, NoReasonYet, Lone, Justified, lockVars
<1>2. ASSUME NEW p \in Pids, Begin(p) \/ Calls(p) \/ Release(p) \/ Die(p)
      PROVE  LoneInv'
  <2>1. LoneTypes' /\ \A q \in Pids : q # p => NoReasonYet(q)' /\ ~alone'[q]
    BY <1>2, OthersDisturbed
  <2>2. NoReasonYet(p)' /\ (alone'[p] => Lone(p)')
    BY <1>2, OwnStep
  <2> QED
    BY <2>1, <2>2 DEF LoneInv
<1> QED
  BY <1>1, <1>2 DEF LockNext

(* For any number of processes: a call of acquire that no other process     *)
(* steps into is refused only by an owner that is alive or a file that was  *)
(* never completed, for it recovers every other file in two turns.          *)
THEOREM LoneCallsSucceed == ServerSpec => []LoneCallSucceeds
<1>1. LockInv => LockTypes
  BY DEF LockInv
<1>2. LoneInv => LoneCallSucceeds
  <2> SUFFICES ASSUME LoneInv, NEW p \in Pids, pc[p] = "free", alone[p],
                      refusal[p] \notin {"none", "disk"}
               PROVE  /\ file # Absent
                      /\ refusal[p] = IF file.written THEN "running" ELSE "unreadable"
                      /\ refusal[p] = "running" => Alive(file.pid)
    BY DEF LoneCallSucceeds
  <2>1. Justified(p)
    BY DEF LoneInv, Lone
  <2> QED
    BY <2>1 DEF Justified, Alive
<1> QED
  BY <1>1, <1>2, LockInvInit, LockStep, LoneInit, LoneStep, ServerUsesLock, PTL DEF LockSpec
-----------------------------------------------------------------------------
(* The stream (SidecarStream) *)

Contents == [revision : Nat, version : Nat, verdict : Verdict]
TickFrames == [event : {"observed", "resync_required"}, id : Nat]
Frames == TickFrames \cup [event : {"heartbeat"}, id : Nat]
                     \cup [event : {"snapshot"}, id : Nat, snapshot : Contents]

(* The frame makes the browser read. *)
IsTick(frame) == frame.event \in {"observed", "resync_required"}

Opening == {"none", "accepted", "snapshot"}
Handlers == Opening \cup {"stream", "heartbeat"}
Watchers == {"down", "wait", "publish", "assign", "record"}

StreamTypes ==
    /\ data \in Nat /\ stamped \in Nat /\ last_revision \in Nat
    /\ watcher \in Watchers /\ current \in Nat /\ last_fingerprint \in Nat
    /\ hub \in [sequence : Nat, oldest : Nat] /\ revision \in Nat
    /\ handler \in Handlers /\ cursor \in Nat \cup {None} /\ wire \in Seq(Frames)
    /\ lastEventId \in Nat \cup {None}
    /\ reading \in {"no", "asked", "answered", "failed"}
    /\ reading = "answered" => answer \in Contents
    /\ followUp \in BOOLEAN
    /\ received \in Nat \cup {-1}

(* Nothing is announced that left no trace in the store, and what is        *)
(* published now is no older than what was published last.                  *)
Publishing ==
    /\ stamped <= data /\ current <= stamped /\ last_fingerprint <= stamped
    /\ watcher \in {"publish", "assign", "record"} => last_fingerprint <= current

(* There is a handler only while the sidecar runs; it has sent nothing      *)
(* before it decided what to open with, and was then at most at the hub's   *)
(* number.                                                                  *)
Connected ==
    /\ ~Up => handler = "none"
    /\ handler \in Opening => wire = <<>>
    /\ handler \notin {"none", "accepted"} => cursor \in Nat /\ cursor <= hub.sequence

Fresh(snapshot) == snapshot.version >= Announced

Behind == handler \in {"accepted", "snapshot"} \/ cursor # hub.sequence

(* The stream still has something for the browser that makes it current.    *)
StreamOwes ==
    \/ Behind
    \/ \E i \in DOMAIN wire : IsTick(wire[i])
    \/ \E i \in DOMAIN wire : wire[i].event = "snapshot" /\ Fresh(wire[i].snapshot)

(* The read in flight, or the one to follow, makes it current or fails.     *)
ReadOwes ==
    \/ reading \in {"asked", "failed"}
    \/ reading # "no" /\ followUp
    \/ reading = "answered" /\ Fresh(answer)

(* What is stale on its way is followed by something that is not. *)
StaleIsFollowed ==
    /\ \A i \in DOMAIN wire : wire[i].event = "snapshot" /\ ~Fresh(wire[i].snapshot)
          => Behind \/ \E j \in DOMAIN wire : j > i /\ IsTick(wire[j])
    /\ reading = "answered" /\ ~Fresh(answer)
          => followUp \/ StreamOwes \/ received >= Announced

(* What an open stream guarantees. *)
Served ==
    /\ received >= Announced \/ error \/ StreamOwes \/ ReadOwes
    /\ StaleIsFollowed

StreamInv == StreamTypes /\ Publishing /\ Connected /\ (handler # "none" => Served)
(* Sequences of frames *)

LEMMA FrameParts ==
    ASSUME NEW f \in Frames
    PROVE  /\ f.event \in {"observed", "resync_required", "heartbeat", "snapshot"}
           /\ f.id \in Nat
           /\ f.event = "snapshot" => f.snapshot \in Contents /\ f.snapshot.version \in Nat
BY DEF Frames, TickFrames, Contents

LEMMA WireParts ==
    ASSUME NEW w \in Seq(Frames), NEW i \in DOMAIN w
    PROVE  /\ w[i] \in Frames
           /\ w[i].event = "snapshot" => w[i].snapshot.version \in Nat
<1>1. w[i] \in Frames
  OBVIOUS
<1>2. QED
  BY <1>1, FrameParts

LEMMA TailParts ==
    ASSUME NEW w \in Seq(Frames), w # <<>>
    PROVE  /\ Head(w) = w[1] /\ w[1] \in Frames /\ 1 \in DOMAIN w /\ DOMAIN w \subseteq Nat
           /\ Tail(w) \in Seq(Frames)
           /\ \A i \in DOMAIN Tail(w) : i + 1 \in DOMAIN w /\ Tail(w)[i] = w[i + 1]
           /\ \A i \in DOMAIN w : i # 1 => i - 1 \in DOMAIN Tail(w) /\ Tail(w)[i - 1] = w[i]
OBVIOUS

(* The frames f follow the frames w. *)
Joined(w, f, new) ==
    /\ new \in Seq(Frames)
    /\ \A i \in DOMAIN w : i \in DOMAIN new /\ new[i] = w[i]
    /\ \A k \in DOMAIN f : Len(w) + k \in DOMAIN new /\ new[Len(w) + k] = f[k]
    /\ \A k \in DOMAIN f, i \in DOMAIN w : Len(w) + k > i
    /\ \A i \in DOMAIN new \ DOMAIN w : \E k \in DOMAIN f : i = Len(w) + k /\ new[i] = f[k]

LEMMA JoinParts ==
    ASSUME NEW w \in Seq(Frames), NEW f \in Seq(Frames), NEW new, new = w \o f
    PROVE  Joined(w, f, new)
<1>1. /\ new \in Seq(Frames) /\ Len(new) = Len(w) + Len(f)
      /\ Len(w) \in Nat /\ Len(f) \in Nat
      /\ DOMAIN w = 1..Len(w) /\ DOMAIN f = 1..Len(f) /\ DOMAIN new = 1..Len(new)
  OBVIOUS
<1>2. /\ \A i \in DOMAIN w : i \in DOMAIN new /\ new[i] = w[i]
      /\ \A k \in DOMAIN f : Len(w) + k \in DOMAIN new /\ new[Len(w) + k] = f[k]
  BY <1>1
<1>3. ASSUME NEW i \in DOMAIN new \ DOMAIN w
      PROVE  \E k \in DOMAIN f : i = Len(w) + k /\ new[i] = f[k]
  <2>1. i - Len(w) \in DOMAIN f /\ i = Len(w) + (i - Len(w))
    BY <1>1
  <2>2. QED
    BY <1>2, <2>1
<1>4. QED
  BY <1>1, <1>2, <1>3 DEF Joined

(* frames_for sends nothing but frames that make the browser read, and at   *)
(* least one of them to a client that is behind.                            *)
LEMMA NewsParts ==
    ASSUME NEW h \in [sequence : Nat, oldest : Nat], NEW c \in Nat \cup {None}
    PROVE  /\ FramesFor(h, c) \in Seq(Frames)
           /\ \A k \in DOMAIN FramesFor(h, c) : IsTick(FramesFor(h, c)[k])
           /\ c \in Nat /\ c < h.sequence => FramesFor(h, c) # <<>> /\ 1 \in DOMAIN FramesFor(h, c)
<1>0. h.sequence \in Nat /\ h.oldest \in Nat
  OBVIOUS
<1>1. CASE c = None
  <2>1. FramesFor(h, c) = <<>> /\ c \notin Nat
    BY <1>1, NoneIsNoRevision DEF FramesFor
  <2>2. QED
    BY <2>1
<1>2. CASE c # None /\ NeedsResync(h, c)
  <2> DEFINE f == [event |-> "resync_required", id |-> h.sequence]
  <2>1. FramesFor(h, c) = <<f>>
    BY <1>2 DEF FramesFor, Frame
  <2>2. f \in Frames /\ IsTick(f)
    BY <1>0 DEF Frames, TickFrames, IsTick
  <2> HIDE DEF f
  <2>3. QED
    BY <2>1, <2>2
<1>3. CASE c # None /\ ~NeedsResync(h, c)
  <2> DEFINE first == Later(h.oldest, c + 1)
             n == h.sequence + 1 - first
  <2>1. c \in Nat /\ first \in Nat /\ n \in Int
    BY <1>0, <1>3 DEF Later
  <2>2. FramesFor(h, c) = [i \in 1..n |-> [event |-> "observed", id |-> first + i - 1]]
    BY <1>3 DEF FramesFor, Replay, Frame
  <2>3. c < h.sequence => n > 0
    BY <1>0, <1>3, <2>1 DEF Later, NeedsResync, Available
  <2> HIDE DEF first, n
  <2>4. PICK m \in Nat : 1..n = 1..m /\ (n > 0 => m = n)
    <3>1. CASE n >= 0
      BY <2>1, <3>1
    <3>2. CASE n < 0
      <4>1. 1..n = 1..0
        BY <2>1, <3>2
      <4>2. QED
        BY <2>1, <3>2, <4>1
    <3>3. QED
      BY <2>1, <3>1, <3>2
  <2>5. \A i \in 1..m : /\ first + i - 1 \in Nat
                        /\ [event |-> "observed", id |-> first + i - 1] \in Frames
    BY <2>1 DEF Frames, TickFrames
  <2> DEFINE g == [i \in 1..m |-> [event |-> "observed", id |-> first + i - 1]]
  <2>6. g \in Seq(Frames) /\ DOMAIN g = 1..m /\ \A i \in 1..m : IsTick(g[i])
    BY <2>4, <2>5 DEF IsTick
  <2>7. FramesFor(h, c) = g
    BY <2>2, <2>4
  <2> HIDE DEF g
  <2>8. n > 0 => 1 \in DOMAIN g
    BY <2>1, <2>4, <2>6
  <2>9. 1 \in DOMAIN g => g # <<>>
    OBVIOUS
  <2>10. QED
    BY <2>3, <2>6, <2>7, <2>8, <2>9
<1>4. QED
  BY <1>1, <1>2, <1>3
-----------------------------------------------------------------------------
(* What a step leaves of the guarantee *)

LEMMA AnnouncedBound ==
    ASSUME StreamTypes, Publishing
    PROVE  Announced \in Nat /\ Announced <= data
BY DEF StreamTypes, Publishing, Announced

(* Nothing the stream or the browser has was changed, and no more was       *)
(* announced.                                                               *)
LEMMA ServedStays ==
    ASSUME StreamTypes, Served, Announced \in Nat, Announced' \in Nat, Announced' <= Announced,
           UNCHANGED stream, hub'.sequence = hub.sequence,
           UNCHANGED <<reading, answer, followUp, received>>, error => error'
    PROVE  Served'
<1>1. /\ handler' = handler /\ cursor' = cursor /\ wire' = wire /\ reading' = reading
      /\ answer' = answer /\ followUp' = followUp /\ received' = received
  BY DEF stream
<1>2. ASSUME NEW x, x.version \in Nat, Fresh(x) PROVE Fresh(x)'
  BY <1>2 DEF Fresh
<1>3. reading = "answered" => answer.version \in Nat
  BY DEF StreamTypes, Contents
<1>4. \A i \in DOMAIN wire : wire[i].event = "snapshot" => wire[i].snapshot.version \in Nat
  BY WireParts DEF StreamTypes
<1>5. Behind' <=> Behind
  BY <1>1 DEF Behind
<1>6. StreamOwes => StreamOwes'
  BY <1>1, <1>2, <1>4, <1>5 DEF StreamOwes
<1>7. ReadOwes => ReadOwes'
  BY <1>1, <1>2, <1>3 DEF ReadOwes
<1>8. received >= Announced => received' >= Announced'
  BY <1>1 DEF StreamTypes
<1>9. StaleIsFollowed'
  <2>1. \A i \in DOMAIN wire' : wire'[i].event = "snapshot" /\ ~Fresh(wire[i].snapshot)'
          => wire[i].event = "snapshot" /\ ~Fresh(wire[i].snapshot)
    BY <1>1, <1>2, <1>4
  <2>2. reading' = "answered" /\ ~Fresh(answer)' => reading = "answered" /\ ~Fresh(answer)
    BY <1>1, <1>2, <1>3
  <2>3. QED
    BY <1>1, <1>5, <1>6, <1>8, <2>1, <2>2 DEF Served, StaleIsFollowed
<1>10. QED
  BY <1>6, <1>7, <1>8, <1>9 DEF Served

(* A handler that is behind the hub will send something.                    *)
LEMMA BehindServes ==
    ASSUME Behind'
    PROVE  Served'
BY DEF Served, StreamOwes, StaleIsFollowed

(* The browser's own steps: what the stream owes is as before, and what a   *)
(* read that ends brings is as new as what it leaves owed.                  *)
LEMMA ReadServes ==
    ASSUME StreamTypes, Served, UNCHANGED <<store, sidecar, stream>>,
           received' \in Nat \cup {-1}, received' >= received,
           received' >= Announced \/ error' \/ StreamOwes \/ ReadOwes',
           reading' = "answered" /\ ~Fresh(answer)'
             => followUp' \/ StreamOwes \/ received' >= Announced
    PROVE  Served'
<1>1. /\ handler' = handler /\ cursor' = cursor /\ wire' = wire /\ hub' = hub
      /\ watcher' = watcher /\ current' = current /\ last_fingerprint' = last_fingerprint
  BY DEF stream, sidecar, watching
<1>2. Announced' = Announced
  BY <1>1 DEF Announced
<1>3. Behind' <=> Behind
  BY <1>1 DEF Behind
<1>4. StreamOwes' <=> StreamOwes
  BY <1>1, <1>2, <1>3 DEF StreamOwes, Fresh
<1>5. StaleIsFollowed'
  BY <1>1, <1>2, <1>3, <1>4 DEF Served, StaleIsFollowed, Fresh
<1>6. QED
  BY <1>2, <1>4, <1>5 DEF Served

(* Frames that make the browser read follow what was on its way, or         *)
(* heartbeats do while the client is not behind.                            *)
LEMMA SentServes ==
    ASSUME StreamTypes, Served, UNCHANGED <<store, sidecar, browser>>,
           NEW f \in Seq(Frames), wire' = wire \o f,
           \A k \in DOMAIN f : f[k].event # "snapshot",
           Behind => Behind' \/ \E k \in DOMAIN f : IsTick(f[k])
    PROVE  Served'
<1>1. /\ watcher' = watcher /\ current' = current /\ last_fingerprint' = last_fingerprint
      /\ reading' = reading /\ answer' = answer /\ followUp' = followUp
      /\ received' = received /\ error' = error /\ wire \in Seq(Frames)
  BY DEF sidecar, watching, browser, StreamTypes
<1>2. Announced' = Announced
  BY <1>1 DEF Announced
<1>3. /\ \A i \in DOMAIN wire : i \in DOMAIN wire' /\ wire'[i] = wire[i]
      /\ \A k \in DOMAIN f : Len(wire) + k \in DOMAIN wire' /\ wire'[Len(wire) + k] = f[k]
      /\ \A k \in DOMAIN f, i \in DOMAIN wire : Len(wire) + k > i
      /\ \A i \in DOMAIN wire' \ DOMAIN wire :
            \E k \in DOMAIN f : i = Len(wire) + k /\ wire'[i] = f[k]
  <2>1. PICK w, new : w = wire /\ new = wire'
    OBVIOUS
  <2>2. Joined(w, f, new)
    BY <1>1, <2>1, JoinParts
  <2>3. QED
    BY <2>1, <2>2 DEF Joined
<1>4. ASSUME NEW k \in DOMAIN f, IsTick(f[k])
      PROVE  \E j \in DOMAIN wire' : IsTick(wire'[j]) /\ \A i \in DOMAIN wire : j > i
  BY <1>3, <1>4
<1>5. StreamOwes => StreamOwes'
  <2>1. CASE Behind
    BY <1>4, <2>1 DEF StreamOwes
  <2>2. ASSUME NEW i \in DOMAIN wire, IsTick(wire[i]) PROVE StreamOwes'
    BY <1>3, <2>2 DEF StreamOwes
  <2>3. ASSUME NEW i \in DOMAIN wire, wire[i].event = "snapshot", Fresh(wire[i].snapshot)
        PROVE  StreamOwes'
    BY <1>2, <1>3, <2>3 DEF StreamOwes, Fresh
  <2>4. QED
    BY <2>1, <2>2, <2>3 DEF StreamOwes
<1>6. ASSUME NEW i \in DOMAIN wire', wire'[i].event = "snapshot", ~Fresh(wire[i].snapshot)'
      PROVE  Behind' \/ \E j \in DOMAIN wire' : j > i /\ IsTick(wire'[j])
  <2>1. i \in DOMAIN wire /\ wire[i].event = "snapshot" /\ ~Fresh(wire[i].snapshot)
    BY <1>2, <1>3, <1>6 DEF Fresh
  <2>2. CASE Behind
    BY <1>4, <2>1, <2>2
  <2>3. ASSUME NEW j \in DOMAIN wire, j > i, IsTick(wire[j])
        PROVE  \E k \in DOMAIN wire' : k > i /\ IsTick(wire'[k])
    BY <1>3, <2>3
  <2>4. QED
    BY <2>1, <2>2, <2>3 DEF Served, StaleIsFollowed
<1>7. reading' = "answered" /\ ~Fresh(answer)'
        => followUp' \/ StreamOwes' \/ received' >= Announced'
  BY <1>1, <1>2, <1>5 DEF Served, StaleIsFollowed, Fresh
<1>8. ReadOwes => ReadOwes'
  BY <1>1, <1>2 DEF ReadOwes, Fresh
<1>9. QED
  BY <1>1, <1>2, <1>5, <1>6, <1>7, <1>8 DEF Served, StaleIsFollowed
-----------------------------------------------------------------------------
(* The steps *)

(* The watcher and the store go on: nothing is sent.                        *)
BackgroundStep ==
    Write \/ UpdateInPlace \/ Look \/ Assign \/ Record \/ PublishFails \/ UNCHANGED vars

LEMMA BackgroundKeeps ==
    ASSUME StreamInv, BackgroundStep
    PROVE  StreamInv'
<1> USE DEF BackgroundStep
<1>1. StreamTypes /\ Publishing /\ Connected /\ (handler # "none" => Served)
  BY DEF StreamInv
<1>2. /\ handler' = handler /\ cursor' = cursor /\ wire' = wire /\ hub' = hub
      /\ reading' = reading /\ answer' = answer /\ followUp' = followUp
      /\ received' = received /\ error' = error /\ lastEventId' = lastEventId
  BY DEF Write, UpdateInPlace, Look, Assign, Record, PublishFails, vars, store, sidecar, watching,
         stream, browser
<1>3. /\ data' \in Nat /\ data' >= data /\ stamped' \in Nat /\ last_revision' \in Nat
      /\ watcher' \in Watchers /\ revision' \in Nat
      /\ (watcher' = "down" <=> watcher = "down")
  BY <1>1 DEF StreamTypes, Watchers, Write, UpdateInPlace, Look, Assign, Record, PublishFails, vars,
              store, sidecar, watching
<1>4. /\ current' \in Nat /\ last_fingerprint' \in Nat
      /\ Publishing'
      /\ Announced' <= Announced
  BY <1>1 DEF StreamTypes, Publishing, Announced, Write, UpdateInPlace, Look, Assign, Record,
              PublishFails, vars, store, sidecar, watching, Fingerprint
<1>5. StreamTypes'
  BY <1>1, <1>2, <1>3, <1>4 DEF StreamTypes
<1>6. Connected'
  BY <1>1, <1>2, <1>3 DEF Connected, Up
<1>7. handler' # "none" => Served'
  <2>1. Announced \in Nat /\ Announced' \in Nat
    BY <1>1, <1>4, <1>5, AnnouncedBound DEF StreamTypes, Publishing, Announced
  <2>2. UNCHANGED stream /\ UNCHANGED <<reading, answer, followUp, received>>
    BY <1>2 DEF stream
  <2>3. QED
    BY <1>1, <1>2, <1>4, <2>1, <2>2, ServedStays
<1>8. QED
  BY <1>4, <1>5, <1>6, <1>7 DEF StreamInv

(* publish_observed: whoever is connected is behind the new number.         *)
LEMMA PublishServes ==
    ASSUME StreamInv, Publish
    PROVE  StreamInv'
<1>1. StreamTypes /\ Publishing /\ Connected
  BY DEF StreamInv
<1>2. /\ handler' = handler /\ cursor' = cursor /\ wire' = wire /\ data' = data
      /\ stamped' = stamped /\ reading' = reading /\ answer' = answer /\ followUp' = followUp
      /\ received' = received /\ error' = error /\ lastEventId' = lastEventId
      /\ current' = current /\ last_fingerprint' = last_fingerprint
      /\ last_revision' = last_revision /\ revision' = revision
      /\ watcher = "publish" /\ watcher' = "assign" /\ hub' = Published(hub)
  BY DEF Publish, store, stream, browser
<1>3. hub' \in [sequence : Nat, oldest : Nat] /\ hub'.sequence = hub.sequence + 1
        /\ hub.sequence \in Nat
  BY <1>1, <1>2, HistoryIsPositive DEF StreamTypes, Published, Later
<1>4. StreamTypes'
  BY <1>1, <1>2, <1>3 DEF StreamTypes, Watchers
<1>5. Publishing'
  BY <1>1, <1>2 DEF Publishing
<1>6. Connected'
  BY <1>1, <1>2, <1>3 DEF Connected, Up
<1>7. handler' # "none" => Served'
  <2>1. handler' # "none" => Behind'
    BY <1>1, <1>2, <1>3 DEF Connected, Behind
  <2>2. QED
    BY <2>1, BehindServes
<1>8. QED
  BY <1>4, <1>5, <1>6, <1>7 DEF StreamInv

(* There is no connection afterwards.                                       *)
LEMMA BrokenKeeps ==
    ASSUME StreamInv, Start \/ Crash \/ Disconnect \/ ConnectRefused
    PROVE  StreamInv'
<1>1. StreamTypes /\ Publishing /\ Connected
  BY DEF StreamInv
<1>2. handler' = "none" /\ wire' = <<>> /\ cursor' = cursor
  BY <1>1 DEF Start, Crash, Disconnect, ConnectRefused, Unconnected, Connected, Opening, stream
<1>3. /\ data' = data /\ stamped' = stamped /\ last_revision' = last_revision /\ followUp' = followUp
      /\ answer' = answer /\ received' = received /\ lastEventId' = lastEventId
      /\ current' = current
      /\ reading' \in {"no", "asked", "answered", "failed"}
      /\ reading' = "answered" => reading = "answered"
  BY <1>1 DEF Start, Crash, Disconnect, ConnectRefused, store, sidecar, watching, browser, StreamTypes
<1>4. /\ watcher' \in Watchers /\ last_fingerprint' \in Nat /\ revision' \in Nat
      /\ hub' \in [sequence : Nat, oldest : Nat]
  <2>1. SeededHub(last_revision) \in [sequence : Nat, oldest : Nat]
    BY <1>1 DEF StreamTypes, SeededHub
  <2>2. QED
    BY <1>1, <2>1 DEF Start, Crash, Disconnect, ConnectRefused, store, sidecar, watching, StreamTypes,
                 Watchers, Fingerprint
<1>5. StreamTypes'
  <2>1. wire' \in Seq(Frames) /\ handler' \in Handlers
    BY <1>2 DEF Handlers, Opening
  <2>2. QED
    BY <1>1, <1>2, <1>3, <1>4, <2>1 DEF StreamTypes
<1>6. Publishing'
  BY <1>1 DEF Start, Crash, Disconnect, ConnectRefused, store, sidecar, watching, StreamTypes,
              Publishing, Fingerprint
<1>7. Connected'
  BY <1>2 DEF Connected
<1>8. QED
  BY <1>2, <1>5, <1>6, <1>7 DEF StreamInv

(* _read: v3_snapshot is made of the store as it is now.                    *)
LEMMA SnapshotIsFresh ==
    ASSUME StreamTypes, Publishing, NEW verdict \in Verdict
    PROVE  v3_snapshot(verdict) \in Contents /\ Fresh(v3_snapshot(verdict))
<1>1. Announced <= data /\ Announced \in Nat
  BY AnnouncedBound
<1>2. QED
  BY <1>1 DEF StreamTypes, v3_snapshot, Contents, Fresh

(* The types and connections that a step of the browser's reads leaves.     *)
LEMMA ReadKeeps ==
    ASSUME StreamInv, UNCHANGED <<store, sidecar, stream>>,
           lastEventId' = lastEventId,
           reading' \in {"no", "asked", "answered", "failed"}, followUp' \in BOOLEAN,
           reading' = "answered" => answer' \in Contents,
           received' \in Nat \cup {-1}, handler # "none" => Served'
    PROVE  StreamInv'
<1>1. StreamTypes /\ Publishing /\ Connected
  BY DEF StreamInv
<1>2. /\ handler' = handler /\ cursor' = cursor /\ wire' = wire /\ hub' = hub
      /\ watcher' = watcher /\ current' = current /\ last_fingerprint' = last_fingerprint
      /\ data' = data /\ stamped' = stamped /\ last_revision' = last_revision /\ revision' = revision
  BY DEF stream, sidecar, watching, store
<1>3. StreamTypes' /\ Publishing' /\ Connected'
  BY <1>1, <1>2 DEF StreamTypes, Publishing, Connected, Up
<1>4. QED
  BY <1>2, <1>3 DEF StreamInv

LEMMA TickParts ==
    ASSUME StreamTypes, Tick
    PROVE  /\ reading' \in {"asked", "answered", "failed"} /\ followUp' \in BOOLEAN
           /\ reading' = "asked" \/ followUp'
           /\ reading' = "answered" => reading = "answered" /\ followUp'
BY DEF StreamTypes, Tick

LEMMA TimerKeeps ==
    ASSUME StreamInv, Timer
    PROVE  StreamInv'
<1>1. StreamTypes /\ (handler # "none" => Served)
  BY DEF StreamInv
<1>2. /\ Tick /\ UNCHANGED <<store, sidecar, stream>> /\ lastEventId' = lastEventId
      /\ answer' = answer /\ received' = received /\ error' = error
  BY DEF Timer
<1>3. /\ reading' \in {"asked", "answered", "failed"} /\ followUp' \in BOOLEAN
      /\ reading' = "asked" \/ followUp'
      /\ reading' = "answered" => reading = "answered" /\ followUp'
  BY <1>1, <1>2, TickParts
<1>4. received' \in Nat \cup {-1} /\ received' >= received
  BY <1>1, <1>2 DEF StreamTypes
<1>5. handler # "none" => Served'
  <2>1. ReadOwes'
    BY <1>3 DEF ReadOwes
  <2>2. QED
    BY <1>1, <1>2, <1>3, <1>4, <2>1, ReadServes
<1>6. QED
  BY <1>1, <1>2, <1>3, <1>4, <1>5, ReadKeeps DEF StreamTypes

LEMMA AnswerKeeps ==
    ASSUME StreamInv, AnswerFails \/ \E verdict \in Verdict : Answer(verdict)
    PROVE  StreamInv'
<1>1. StreamTypes /\ Publishing /\ Connected /\ (handler # "none" => Served)
  BY DEF StreamInv
<1>2. /\ UNCHANGED <<store, sidecar, stream>> /\ lastEventId' = lastEventId
      /\ received' = received /\ error' = error /\ followUp' = followUp
      /\ reading' \in {"answered", "failed"}
  BY DEF Answer, AnswerFails
<1>3. reading' = "answered" => answer' \in Contents /\ Fresh(answer')
  <2>1. CASE AnswerFails
    BY <2>1 DEF AnswerFails
  <2>2. ASSUME NEW verdict \in Verdict, Answer(verdict), reading' = "answered"
        PROVE  answer' \in Contents /\ Fresh(answer')
    <3>1. answer' = v3_snapshot(verdict)
      BY <2>2 DEF Answer
    <3>2. QED
      BY <1>1, <3>1, SnapshotIsFresh
  <2>3. QED
    BY <2>1, <2>2
<1>4. received' \in Nat \cup {-1} /\ received' >= received /\ followUp' \in BOOLEAN
  BY <1>1, <1>2 DEF StreamTypes
<1>5. reading' = "answered" => Fresh(answer)'
  BY <1>2, <1>3 DEF Fresh, Announced, sidecar, watching
<1>6. handler # "none" => Served'
  <2>1. ReadOwes'
    BY <1>2, <1>5 DEF ReadOwes
  <2>2. QED
    BY <1>1, <1>2, <1>4, <1>5, <2>1, ReadServes
<1>7. QED
  BY <1>2, <1>3, <1>4, <1>6, ReadKeeps
LEMMA AppliedParts ==
    ASSUME received \in Nat \cup {-1}, NEW snapshot, snapshot.version \in Nat, Apply(snapshot)
    PROVE  received' \in Nat \cup {-1} /\ received' >= received /\ received' >= snapshot.version
BY DEF Apply, Later

LEMMA FinishReadKeeps ==
    ASSUME StreamInv, FinishRead
    PROVE  StreamInv'
<1>1. StreamTypes /\ Publishing /\ Connected /\ (handler # "none" => Served)
  BY DEF StreamInv
<1>2. /\ UNCHANGED <<store, sidecar, stream>> /\ lastEventId' = lastEventId
      /\ reading' = IF followUp THEN "asked" ELSE "no"
      /\ followUp' = FALSE
  BY DEF FinishRead
<1>3. Announced \in Nat
  BY <1>1, AnnouncedBound
<1>4. /\ received' \in Nat \cup {-1} /\ received' >= received
      /\ error' \/ (reading = "answered" /\ (Fresh(answer) => received' >= Announced))
  <2>1. CASE reading = "failed"
    BY <1>1, <2>1 DEF FinishRead, StreamTypes
  <2>2. CASE reading = "answered"
    <3>1. Apply(answer) /\ answer.version \in Nat /\ received \in Nat \cup {-1}
      BY <1>1, <2>2 DEF FinishRead, StreamTypes, Contents
    <3>2. received' \in Nat \cup {-1} /\ received' >= received /\ received' >= answer.version
      BY <3>1, AppliedParts
    <3>3. Fresh(answer) => received' >= Announced
      BY <1>3, <3>1, <3>2 DEF Fresh
    <3>4. QED
      BY <2>2, <3>2, <3>3
  <2>3. QED
    BY <2>1, <2>2 DEF FinishRead
<1>5. handler # "none" => Served'
  <2>1. SUFFICES ASSUME handler # "none" PROVE Served'
    OBVIOUS
  <2>2. reading' \in {"no", "asked"} /\ (followUp => ReadOwes')
    BY <1>2 DEF ReadOwes
  <2>3. received >= Announced => received' >= Announced
    BY <1>1, <1>3, <1>4 DEF StreamTypes
  <2>4. received' >= Announced \/ error' \/ StreamOwes \/ ReadOwes'
    BY <1>1, <1>4, <2>1, <2>2, <2>3 DEF Served, StaleIsFollowed
  <2>5. QED
    BY <1>1, <1>2, <1>4, <2>1, <2>2, <2>4, ReadServes
<1>6. QED
  BY <1>2, <1>4, <1>5, ReadKeeps

-----------------------------------------------------------------------------
(* The types and the publishing, where the store and the sidecar stay.      *)
LEMMA StreamStepTypes ==
    ASSUME StreamInv, UNCHANGED <<store, sidecar>>,
           handler' \in Handlers, cursor' \in Nat \cup {None}, wire' \in Seq(Frames),
           lastEventId' \in Nat \cup {None},
           reading' \in {"no", "asked", "answered", "failed"}, followUp' \in BOOLEAN,
           reading' = "answered" => reading = "answered" /\ answer' = answer,
           received' \in Nat \cup {-1}
    PROVE  StreamTypes' /\ Publishing' /\ Announced' = Announced
<1>1. StreamTypes /\ Publishing
  BY DEF StreamInv
<1>2. /\ watcher' = watcher /\ current' = current /\ last_fingerprint' = last_fingerprint
      /\ data' = data /\ stamped' = stamped /\ last_revision' = last_revision
      /\ revision' = revision /\ hub' = hub
  BY DEF sidecar, watching, store
<1>3. QED
  BY <1>1, <1>2 DEF StreamTypes, Publishing, Announced

LEMMA ConnectKeeps ==
    ASSUME StreamInv, Connect
    PROVE  StreamInv'
<1>1. StreamTypes /\ Connected
  BY DEF StreamInv
<1>2. /\ UNCHANGED <<store, sidecar>> /\ Up /\ Tick
      /\ handler' = "accepted" /\ cursor' = lastEventId /\ wire' = <<>>
      /\ lastEventId' = lastEventId /\ answer' = answer /\ received' = received
  BY DEF Connect
<1>3. /\ reading' \in {"asked", "answered", "failed"} /\ followUp' \in BOOLEAN
      /\ reading' = "answered" => reading = "answered"
  BY <1>1, <1>2, TickParts
<1>4. handler' \in Handlers /\ wire' \in Seq(Frames)
  BY <1>2 DEF Handlers, Opening
<1>5. StreamTypes' /\ Publishing'
  BY <1>1, <1>2, <1>3, <1>4, StreamStepTypes DEF StreamTypes
<1>6. Connected'
  BY <1>2 DEF Connected, Opening, Up, sidecar, watching
<1>7. Served'
  BY <1>2, BehindServes DEF Behind
<1>8. QED
  BY <1>5, <1>6, <1>7 DEF StreamInv

(* The handler sends: the browser has not moved.                            *)
LEMMA HandlerTypes ==
    ASSUME StreamInv, UNCHANGED <<store, sidecar, browser>>,
           handler' \in Handlers \ {"none"}, cursor' \in Nat \cup {None}, wire' \in Seq(Frames),
           handler # "none", handler' \in Opening => wire' = <<>>,
           handler' # "accepted" => cursor' \in Nat /\ cursor' <= hub.sequence,
           Served'
    PROVE  StreamInv'
<1>1. StreamTypes /\ Connected
  BY DEF StreamInv
<1>2. /\ reading' = reading /\ answer' = answer /\ followUp' = followUp /\ received' = received
      /\ lastEventId' = lastEventId /\ hub' = hub /\ watcher' = watcher
  BY DEF browser, sidecar, watching
<1>3. StreamTypes' /\ Publishing'
  BY <1>1, <1>2, StreamStepTypes DEF StreamTypes
<1>4. Connected'
  BY <1>1, <1>2 DEF Connected, Up
<1>5. QED
  BY <1>3, <1>4 DEF StreamInv

LEMMA SendNewsKeeps ==
    ASSUME StreamInv, FirstFrames \/ NextFrames
    PROVE  StreamInv'
<1>1. StreamTypes /\ Connected /\ Served /\ handler \in {"accepted", "stream"}
  BY DEF StreamInv, FirstFrames, NextFrames
<1> DEFINE f == FramesFor(hub, cursor)
<1>2. /\ UNCHANGED <<store, sidecar, browser>> /\ cursor' = hub.sequence /\ hub' = hub
      /\ wire' = wire \o f
      /\ handler' = IF f = <<>> THEN IF handler = "accepted" THEN "snapshot" ELSE "heartbeat"
                    ELSE "stream"
  BY DEF FirstFrames, NextFrames, SendNews, Send, sidecar
<1>3. /\ f \in Seq(Frames) /\ \A k \in DOMAIN f : IsTick(f[k])
      /\ cursor \in Nat /\ cursor < hub.sequence => 1 \in DOMAIN f
      /\ f # <<>> => 1 \in DOMAIN f
  <2>1. hub \in [sequence : Nat, oldest : Nat] /\ cursor \in Nat \cup {None}
    BY <1>1 DEF StreamTypes
  <2>2. /\ f \in Seq(Frames) /\ \A k \in DOMAIN f : IsTick(f[k])
        /\ cursor \in Nat /\ cursor < hub.sequence => 1 \in DOMAIN f
    BY <2>1, NewsParts
  <2> HIDE DEF f
  <2>3. f # <<>> => 1 \in DOMAIN f
    BY <2>2
  <2>4. QED
    BY <2>2, <2>3
<1> HIDE DEF f
<1>4. \A k \in DOMAIN f : f[k].event # "snapshot"
  BY <1>3 DEF IsTick
<1>5. Behind => Behind' \/ \E k \in DOMAIN f : IsTick(f[k])
  <2>1. CASE handler = "accepted"
    BY <1>2, <1>3, <2>1 DEF Behind
  <2>2. CASE handler = "stream" /\ cursor # hub.sequence
    <3>1. cursor \in Nat /\ cursor < hub.sequence
      BY <1>1, <2>2 DEF Connected, StreamTypes
    <3>2. QED
      BY <1>3, <3>1
  <2>3. QED
    BY <1>1, <2>1, <2>2 DEF Behind
<1>6. Served'
  BY <1>1, <1>2, <1>3, <1>4, <1>5, SentServes
<1>7. wire' \in Seq(Frames) /\ (handler' \in Opening => wire' = <<>>)
  <2>1. wire \in Seq(Frames)
    BY <1>1 DEF StreamTypes
  <2>2. handler' \in Opening => f = <<>> /\ wire = <<>>
    BY <1>1, <1>2 DEF Opening, Connected
  <2>3. QED
    BY <1>2, <1>3, <2>1, <2>2
<1>8. /\ handler' \in Handlers \ {"none"} /\ handler # "none"
      /\ cursor' \in Nat /\ cursor' <= hub.sequence
  BY <1>1, <1>2 DEF Handlers, Opening, StreamTypes
<1>9. QED
  BY <1>2, <1>6, <1>7, <1>8, HandlerTypes

LEMMA SendHeartbeatKeeps ==
    ASSUME StreamInv, SendHeartbeat
    PROVE  StreamInv'
<1>1. StreamTypes /\ Connected /\ Served /\ handler = "heartbeat" /\ hub.sequence \in Nat
  BY DEF StreamInv, SendHeartbeat, StreamTypes
<1> DEFINE beat == [event |-> "heartbeat", id |-> hub.sequence]
           f == <<beat>>
<1>2. /\ UNCHANGED <<store, sidecar, browser>> /\ cursor' = cursor /\ hub' = hub
      /\ wire' = wire \o f /\ handler' = "stream"
  BY DEF SendHeartbeat, Send, Frame, sidecar
<1>3. beat \in Frames /\ beat.event = "heartbeat"
  BY <1>1 DEF Frames
<1> HIDE DEF beat
<1>4. f \in Seq(Frames) /\ \A k \in DOMAIN f : f[k].event # "snapshot"
  BY <1>3
<1> HIDE DEF f
<1>5. Behind => Behind'
  BY <1>1, <1>2 DEF Behind
<1>6. Served'
  BY <1>1, <1>2, <1>4, <1>5, SentServes
<1>7. wire' \in Seq(Frames) /\ handler' \notin Opening
  BY <1>1, <1>2, <1>4 DEF StreamTypes, Opening
<1>8. handler' \in Handlers \ {"none"} /\ handler # "none" /\ cursor' \in Nat /\ cursor' <= hub.sequence
  BY <1>1, <1>2 DEF Handlers, Opening, Connected
<1>9. QED
  BY <1>2, <1>6, <1>7, <1>8, HandlerTypes

(* The snapshot that opens the stream is fresh, and it is alone on its way. *)
LEMMA SendSnapshotKeeps ==
    ASSUME StreamInv, NEW verdict \in Verdict, SendSnapshot(verdict)
    PROVE  StreamInv'
<1>1. /\ StreamTypes /\ Publishing /\ Connected /\ Served /\ handler = "snapshot"
      /\ wire = <<>> /\ revision \in Nat
  BY DEF StreamInv, SendSnapshot, StreamTypes, Connected, Opening
<1> DEFINE contents == v3_snapshot(verdict)
           f == [event |-> "snapshot", id |-> revision, snapshot |-> contents]
<1>2. /\ UNCHANGED <<store, sidecar, browser>> /\ cursor' = cursor /\ hub' = hub
      /\ wire' = wire \o <<f>> /\ handler' = "stream"
  BY DEF SendSnapshot, Send, sidecar
<1>3. contents \in Contents /\ Fresh(contents)
  BY <1>1, SnapshotIsFresh
<1> HIDE DEF contents
<1>4. f \in Frames /\ f.event = "snapshot" /\ f.snapshot = contents
  BY <1>1, <1>3 DEF Frames
<1> HIDE DEF f
<1>5. wire' = <<f>>
  BY <1>1, <1>2, <1>4
<1>6. wire' \in Seq(Frames) /\ DOMAIN wire' = {1} /\ wire'[1] = f
  BY <1>4, <1>5
<1>7. /\ Announced' = Announced /\ reading' = reading /\ answer' = answer /\ followUp' = followUp
  BY <1>2 DEF Announced, sidecar, watching, browser
<1>8. Fresh(wire[1].snapshot)'
  BY <1>3, <1>4, <1>6, <1>7 DEF Fresh
<1>9. StreamOwes'
  BY <1>4, <1>6, <1>8 DEF StreamOwes
<1>10. Served'
  BY <1>6, <1>8, <1>9 DEF Served, StaleIsFollowed
<1>11. handler' \in Handlers \ {"none"} /\ handler # "none" /\ handler' \notin Opening
         /\ cursor' \in Nat /\ cursor' <= hub.sequence
  BY <1>1, <1>2 DEF Handlers, Opening, Connected
<1>12. QED
  BY <1>2, <1>6, <1>10, <1>11, HandlerTypes
(* The first frame arrives: what is owed is owed still, unless that frame   *)
(* was it.                                                                  *)
LEMMA ArrivalParts ==
    ASSUME StreamTypes, Served, wire # <<>>, wire' = Tail(wire),
           UNCHANGED <<store, sidecar, handler, cursor>>
    PROVE  /\ Announced' = Announced
           /\ \A i \in DOMAIN wire' : wire'[i].event = "snapshot" /\ ~Fresh(wire[i].snapshot)'
                 => Behind' \/ \E j \in DOMAIN wire' : j > i /\ IsTick(wire'[j])
           /\ StreamOwes => \/ StreamOwes'
                            \/ IsTick(Head(wire))
                            \/ Head(wire).event = "snapshot" /\ Fresh(Head(wire).snapshot)
           /\ Head(wire).event = "snapshot" /\ ~Fresh(Head(wire).snapshot) => StreamOwes'
<1>1. /\ Announced' = Announced /\ (Behind' <=> Behind)
  BY DEF Announced, Behind, sidecar, watching
<1>2. /\ Head(wire) = wire[1] /\ 1 \in DOMAIN wire /\ DOMAIN wire \subseteq Nat
      /\ \A i \in DOMAIN wire' : i + 1 \in DOMAIN wire /\ wire'[i] = wire[i + 1]
      /\ \A i \in DOMAIN wire : i # 1 => i - 1 \in DOMAIN wire' /\ wire'[i - 1] = wire[i]
      /\ wire' \in Seq(Frames)
  <2>1. PICK w, rest : w = wire /\ rest = Tail(w) /\ w \in Seq(Frames) /\ w # <<>>
    BY DEF StreamTypes
  <2>2. QED
    BY <2>1, TailParts
<1>3. \A i \in DOMAIN wire' : i \in Nat /\ i > 0
  BY <1>2
<1>4. ASSUME NEW i \in DOMAIN wire', wire'[i].event = "snapshot", ~Fresh(wire[i].snapshot)'
      PROVE  Behind' \/ \E j \in DOMAIN wire' : j > i /\ IsTick(wire'[j])
  <2>1. i + 1 \in DOMAIN wire /\ wire[i + 1].event = "snapshot" /\ ~Fresh(wire[i + 1].snapshot)
    BY <1>1, <1>2, <1>4 DEF Fresh
  <2>2. ASSUME NEW j \in DOMAIN wire, j > i + 1, IsTick(wire[j])
        PROVE  \E k \in DOMAIN wire' : k > i /\ IsTick(wire'[k])
    <3>1. j # 1 /\ j \in Nat /\ i \in Nat
      BY <1>2, <1>3, <2>2
    <3>2. j - 1 \in DOMAIN wire' /\ j - 1 > i /\ IsTick(wire'[j - 1])
      BY <1>2, <2>2, <3>1
    <3>3. QED
      BY <3>2
  <2>3. QED
    BY <1>1, <2>1, <2>2 DEF Served, StaleIsFollowed
<1>5. ASSUME NEW i \in DOMAIN wire, i # 1,
             \/ IsTick(wire[i])
             \/ wire[i].event = "snapshot" /\ Fresh(wire[i].snapshot)
      PROVE  StreamOwes'
  <2>1. i - 1 \in DOMAIN wire' /\ wire'[i - 1] = wire[i]
    BY <1>2, <1>5
  <2>2. CASE IsTick(wire[i])
    BY <2>1, <2>2 DEF StreamOwes
  <2>3. CASE wire[i].event = "snapshot" /\ Fresh(wire[i].snapshot)
    <3>1. wire'[i - 1].event = "snapshot" /\ Fresh(wire[i - 1].snapshot)'
      BY <1>1, <2>1, <2>3 DEF Fresh
    <3>2. QED
      BY <2>1, <3>1 DEF StreamOwes
  <2>4. QED
    BY <1>5, <2>2, <2>3
<1>6. Behind => StreamOwes'
  BY <1>1 DEF StreamOwes
<1>7. StreamOwes => \/ StreamOwes'
                    \/ IsTick(Head(wire))
                    \/ Head(wire).event = "snapshot" /\ Fresh(Head(wire).snapshot)
  BY <1>2, <1>5, <1>6 DEF StreamOwes
<1>8. ASSUME Head(wire).event = "snapshot", ~Fresh(Head(wire).snapshot)
      PROVE  StreamOwes'
  <2>1. Behind \/ \E j \in DOMAIN wire : j > 1 /\ IsTick(wire[j])
    BY <1>2, <1>8 DEF Served, StaleIsFollowed
  <2>2. ASSUME NEW j \in DOMAIN wire, j > 1, IsTick(wire[j]) PROVE StreamOwes'
    BY <1>2, <1>5, <2>2
  <2>3. QED
    BY <1>6, <2>1, <2>2
<1>9. QED
  BY <1>1, <1>4, <1>7, <1>8

LEMMA DeliverKeeps ==
    ASSUME StreamInv, Deliver
    PROVE  StreamInv'
<1> DEFINE frame == Head(wire)
<1>1. /\ StreamTypes /\ Publishing /\ Connected /\ Served
      /\ handler \in {"stream", "heartbeat"}
  BY DEF StreamInv, Deliver, Connected, Opening, StreamTypes, Handlers
<1>2. /\ UNCHANGED <<store, sidecar, handler, cursor>> /\ wire # <<>> /\ wire' = Tail(wire)
      /\ lastEventId' = frame.id /\ answer' = answer
  BY DEF Deliver
<1>3. frame \in Frames /\ Tail(wire) \in Seq(Frames)
  BY <1>1, <1>2, TailParts DEF StreamTypes
<1>4. /\ frame.event \in {"observed", "resync_required", "heartbeat", "snapshot"}
      /\ frame.id \in Nat
      /\ frame.event = "snapshot" => frame.snapshot \in Contents /\ frame.snapshot.version \in Nat
  BY <1>3, FrameParts
<1>5. Announced \in Nat
  BY <1>1, AnnouncedBound
<1>6. /\ frame.event = "snapshot"
           => Apply(frame.snapshot) /\ reading' = reading /\ followUp' = followUp
      /\ IsTick(frame) => Tick /\ received' = received /\ error' = error
      /\ frame.event = "heartbeat"
           => /\ reading' = reading /\ followUp' = followUp
              /\ received' = received /\ error' = error
  BY <1>4 DEF Deliver, IsTick
<1> HIDE DEF frame
<1>7. /\ Announced' = Announced
      /\ \A i \in DOMAIN wire' : wire'[i].event = "snapshot" /\ ~Fresh(wire[i].snapshot)'
            => Behind' \/ \E j \in DOMAIN wire' : j > i /\ IsTick(wire'[j])
      /\ StreamOwes => \/ StreamOwes'
                       \/ IsTick(frame)
                       \/ frame.event = "snapshot" /\ Fresh(frame.snapshot)
      /\ frame.event = "snapshot" /\ ~Fresh(frame.snapshot) => StreamOwes'
  BY <1>1, <1>2, ArrivalParts DEF frame
<1>8. /\ reading' \in {"no", "asked", "answered", "failed"} /\ followUp' \in BOOLEAN
      /\ reading' = "answered" => reading = "answered"
      /\ received' \in Nat \cup {-1} /\ received' >= received
      /\ received >= Announced => received' >= Announced'
      /\ Fresh(answer)' <=> Fresh(answer)
  <2>1. /\ reading \in {"no", "asked", "answered", "failed"} /\ followUp \in BOOLEAN
        /\ received \in Nat \cup {-1}
    BY <1>1 DEF StreamTypes
  <2>2. /\ reading' \in {"no", "asked", "answered", "failed"} /\ followUp' \in BOOLEAN
        /\ reading' = "answered" => reading = "answered"
    BY <1>1, <1>4, <1>6, <2>1, TickParts DEF IsTick
  <2>3. received' \in Nat \cup {-1} /\ received' >= received
    <3>1. CASE frame.event = "snapshot"
      BY <1>4, <1>6, <2>1, <3>1, AppliedParts
    <3>2. CASE frame.event # "snapshot"
      BY <1>4, <1>6, <2>1, <3>2 DEF IsTick
    <3>3. QED
      BY <3>1, <3>2
  <2>4. QED
    BY <1>2, <1>5, <1>7, <2>1, <2>2, <2>3 DEF Fresh
<1>9. StreamTypes' /\ Publishing'
  <2>1. handler' \in Handlers /\ cursor' \in Nat \cup {None}
    BY <1>1, <1>2 DEF StreamTypes
  <2>2. QED
    BY <1>2, <1>3, <1>4, <1>8, <2>1, StreamStepTypes
<1>10. Connected'
  BY <1>1, <1>2 DEF Connected, Opening, Up, sidecar, watching
<1>11. Served'
  <2>1. CASE frame.event = "snapshot"
    <3>1. received' >= Announced' \/ StreamOwes'
      <4>1. CASE Fresh(frame.snapshot)
        <5>1. received' >= frame.snapshot.version
          BY <1>1, <1>4, <1>6, <2>1, AppliedParts DEF StreamTypes
        <5>2. QED
          BY <1>4, <1>5, <1>7, <1>8, <2>1, <4>1, <5>1 DEF Fresh
      <4>2. QED
        BY <1>7, <2>1, <4>1
    <3>2. QED
      BY <1>7, <3>1 DEF Served, StaleIsFollowed
  <2>2. CASE IsTick(frame)
    <3>1. /\ reading' \in {"asked", "answered", "failed"}
          /\ reading' = "asked" \/ followUp'
          /\ reading' = "answered" => followUp'
      BY <1>1, <1>6, <2>2, TickParts
    <3>2. ReadOwes'
      BY <3>1 DEF ReadOwes
    <3>3. QED
      BY <1>7, <3>1, <3>2 DEF Served, StaleIsFollowed
  <2>3. CASE frame.event = "heartbeat"
    <3>1. StreamOwes => StreamOwes'
      BY <1>7, <2>3 DEF IsTick
    <3>2. ReadOwes => ReadOwes'
      BY <1>6, <1>8, <2>3 DEF ReadOwes
    <3>3. reading' = "answered" /\ ~Fresh(answer)'
            => followUp' \/ StreamOwes' \/ received' >= Announced'
      BY <1>1, <1>6, <1>8, <2>3, <3>1 DEF Served, StaleIsFollowed
    <3>4. received' >= Announced' \/ error' \/ StreamOwes' \/ ReadOwes'
      BY <1>1, <1>6, <1>8, <2>3, <3>1, <3>2 DEF Served
    <3>5. QED
      BY <1>7, <3>3, <3>4 DEF Served, StaleIsFollowed
  <2>4. QED
    BY <1>4, <2>1, <2>2, <2>3 DEF IsTick
<1>12. QED
  BY <1>9, <1>10, <1>11 DEF StreamInv

-----------------------------------------------------------------------------
LEMMA StreamInit == Init => StreamInv
<1> SUFFICES ASSUME Init PROVE StreamInv
  OBVIOUS
<1>1. StreamTypes
  <2>1. hub \in [sequence : Nat, oldest : Nat] /\ wire \in Seq(Frames)
    BY DEF Init, SeededHub
  <2>2. watcher \in Watchers /\ handler \in Handlers
    BY DEF Init, Watchers, Handlers, Opening
  <2>3. received \in Nat \cup {-1} /\ reading = "no" /\ followUp \in BOOLEAN
    BY DEF Init
  <2>4. QED
    BY <2>1, <2>2, <2>3 DEF Init, StreamTypes
<1>2. Publishing
  BY DEF Init, Publishing
<1>3. Connected /\ handler = "none"
  BY DEF Init, Connected
<1>4. QED
  BY <1>1, <1>2, <1>3 DEF StreamInv

LEMMA StreamStep == StreamInv /\ [Next]_vars => StreamInv'
<1> SUFFICES ASSUME StreamInv, [Next]_vars PROVE StreamInv'
  OBVIOUS
<1>1. CASE BackgroundStep
  BY <1>1, BackgroundKeeps
<1>2. CASE Publish
  BY <1>2, PublishServes
<1>3. CASE Start \/ Crash \/ Disconnect \/ ConnectRefused
  BY <1>3, BrokenKeeps
<1>4. CASE Reader \/ AnswerFails \/ Timer
  BY <1>4, AnswerKeeps, FinishReadKeeps, TimerKeeps DEF Reader
<1>5. CASE Handler
  BY <1>5, SendNewsKeeps, SendHeartbeatKeeps, SendSnapshotKeeps DEF Handler
<1>6. CASE Connect \/ Deliver
  BY <1>6, ConnectKeeps, DeliverKeeps
<1>7. QED
  BY <1>1, <1>2, <1>3, <1>4, <1>5, <1>6 DEF Next, Watcher, BackgroundStep

(* When the stream has said everything and no read runs, the browser was    *)
(* sent what the watcher announced or shows an error (sse_revision.py,      *)
(* sidecar.py, api.ts), however often connections break, calls fail and the *)
(* sidecar dies, and however much is written.                               *)
THEOREM QuietBrowserIsCurrent == Spec => []QuietMeansCurrent
<1>1. Init => StreamInv
  BY StreamInit
<1>2. StreamInv /\ [Next]_vars => StreamInv'
  BY StreamStep
<1>3. StreamInv => QuietMeansCurrent
  <2> SUFFICES ASSUME StreamInv, handler \in {"stream", "heartbeat"}, cursor = hub.sequence,
                      wire = <<>>, reading = "no"
               PROVE  received >= Announced \/ error
    BY DEF QuietMeansCurrent
  <2>1. received >= Announced \/ error \/ StreamOwes \/ ReadOwes
    BY DEF StreamInv, Served
  <2>2. ~StreamOwes /\ ~ReadOwes
    BY DEF StreamOwes, ReadOwes, Behind
  <2>3. QED
    BY <2>1, <2>2
<1>4. QED
  BY <1>1, <1>2, <1>3, PTL DEF Spec
=============================================================================
