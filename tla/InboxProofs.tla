---------------------------- MODULE InboxProofs -----------------------------
(* The inbox, for any tasks, receipts, logs, batches and crashes.  Of the   *)
(* state file when one process at a time has it open: no accepted receipt   *)
(* is lost, none is pending twice, although recovery promotes what it does  *)
(* not read.  Of ingestion: what will be dropped as a duplicate has its     *)
(* task in the ledger.                                                      *)
EXTENDS InboxFile, InboxIngest, TLAPS

Content == State \cup {Torn, Empty}
Temp == [owner : Process \cup {None}, content : Content]

(* A state that a method may begin with or leave behind.                    *)
Holds(d, a) ==
    \E i \in DOMAIN d.outbox : d.outbox[i].task = a[1] /\ d.outbox[i].receipt = a[2]
Keeps(d) == \A a \in accepted : Holds(d, a)
Single(d) ==
    \A i, j \in DOMAIN d.outbox :
        d.outbox[i].state = "PENDING" /\ d.outbox[i] = d.outbox[j] => i = j
Good(content) == content \in State => Keeps(content) /\ Single(content)

FileTypes ==
    /\ file \in Content \cup {None}
    /\ temps \in Seq(Temp)
    /\ pc \in [Process -> Step]
    /\ copy \in [Process -> State \cup {None}]
    /\ accepted \subseteq Task \X Body

(* One process has the namespace open, and no temporary file but its own is *)
(* left when it has recovered.                                              *)
OneOpen == \A p, q \in Process : pc[p] # "closed" /\ pc[q] # "closed" => p = q
OneTemp ==
    /\ Len(temps) <= 1
    /\ \A p \in Process :
          /\ pc[p] \in {"ensure", "idle", "open"} => temps = <<>>
          /\ pc[p] \in {"fill", "replace"} => \A i \in DOMAIN temps : temps[i].owner = p

CopyIsWhole == \A p \in Process : pc[p] \in {"open", "fill", "replace"} => copy[p] \in State

(* A process that died has lost its copy.                                   *)
ClosedHasNoCopy == \A p \in Process : pc[p] \notin {"open", "fill", "replace"} => copy[p] = None

(* Whatever can become the state is a good one.                             *)
AllGood ==
    /\ Good(file)
    /\ file = None => accepted = {}
    /\ \A p \in Process : Good(copy[p])
    /\ \A i \in DOMAIN temps : Good(temps[i].content)

FileInv == FileTypes /\ OneOpen /\ OneTemp /\ CopyIsWhole /\ ClosedHasNoCopy /\ AllGood

-----------------------------------------------------------------------------
(* States *)

LEMMA InitialIsGood ==
    /\ InitialState \in State
    /\ Single(InitialState)
    /\ accepted = {} => Keeps(InitialState)
BY DEF InitialState, State, Single, Keeps

(* A receipt that is not pending is added at the end.                       *)
LEMMA EnqueuedIsGood ==
    ASSUME NEW old \in State, NEW t \in Task, NEW body \in Body, ~PendingIn(old, t, body),
           Keeps(old), Single(old), NEW new,
           new = [old EXCEPT !.outbox = Append(old.outbox,
                        [task |-> t, receipt |-> body, state |-> "PENDING"])]
    PROVE  new \in State /\ Keeps(new) /\ Single(new)
<1> DEFINE r == [task |-> t, receipt |-> body, state |-> "PENDING"]
<1>1. r \in Record
  BY DEF Record
<1>2. old.outbox \in Seq(Record)
  BY DEF State
<1>3. new \in State /\ new.outbox = Append(old.outbox, r)
  BY <1>1, <1>2 DEF State
<1>4. /\ DOMAIN new.outbox = 1..(Len(old.outbox) + 1)
      /\ DOMAIN old.outbox = 1..Len(old.outbox)
      /\ Len(old.outbox) \in Nat
      /\ \A i \in DOMAIN old.outbox : new.outbox[i] = old.outbox[i]
      /\ new.outbox[Len(old.outbox) + 1] = r
  BY <1>1, <1>2, <1>3
<1>5. Keeps(new)
  BY <1>4 DEF Keeps, Holds
<1>6. \A i \in DOMAIN old.outbox : old.outbox[i] # r
  BY DEF PendingIn
<1>7. Single(new)
  BY <1>4, <1>6 DEF Single
<1> QED
  BY <1>3, <1>5, <1>7

LEMMA DeliveredRecord ==
    ASSUME NEW r \in Record, NEW d, d = [r EXCEPT !.state = "DELIVERED"]
    PROVE  d \in Record /\ d.task = r.task /\ d.receipt = r.receipt /\ d.state # "PENDING"
BY DEF Record

(* The records of one task are delivered.                                   *)
LEMMA DeliveredIsGood ==
    ASSUME NEW old \in State, NEW t \in Task, Keeps(old), Single(old), NEW new,
           new = [old EXCEPT !.outbox = Delivered(old.outbox, t)]
    PROVE  new \in State /\ Keeps(new) /\ Single(new)
<1>1. old.outbox \in Seq(Record) /\ \A i \in DOMAIN old.outbox : old.outbox[i] \in Record
  BY DEF State
<1>2. /\ DOMAIN new.outbox = DOMAIN old.outbox
      /\ \A i \in DOMAIN old.outbox :
            new.outbox[i] = IF old.outbox[i].task = t
                            THEN [old.outbox[i] EXCEPT !.state = "DELIVERED"] ELSE old.outbox[i]
  BY DEF State, Delivered
<1>3. \A i \in DOMAIN old.outbox :
          /\ new.outbox[i] \in Record
          /\ new.outbox[i].task = old.outbox[i].task
          /\ new.outbox[i].receipt = old.outbox[i].receipt
          /\ new.outbox[i].state = "PENDING" => new.outbox[i] = old.outbox[i]
  <2> SUFFICES ASSUME NEW i \in DOMAIN old.outbox
               PROVE  /\ new.outbox[i] \in Record
                      /\ new.outbox[i].task = old.outbox[i].task
                      /\ new.outbox[i].receipt = old.outbox[i].receipt
                      /\ new.outbox[i].state = "PENDING" => new.outbox[i] = old.outbox[i]
    OBVIOUS
  <2>1. CASE old.outbox[i].task = t
    <3>1. PICK r \in Record : r = old.outbox[i]
      BY <1>1
    <3>2. new.outbox[i] = [r EXCEPT !.state = "DELIVERED"]
      BY <1>2, <2>1, <3>1
    <3>3. /\ new.outbox[i] \in Record /\ new.outbox[i].task = r.task
          /\ new.outbox[i].receipt = r.receipt /\ new.outbox[i].state # "PENDING"
      BY <3>2, DeliveredRecord
    <3> QED
      BY <3>1, <3>3
  <2>2. CASE old.outbox[i].task # t
    BY <1>1, <1>2, <2>2
  <2> QED
    BY <2>1, <2>2
<1>4. new \in State
  <2>1. DOMAIN old.outbox = 1..Len(old.outbox) /\ Len(old.outbox) \in Nat
    BY <1>1
  <2>2. new.outbox \in Seq(Record)
    <3>1. new.outbox = [i \in DOMAIN old.outbox |->
                        IF old.outbox[i].task = t THEN [old.outbox[i] EXCEPT !.state = "DELIVERED"]
                        ELSE old.outbox[i]]
      BY DEF State, Delivered
    <3> QED
      BY <1>2, <1>3, <2>1, <3>1
  <2>3. new = [outbox |-> new.outbox, subscription |-> old.subscription]
    BY DEF State
  <2> QED
    BY <2>2, <2>3 DEF State
<1>5. Keeps(new)
  BY <1>2, <1>3 DEF Keeps, Holds
<1>6. Single(new)
  BY <1>2, <1>3 DEF Single
<1> QED
  BY <1>4, <1>5, <1>6

(* The subscription is no part of the outbox.                               *)
LEMMA SubscribedIsGood ==
    ASSUME NEW old \in State, NEW s \in {"none", "active", "paused"}, Keeps(old), Single(old),
           NEW new, new = [old EXCEPT !.subscription = s]
    PROVE  new \in State /\ Keeps(new) /\ Single(new)
<1>1. new \in State /\ new.outbox = old.outbox
  BY DEF State
<1> QED
  BY <1>1 DEF Keeps, Holds, Single

LEMMA FileInit == Init => FileInv
BY OthersAreNoStates
   DEF Init, FileInv, FileTypes, OneOpen, OneTemp, CopyIsWhole, ClosedHasNoCopy, AllGood, Good, Content, Step

-----------------------------------------------------------------------------
(* Steps *)

LEMMA StepIsAString ==
    ASSUME FileTypes, NEW p \in Process, NEW step \in Step, At(p, step)
    PROVE  /\ pc' \in [Process -> Step]
           /\ pc'[p] = step
           /\ \A q \in Process : q # p => pc'[q] = pc[q]
BY DEF FileTypes, At

LEMMA ConstructStep ==
    ASSUME FileInv, ~Shared, NEW p \in Process, Construct(p)
    PROVE  FileInv'
<1>1. /\ pc' \in [Process -> Step]
      /\ pc'[p] = "recover"
      /\ \A q \in Process : q # p => pc'[q] = pc[q]
  BY StepIsAString DEF FileInv, Construct, Step
<1>2. UNCHANGED <<file, temps, copy, accepted>> /\ \A q \in Process : pc[q] = "closed"
  BY DEF Construct
<1> QED
  BY <1>1, <1>2 DEF FileInv, FileTypes, OneOpen, OneTemp, CopyIsWhole, ClosedHasNoCopy, AllGood, Good, Keeps, Single

(* The newest temporary file, unless it is empty, becomes the state.        *)
LEMMA RecoverStep ==
    ASSUME FileInv, NEW p \in Process, Recover(p)
    PROVE  FileInv'
<1>1. /\ pc' \in [Process -> Step]
      /\ pc'[p] = "ensure"
      /\ \A q \in Process : q # p => pc'[q] = pc[q]
  BY StepIsAString DEF FileInv, Recover, Step
<1>2. \A q \in Process : q # p => pc'[q] = "closed"
  BY <1>1 DEF FileInv, OneOpen, Recover
<1>3. temps' = <<>> /\ UNCHANGED <<copy, accepted>>
  BY DEF Recover
<1>4. /\ file' \in Content \cup {None}
      /\ Good(file')
      /\ file' = None => accepted = {}
  <2>1. CASE temps = <<>>
    BY <2>1 DEF Recover, FileInv, FileTypes, AllGood
  <2>2. CASE temps # <<>>
    <3>1. Len(temps) \in DOMAIN temps /\ temps \in Seq(Temp)
      BY <2>2 DEF FileInv, FileTypes
    <3>2. PICK i \in DOMAIN temps : Last(temps) = temps[i]
      BY <3>1 DEF Last
    <3>3. temps[i] \in Temp
      BY <3>1, <3>2
    <3>4. temps[i].content \in Content /\ Good(temps[i].content)
      BY <3>2, <3>3 DEF FileInv, AllGood, Temp
    <3>5. temps[i].content # None
      BY <3>4, OthersAreNoStates, ThreeContents DEF Content
    <3>6. file' = IF temps[i].content = Empty THEN file ELSE temps[i].content
      BY <2>2, <3>2 DEF Recover, Recovered
    <3> QED
      BY <3>4, <3>5, <3>6 DEF FileInv, FileTypes, AllGood
  <2> QED
    BY <2>1, <2>2
<1>5. FileTypes'
  BY <1>1, <1>3, <1>4 DEF FileInv, FileTypes
<1>6. OneOpen' /\ OneTemp' /\ CopyIsWhole' /\ ClosedHasNoCopy'
  BY <1>1, <1>2, <1>3 DEF FileInv, OneOpen, OneTemp, CopyIsWhole, ClosedHasNoCopy, Recover
<1>7. AllGood'
  BY <1>3, <1>4 DEF FileInv, AllGood, Good, Keeps, Single
<1> QED
  BY <1>5, <1>6, <1>7 DEF FileInv

(* A process begins to write a good state.                                  *)
LEMMA BeginStep ==
    ASSUME FileInv, NEW p \in Process, pc[p] \in {"ensure", "idle"}, At(p, "open"),
           NEW new \in State, Keeps(new), Single(new),
           copy' = [copy EXCEPT ![p] = new], UNCHANGED <<file, temps, accepted>>
    PROVE  FileInv'
<1>1. /\ pc' \in [Process -> Step]
      /\ pc'[p] = "open"
      /\ \A q \in Process : q # p => pc'[q] = pc[q]
  BY StepIsAString DEF FileInv, Step
<1>2. /\ copy' \in [Process -> State \cup {None}]
      /\ copy'[p] = new
      /\ \A q \in Process : q # p => copy'[q] = copy[q]
  BY DEF FileInv, FileTypes
<1>3. FileTypes'
  BY <1>1, <1>2 DEF FileInv, FileTypes
<1>4. OneOpen' /\ OneTemp' /\ CopyIsWhole' /\ ClosedHasNoCopy'
  BY <1>1, <1>2 DEF FileInv, OneOpen, OneTemp, CopyIsWhole, ClosedHasNoCopy
<1>5. AllGood'
  BY <1>2 DEF FileInv, AllGood, Good, Keeps, Single
<1> QED
  BY <1>3, <1>4, <1>5 DEF FileInv

LEMMA EnsureStep ==
    ASSUME FileInv, NEW p \in Process, Ensure(p)
    PROVE  FileInv'
<1>1. CASE file = None
  BY <1>1, BeginStep, InitialIsGood DEF Ensure, FileInv, AllGood
<1>2. CASE file # None
  <2>1. /\ pc' \in [Process -> Step]
        /\ pc'[p] = "idle"
        /\ \A q \in Process : q # p => pc'[q] = pc[q]
    BY <1>2, StepIsAString DEF FileInv, Ensure, Step
  <2>2. UNCHANGED <<file, temps, copy, accepted>> /\ pc[p] = "ensure"
    BY <1>2 DEF Ensure
  <2> QED
    BY <2>1, <2>2
    DEF FileInv, FileTypes, OneOpen, OneTemp, CopyIsWhole, ClosedHasNoCopy, AllGood, Good, Keeps, Single
<1> QED
  BY <1>1, <1>2

LEMMA MethodStep ==
    ASSUME FileInv, NEW p \in Process, Method(p)
    PROVE  FileInv'
<1>1. ASSUME NEW new \in State, Keeps(new), Single(new), Change(p, new)
      PROVE  FileInv'
  BY <1>1, BeginStep DEF Change
<1>2. file \in State => Keeps(file) /\ Single(file)
  BY DEF FileInv, AllGood, Good
<1>3. ASSUME NEW t \in Task, NEW body \in Body, EnqueueOutbox(p, t, body)
      PROVE  FileInv'
  <2> DEFINE new == [file EXCEPT !.outbox = Append(file.outbox,
                        [task |-> t, receipt |-> body, state |-> "PENDING"])]
  <2>1. file \in State /\ ~PendingIn(file, t, body) /\ Change(p, new)
    BY <1>3 DEF EnqueueOutbox
  <2>2. new \in State /\ Keeps(new) /\ Single(new)
    BY <1>2, <2>1, EnqueuedIsGood
  <2> HIDE DEF new
  <2> QED
    BY <1>1, <2>1, <2>2
<1>4. ASSUME NEW t \in Task, MarkOutboxDelivered(p, t)
      PROVE  FileInv'
  <2> DEFINE new == [file EXCEPT !.outbox = Delivered(file.outbox, t)]
  <2>1. file \in State /\ Change(p, new)
    BY <1>4 DEF MarkOutboxDelivered
  <2>2. new \in State /\ Keeps(new) /\ Single(new)
    BY <1>2, <2>1, DeliveredIsGood
  <2> HIDE DEF new
  <2> QED
    BY <1>1, <2>1, <2>2
<1>5. ASSUME NEW s \in {"none", "active", "paused"}, file \in State,
             Change(p, [file EXCEPT !.subscription = s])
      PROVE  FileInv'
  <2> DEFINE new == [file EXCEPT !.subscription = s]
  <2>1. new \in State /\ Keeps(new) /\ Single(new)
    BY <1>2, <1>5, SubscribedIsGood
  <2>2. Change(p, new)
    BY <1>5
  <2> HIDE DEF new
  <2> QED
    BY <1>1, <2>1, <2>2
<1>6. CASE Subscribe(p)
  <2>1. file.subscription \in {"none", "active", "paused"}
    BY <1>6 DEF Subscribe, State
  <2>2. PICK s \in {"none", "active", "paused"} :
            s = IF file.subscription = "none" THEN "active" ELSE file.subscription
    BY <2>1
  <2>3. file \in State /\ Change(p, [file EXCEPT !.subscription = s])
    BY <1>6, <2>2 DEF Subscribe
  <2> QED
    BY <1>5, <2>3
<1>7. CASE PauseSubscription(p)
  BY <1>5, <1>7 DEF PauseSubscription
<1>8. CASE ResumeSubscription(p)
  BY <1>5, <1>8 DEF ResumeSubscription
<1> QED
  BY <1>3, <1>4, <1>6, <1>7, <1>8 DEF Method

(* Only the writer's temporary file exists while it writes.                 *)
LEMMA TempsOfWriter ==
    ASSUME FileInv, NEW p \in Process, pc[p] \in {"fill", "replace"}
    PROVE  /\ \A q \in Process : q # p => pc[q] = "closed" /\ copy[q] = None
           /\ Mine(p) = DOMAIN temps
           /\ copy[p] \in State /\ Good(copy[p])
           /\ temps \in Seq(Temp) /\ Len(temps) \in {0, 1}
<1>1. \A q \in Process : q # p => pc[q] = "closed"
  BY DEF FileInv, OneOpen
<1>2. \A q \in Process : q # p => copy[q] = None
  BY <1>1 DEF FileInv, ClosedHasNoCopy
<1>3. Mine(p) = DOMAIN temps
  BY DEF FileInv, OneTemp, Mine
<1>4. copy[p] \in State /\ Good(copy[p])
  BY DEF FileInv, CopyIsWhole, AllGood
<1>5. temps \in Seq(Temp) /\ Len(temps) \in {0, 1}
  <2>1. temps \in Seq(Temp) /\ Len(temps) <= 1
    BY DEF FileInv, FileTypes, OneTemp
  <2>2. PICK n \in Nat : n = Len(temps)
    BY <2>1
  <2>3. n \in {0, 1}
    BY <2>1, <2>2
  <2> QED
    BY <2>1, <2>2, <2>3
<1> QED
  BY <1>1, <1>2, <1>3, <1>4, <1>5

LEMMA OpenStep ==
    ASSUME FileInv, NEW p \in Process, Open(p)
    PROVE  FileInv'
<1>1. /\ pc' \in [Process -> Step]
      /\ pc'[p] = "fill"
      /\ \A q \in Process : q # p => pc'[q] = pc[q]
  BY StepIsAString DEF FileInv, Open, Step
<1>2. temps = <<>> /\ pc[p] = "open" /\ UNCHANGED <<file, copy, accepted>>
  BY DEF FileInv, OneTemp, Open
<1>3. PICK temp \in Temp : temp.owner = p /\ temp.content = Empty /\ temps' = Append(temps, temp)
  BY DEF Open, Temp, Content
<1>4. temps' \in Seq(Temp) /\ Len(temps') = 1 /\ temps'[1] = temp /\ DOMAIN temps' = {1}
  BY <1>2, <1>3
<1>5. \A q \in Process : q # p => pc'[q] = "closed"
  BY <1>1, <1>2 DEF FileInv, OneOpen
<1>6. FileTypes'
  BY <1>1, <1>2, <1>4 DEF FileInv, FileTypes
<1>7. OneOpen' /\ OneTemp'
  BY <1>1, <1>3, <1>4, <1>5 DEF OneOpen, OneTemp
<1>8. CopyIsWhole' /\ ClosedHasNoCopy'
  BY <1>1, <1>2 DEF FileInv, CopyIsWhole, ClosedHasNoCopy
<1>9. AllGood'
  BY <1>2, <1>3, <1>4, OthersAreNoStates DEF FileInv, AllGood, Good, Keeps, Single
<1> QED
  BY <1>6, <1>7, <1>8, <1>9 DEF FileInv

LEMMA FillStep ==
    ASSUME FileInv, NEW p \in Process, Fill(p)
    PROVE  FileInv'
<1>1. pc[p] = "fill" /\ UNCHANGED <<file, copy, accepted>>
  BY DEF Fill
<1>2. PICK content \in {Torn, copy[p]} :
          /\ temps' = [i \in DOMAIN temps |->
                          IF i \in Mine(p) THEN [owner |-> p, content |-> content] ELSE temps[i]]
          /\ IF content = Torn THEN UNCHANGED pc ELSE At(p, "replace")
  BY DEF Fill
<1>3. /\ pc' \in [Process -> Step]
      /\ pc'[p] \in {"fill", "replace"}
      /\ \A q \in Process : q # p => pc'[q] = "closed"
  <2>1. CASE content = Torn
    BY <1>1, <1>2, <2>1, TempsOfWriter DEF FileInv, FileTypes
  <2>2. CASE content # Torn
    BY <1>1, <1>2, <2>2, TempsOfWriter, StepIsAString DEF FileInv, Step
  <2> QED
    BY <2>1, <2>2
<1>4. content \in Content /\ Good(content)
  BY <1>1, TempsOfWriter, OthersAreNoStates DEF Content, Good
<1>5. /\ DOMAIN temps = 1..Len(temps) /\ Len(temps) \in {0, 1}
      /\ temps' = [i \in DOMAIN temps |-> [owner |-> p, content |-> content]]
  BY <1>1, <1>2, TempsOfWriter
<1>6. [owner |-> p, content |-> content] \in Temp
  BY <1>4 DEF Temp
<1>7. temps' \in Seq(Temp) /\ Len(temps') <= 1
      /\ \A i \in DOMAIN temps' : temps'[i].owner = p /\ temps'[i].content = content
  BY <1>5, <1>6
<1>8. FileTypes'
  BY <1>1, <1>3, <1>7 DEF FileInv, FileTypes
<1>9. OneOpen' /\ OneTemp'
  BY <1>3, <1>7 DEF OneOpen, OneTemp
<1>10. CopyIsWhole' /\ ClosedHasNoCopy'
  BY <1>1, <1>3, TempsOfWriter DEF CopyIsWhole, ClosedHasNoCopy
<1>11. AllGood'
  BY <1>1, <1>4, <1>7 DEF FileInv, AllGood, Good, Keeps, Single
<1> QED
  BY <1>8, <1>9, <1>10, <1>11 DEF FileInv

(* The rename makes the copy the state; what it enqueued is accepted now.   *)
LEMMA ReplaceStep ==
    ASSUME FileInv, NEW p \in Process, Replace(p)
    PROVE  FileInv'
<1>1. /\ pc' \in [Process -> Step]
      /\ pc'[p] = "idle"
      /\ \A q \in Process : q # p => pc'[q] = pc[q]
  BY StepIsAString DEF FileInv, Replace, Step
<1>2. /\ \A q \in Process : q # p => pc'[q] = "closed" /\ copy[q] = None
      /\ Mine(p) = DOMAIN temps
      /\ copy[p] \in State /\ Good(copy[p])
      /\ temps \in Seq(Temp) /\ Len(temps) \in {0, 1}
  BY <1>1, TempsOfWriter DEF Replace
<1>3. /\ copy' \in [Process -> State \cup {None}]
      /\ copy'[p] = None
      /\ \A q \in Process : copy'[q] = None
  BY <1>2 DEF Replace, FileInv, FileTypes
<1>4. CASE Mine(p) = {}
  <2>1. temps = <<>>
    <3>1. temps \in Seq(Temp) /\ DOMAIN temps = {}
      BY <1>2, <1>4
    <3>2. ASSUME temps # <<>> PROVE Len(temps) \in DOMAIN temps
      BY <3>1, <3>2
    <3> QED
      BY <3>1, <3>2
  <2>2. UNCHANGED <<file, temps, accepted>>
    BY <1>4 DEF Replace
  <2>3. FileTypes'
    BY <1>1, <1>3, <2>2 DEF FileInv, FileTypes
  <2>4. OneOpen' /\ OneTemp' /\ CopyIsWhole' /\ ClosedHasNoCopy'
    BY <1>1, <1>2, <1>3, <2>1, <2>2 DEF OneOpen, OneTemp, CopyIsWhole, ClosedHasNoCopy
  <2>5. AllGood'
    BY <1>3, <2>2, OthersAreNoStates DEF FileInv, AllGood, Good, Keeps, Single
  <2> QED
    BY <2>3, <2>4, <2>5 DEF FileInv
<1>5. CASE Mine(p) # {}
  <2>1. Len(temps) = 1 /\ Mine(p) = {1}
    BY <1>2, <1>5
  <2>2. /\ file' = copy[p]
        /\ temps' = RemoveAt(temps, CHOOSE i \in Mine(p) : TRUE)
        /\ accepted' = accepted \cup {a \in Task \X Body : PendingIn(copy[p], a[1], a[2])}
    BY <1>5 DEF Replace
  <2>3. temps' = <<>>
    <3>1. (CHOOSE i \in Mine(p) : TRUE) = 1
      BY <2>1
    <3>2. temps' = SubSeq(temps, 1, 0) \o SubSeq(temps, 2, 1)
      BY <2>1, <2>2, <3>1 DEF RemoveAt
    <3> QED
      BY <1>2, <2>1, <3>2
  <2>4. PICK new \in State : new = copy[p]
    BY <1>2
  <2>5. Keeps(new) /\ Single(new)
    BY <1>2, <2>4 DEF Good
  <2>6. \A a \in accepted' : Holds(new, a)
    <3>1. ASSUME NEW a \in Task \X Body, PendingIn(new, a[1], a[2])
          PROVE  Holds(new, a)
      BY <3>1 DEF PendingIn, Holds
    <3> QED
      BY <2>2, <2>4, <2>5, <3>1 DEF Keeps
  <2>7. Good(file)'
    BY <2>2, <2>4, <2>5, <2>6 DEF Good, Keeps, Single
  <2>8. \A q \in Process : Good(copy[q])'
    <3>1. None \notin State
      BY OthersAreNoStates
    <3>2. \A q \in Process : copy'[q] \notin State
      BY <1>3, <3>1
    <3> QED
      BY <3>2 DEF Good
  <2>9. AllGood'
    <3>1. None \notin State
      BY OthersAreNoStates
    <3>2. file' # None
      BY <1>2, <2>2, <3>1
    <3>3. DOMAIN temps' = {}
      BY <2>3
    <3>4. \A i \in DOMAIN temps' : Good(temps[i].content)'
      BY <3>3
    <3>5. (file = None => accepted = {})'
      BY <3>2
    <3> QED
      BY <2>7, <2>8, <3>4, <3>5, Zenon DEF AllGood
  <2>10. FileTypes'
    <3>1. file' \in Content \cup {None}
      BY <1>2, <2>2 DEF Content
    <3>2. accepted' \subseteq Task \X Body
      BY <2>2 DEF FileInv, FileTypes
    <3> QED
      BY <1>1, <1>3, <2>3, <3>1, <3>2 DEF FileTypes
  <2>11. OneOpen' /\ OneTemp' /\ CopyIsWhole' /\ ClosedHasNoCopy'
    BY <1>1, <1>2, <1>3, <2>3 DEF OneOpen, OneTemp, CopyIsWhole, ClosedHasNoCopy
  <2> QED
    BY <2>9, <2>10, <2>11 DEF FileInv
<1> QED
  BY <1>4, <1>5

LEMMA CrashStep ==
    ASSUME FileInv, NEW p \in Process, Crash(p)
    PROVE  FileInv'
<1>1. /\ pc' \in [Process -> Step]
      /\ pc'[p] = "closed"
      /\ \A q \in Process : q # p => pc'[q] = pc[q]
  BY StepIsAString DEF FileInv, Crash, Step
<1>2. \A q \in Process : pc'[q] = "closed"
  BY <1>1 DEF FileInv, OneOpen, Crash
<1>3. /\ copy' \in [Process -> State \cup {None}]
      /\ copy'[p] = None
      /\ \A q \in Process : q # p => copy'[q] = copy[q]
  BY DEF Crash, FileInv, FileTypes
<1>4. UNCHANGED <<file, accepted>>
  BY DEF Crash
<1>5. /\ temps \in Seq(Temp) /\ Len(temps) <= 1
      /\ \A i \in DOMAIN temps : Good(temps[i].content)
  BY DEF FileInv, FileTypes, OneTemp, AllGood
<1>6. ASSUME NEW i \in DOMAIN temps
      PROVE  /\ temps'[i] \in Temp
             /\ temps'[i].content = temps[i].content
  <2>1. PICK temp \in Temp : temp = temps[i]
    BY <1>5
  <2>2. temps'[i] = [temp EXCEPT !.owner = IF temp.owner = p THEN None ELSE temp.owner]
    BY <2>1 DEF Crash
  <2> QED
    BY <2>1, <2>2 DEF Temp
<1>7. temps' \in Seq(Temp) /\ Len(temps') = Len(temps) /\ DOMAIN temps' = DOMAIN temps
  <2>1. DOMAIN temps = 1..Len(temps) /\ Len(temps) \in Nat
    BY <1>5
  <2>2. temps' = [i \in DOMAIN temps |-> temps'[i]]
    BY DEF Crash
  <2> QED
    BY <1>6, <2>1, <2>2
<1>8. FileTypes'
  BY <1>1, <1>3, <1>4, <1>7 DEF FileInv, FileTypes
<1>9. OneOpen' /\ OneTemp' /\ CopyIsWhole' /\ ClosedHasNoCopy'
  <2>1. \A q \in Process : q # p => copy[q] = None
    BY <1>1, <1>2 DEF FileInv, ClosedHasNoCopy
  <2> QED
    BY <1>2, <1>3, <1>5, <1>7, <2>1 DEF OneOpen, OneTemp, CopyIsWhole, ClosedHasNoCopy
<1>10. AllGood'
  BY <1>3, <1>4, <1>5, <1>6, <1>7, OthersAreNoStates DEF FileInv, AllGood, Good, Keeps, Single
<1> QED
  BY <1>8, <1>9, <1>10 DEF FileInv

LEMMA FileStep == ~Shared /\ FileInv /\ [Next]_vars => FileInv'
<1> SUFFICES ASSUME ~Shared, FileInv, [Next]_vars PROVE FileInv'
  OBVIOUS
<1>1. ASSUME NEW p \in Process,
             Construct(p) \/ Recover(p) \/ Ensure(p) \/ Method(p) \/ Open(p) \/ Fill(p)
             \/ Replace(p) \/ Crash(p)
      PROVE  FileInv'
  BY <1>1, ConstructStep, RecoverStep, EnsureStep, MethodStep, OpenStep, FillStep, ReplaceStep,
     CrashStep
<1>2. CASE UNCHANGED vars
  BY <1>2 DEF vars, FileInv, FileTypes, OneOpen, OneTemp, CopyIsWhole, ClosedHasNoCopy, AllGood,
              Good, Keeps, Single
<1> QED
  BY <1>1, <1>2 DEF Next

LEMMA FileInvariant == ASSUME ~Shared PROVE Spec => []FileInv
BY FileInit, FileStep, PTL DEF Spec

(* For any tasks, receipts and deaths of the one process that has the file  *)
(* open: once enqueue_outbox has returned, the receipt stays (the outbox    *)
(* methods, _recover_orphans).                                              *)
THEOREM AcceptedStays == ASSUME ~Shared PROVE Spec => []AcceptedIsKept
<1>1. FileInv => AcceptedIsKept
  BY DEF FileInv, AllGood, Good, Keeps, Holds, AcceptedIsKept
<1> QED
  BY <1>1, FileInvariant, PTL

(* Under the same condition no receipt is pending twice (enqueue_outbox).   *)
THEOREM NoneIsPendingTwice == ASSUME ~Shared PROVE Spec => []PendingOnce
<1>1. FileInv => PendingOnce
  BY DEF FileInv, AllGood, Good, Single, PendingOnce
<1> QED
  BY <1>1, FileInvariant, PTL
-----------------------------------------------------------------------------
(* Ingestion: what will be dropped as a duplicate has its task.           *)
Event == EventId \X Payload

IngestTypes ==
    /\ log \in Seq(Event)
    /\ batch \in Seq(Event)
    /\ seen \subseteq Event
    /\ known \subseteq Event
    /\ ledger \in [EventId -> Event \cup {Null}]
    /\ cursor \in 0..Len(log)
    /\ target \in 0..Len(log)

(* The copy that ingest works on is ahead of what is stored; both are       *)
(* behind the ledger.                                                       *)
KnownHasTask == \A event \in known : HasTask(event)

IngestInv == IngestTypes /\ SeenHasTask /\ KnownHasTask

LEMMA IngestBegins == IngestInit => IngestInv
BY LogsAreSequences DEF IngestInit, IngestInv, IngestTypes, SeenHasTask, KnownHasTask, Event

(* A poll reads events of the log.                                          *)
LEMMA PollTypes ==
    ASSUME IngestTypes, NEW again \in 1..cursor + 1, NEW last \in cursor..Len(log),
           Poll(again, last)
    PROVE  IngestTypes'
<1>1. cursor \in Nat /\ last \in 0..Len(log)
  BY DEF IngestTypes
<1>2. SubSeq(log, again, cursor) \in Seq(Event)
  BY <1>1 DEF IngestTypes
<1>3. SubSeq(log, cursor + 1, last) \in Seq(Event)
  BY <1>1 DEF IngestTypes
<1>4. batch' \in Seq(Event)
  BY <1>2, <1>3 DEF Poll
<1> QED
  BY <1>1, <1>4 DEF Poll, IngestTypes, state

(* A task that create makes or finds is never another event's.              *)
LEMMA CreateKeepsTasks ==
    ASSUME IngestTypes, NEW event \in Event, MayCreate(event),
           ledger' = [ledger EXCEPT ![task_id(event)] = idempotency_key(event)]
    PROVE  /\ ledger' \in [EventId -> Event \cup {Null}]
           /\ HasTask(event)'
           /\ \A other \in Event : HasTask(other) => HasTask(other)'
<1>1. event[1] \in EventId
  BY DEF Event
<1>2. ledger' \in [EventId -> Event \cup {Null}] /\ ledger'[event[1]] = event
  BY <1>1 DEF IngestTypes, task_id, idempotency_key
<1>3. ASSUME NEW other \in Event, HasTask(other)
      PROVE  HasTask(other)'
  <2>1. other[1] \in EventId /\ ledger[other[1]] = other /\ other # Null
    BY <1>3, NullIsNoEvent DEF HasTask, task_id, idempotency_key, Event
  <2>2. CASE other[1] = event[1]
    BY <2>1, <2>2, <1>2 DEF MayCreate, HasTask, task_id, idempotency_key
  <2>3. CASE other[1] # event[1]
    BY <2>1, <2>3 DEF HasTask, task_id, idempotency_key, IngestTypes
  <2> QED
    BY <2>2, <2>3
<1> QED
  BY <1>2, <1>3 DEF HasTask, task_id, idempotency_key

LEMMA IngestStep == IngestInv /\ [IngestNext]_ingest_vars => IngestInv'
<1> SUFFICES ASSUME IngestInv, [IngestNext]_ingest_vars PROVE IngestInv'
  OBVIOUS
<1> USE DEF IngestInv
<1>1. CASE Subscribed \/ Paused \/ Resumed \/ Throttled
  BY <1>1 DEF Subscribed, Paused, Resumed, SetSubscription, Throttled, call, IngestTypes, SeenHasTask,
              KnownHasTask, HasTask
<1>2. CASE PollAgain \/ PollNew
  <2>1. PICK again \in 1..cursor + 1, last \in cursor..Len(log) : Poll(again, last)
    BY <1>2 DEF PollAgain, PollNew, IngestTypes
  <2>2. IngestTypes'
    BY <2>1, PollTypes
  <2> QED
    BY <2>1, <2>2 DEF Poll, state, SeenHasTask, KnownHasTask, HasTask
<1>3. CASE IngestEvent
  <2>1. batch' \in Seq(Event) /\ Head(batch) \in Event
    BY <1>3 DEF IngestEvent, IngestTypes
  <2>2. PICK event \in Event : event = Head(batch)
    BY <2>1
  <2>3. CASE event \in known
    <3>1. UNCHANGED <<known, ledger, seen, log, cursor, target>>
      BY <1>3, <2>2, <2>3 DEF IngestEvent, identity, state
    <3> QED
      BY <2>1, <3>1 DEF IngestTypes, SeenHasTask, KnownHasTask, HasTask
  <2>4. CASE event \notin known
    <3>1. /\ MayCreate(event)
          /\ known' = known \cup {event}
          /\ ledger' = [ledger EXCEPT ![task_id(event)] = idempotency_key(event)]
          /\ UNCHANGED <<seen, log, cursor, target>>
      BY <1>3, <2>2, <2>4 DEF IngestEvent, identity, state
    <3>2. /\ ledger' \in [EventId -> Event \cup {Null}]
          /\ HasTask(event)'
          /\ \A other \in Event : HasTask(other) => HasTask(other)'
      BY <3>1, CreateKeepsTasks
    <3>3. IngestTypes'
      BY <2>1, <3>1, <3>2 DEF IngestTypes
    <3>4. seen \subseteq Event /\ known \subseteq Event
      BY DEF IngestTypes
    <3>5. SeenHasTask'
      BY <3>1, <3>2, <3>4 DEF SeenHasTask
    <3>6. KnownHasTask'
      BY <3>1, <3>2, <3>4 DEF KnownHasTask
    <3> QED
      BY <3>3, <3>5, <3>6
  <2> QED
    BY <2>3, <2>4
<1>4. CASE IngestFails
  BY <1>4 DEF IngestFails, state, IngestTypes, SeenHasTask, KnownHasTask, HasTask
<1>5. CASE StoreSeen
  BY <1>5 DEF StoreSeen, IngestTypes, SeenHasTask, KnownHasTask, HasTask
<1>6. CASE AdvanceCursor
  BY <1>6 DEF AdvanceCursor, IngestTypes, SeenHasTask, KnownHasTask, HasTask
<1>7. CASE Tick
  BY <1>7 DEF Tick, state, call, IngestTypes, SeenHasTask, KnownHasTask, HasTask
<1>8. CASE \E torn \in BOOLEAN : IngestCrash(torn)
  BY <1>8 DEF IngestCrash, IngestTypes, SeenHasTask, KnownHasTask, HasTask
<1>9. CASE UNCHANGED ingest_vars
  BY <1>9 DEF ingest_vars, state, call, IngestTypes, SeenHasTask, KnownHasTask, HasTask
<1> QED
  BY <1>1, <1>2, <1>3, <1>4, <1>5, <1>6, <1>7, <1>8, <1>9 DEF IngestNext

(* An event that will be dropped as a duplicate has its task, for any log,  *)
(* batch size and number of deaths, those that leave a torn state included  *)
(* (ingest): the ledger is written first, and a task that has a key keeps   *)
(* it.                                                                      *)
THEOREM DroppedEventsHaveTasks == IngestSpec => []SeenHasTask
<1>1. IngestInv => SeenHasTask
  BY DEF IngestInv
<1> QED
  BY <1>1, IngestBegins, IngestStep, PTL DEF IngestSpec
=============================================================================
