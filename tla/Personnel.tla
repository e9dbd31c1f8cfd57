------------------------------- MODULE Personnel -------------------------------
(***************************************************************************)
(* Personnel: departments and employees, contracts with the events they     *)
(* leave in an employee's file, reviews, goals, documents and attendance.   *)
(* No handler but the manual check-in locks what it read.                   *)
(***************************************************************************)
EXTENDS StaleReads, Sequences

CONSTANTS
  People, Departments,
  Contracts, Reviews, Goals, Papers,   \* bounds: contracts, reviews, goals, documents
  Texts,       \* what the terms, a review or a file may say
  Steps,       \* progress of a goal, in percent
  Hours        \* hours at which something happens, over several days

NoContract == "no_contract"

ASSUME PersonnelAssumption ==
  /\ Hours \subseteq Nat /\ Hours # {} /\ Steps \subseteq 0 .. 100
  /\ NoContract \notin Contracts /\ Contracts \cap Reviews = {}

VARIABLES
  department, profile,
  contract,    \* EmployeeContract
  events,      \* EmploymentEvent rows that contracts leave: <<what, old contract, new contract>>
  review, goal, paper,
  attendance,  \* of a person and a day
  clock

personnelVars == <<department, profile, contract, events, review, goal, paper, attendance, clock,
                   copy, spoiled>>
fileVars == <<department, profile, goal, paper, attendance, clock>>

Gone == [is |-> "none"]
HoursADay == 24
MaxSession == 16
FullDay == 8
Days == {h \div HoursADay : h \in Hours}
Employed(p) == profile[p].is = "live"

PersonnelInit ==
  /\ department = [d \in Departments |-> Gone] /\ profile = [p \in People |-> Gone]
  /\ contract = [c \in Contracts |-> Gone] /\ events = <<>>
  /\ review = [r \in Reviews |-> Gone] /\ goal = [g \in Goals |-> Gone]
  /\ paper = [d \in Papers |-> Gone]
  /\ attendance = [x \in People \X Days |-> Gone]
  /\ clock \in {h \in Hours : \A k \in Hours : h <= k}
  /\ StaleInit

\* Rows, and the log of what became of contracts.
Profile(d) == [is |-> "live", dept |-> d]
Drawn(p, terms, status, from) ==
  [is |-> "live", who |-> p, terms |-> terms, status |-> status, from |-> from]
Review(text) == [is |-> "live", status |-> "DRAFT", text |-> text]
Goal(status, progress) == [is |-> "live", status |-> status, progress |-> progress]
Paper(file) == [is |-> "live", file |-> file, verified |-> FALSE]
CameIn(hour) == [is |-> "in", from |-> hour]
Logged(what, old, new) == Append(events, <<what, old, new>>)

-----------------------------------------------------------------------------
(* Departments and employees                                               *)

SetDepartment(d, active) ==
  /\ department' = [department EXCEPT ![d] = [is |-> "live", active |-> active]]
  /\ UNCHANGED <<profile, contract, events, review, goal, paper, attendance, clock, copy,
                 spoiled>>
\* delete deactivates a department nobody active works in.
DeleteDepartment(d) ==
  /\ department[d].is = "live"
  /\ \A p \in People : ~(Employed(p) /\ profile[p].dept = d)
  /\ SetDepartment(d, FALSE)
\* An employee may be put into any department there is, an inactive one included.
Hire(p, d) ==
  /\ profile[p].is = "none" /\ department[d].is = "live"
  /\ profile' = [profile EXCEPT ![p] = Profile(d)]
  /\ UNCHANGED <<department, contract, events, review, goal, paper, attendance, clock, copy,
                 spoiled>>
MoveTo(p, d) ==
  /\ Employed(p) /\ department[d].is = "live" /\ profile[p].dept # d
  /\ profile' = [profile EXCEPT ![p].dept = d]
  /\ UNCHANGED <<department, contract, events, review, goal, paper, attendance, clock, copy,
                 spoiled>>
DeleteEmployee(p) ==
  /\ Employed(p)
  /\ profile' = [profile EXCEPT ![p].is = "deleted"]
  /\ UNCHANGED <<department, contract, events, review, goal, paper, attendance, clock, copy,
                 spoiled>>

-----------------------------------------------------------------------------
(* Contracts                                                               *)

ContractIs(row, status) == row.is = "live" /\ row.status = status

CreateContract(c, p, terms) ==
  /\ contract[c].is = "none" /\ Employed(p)
  /\ contract' = [contract EXCEPT ![c] = Drawn(p, terms, "DRAFT", NoContract)]
  /\ UNCHANGED <<events, review, copy, spoiled, fileVars>>

UpdateContract(c, seen, terms) ==
  /\ ContractIs(seen, "DRAFT") /\ seen.terms # terms
  /\ contract' = [contract EXCEPT ![c].terms = terms]
  /\ Worked(c, contract[c], seen)
  /\ UNCHANGED <<events, review, fileVars>>

ActivateContract(c, seen) ==
  /\ ContractIs(seen, "DRAFT")
  /\ contract' = [contract EXCEPT ![c].status = "ACTIVE"]
  /\ events' = Logged(IF seen.from = NoContract THEN "HIRED" ELSE "CONTRACT_RENEWED", NoContract, c)
  /\ Worked(c, contract[c], seen)
  /\ UNCHANGED <<review, fileVars>>

TerminateContract(c, seen) ==
  /\ ContractIs(seen, "ACTIVE")
  /\ contract' = [contract EXCEPT ![c].status = "TERMINATED"]
  /\ events' = Logged("CONTRACT_TERMINATED", c, NoContract)
  /\ Worked(c, contract[c], seen)
  /\ UNCHANGED <<review, fileVars>>

RenewContract(c, seen, new) ==
  /\ ContractIs(seen, "ACTIVE") /\ contract[new].is = "none"
  /\ contract' = [contract EXCEPT ![c].status = "RENEWED",
                                  ![new] = Drawn(seen.who, seen.terms, "ACTIVE", c)]
  /\ events' = Logged("CONTRACT_RENEWED", c, new)
  /\ Worked(c, contract[c], seen)
  /\ UNCHANGED <<review, fileVars>>

-----------------------------------------------------------------------------
(* Reviews, goals and documents                                            *)

CreateReview(r, p, text) ==
  /\ review[r].is = "none" /\ Employed(p)
  /\ review' = [review EXCEPT ![r] = Review(text)]
  /\ UNCHANGED <<contract, events, copy, spoiled, fileVars>>
\* (mutant) a review may be changed as long as it is not acknowledged
UpdateReviewLate(r, seen, text) ==
  /\ seen.is = "live" /\ seen.status \in {"DRAFT", "SUBMITTED"}
  /\ review' = [review EXCEPT ![r].text = text]
  /\ Worked(r, review[r], seen)
  /\ UNCHANGED <<contract, events, fileVars>>
UpdateReview(r, seen, text) ==
  /\ seen.is = "live" /\ seen.status = "DRAFT"
  /\ review' = [review EXCEPT ![r].text = text]
  /\ Worked(r, review[r], seen)
  /\ UNCHANGED <<contract, events, fileVars>>
SubmitReview(r, seen) ==
  /\ seen.is = "live" /\ seen.status = "DRAFT"
  /\ review' = [review EXCEPT ![r].status = "SUBMITTED"]
  /\ Worked(r, review[r], seen)
  /\ UNCHANGED <<contract, events, fileVars>>
AcknowledgeReview(r, seen) ==
  /\ seen.is = "live" /\ seen.status = "SUBMITTED"
  /\ review' = [review EXCEPT ![r].status = "ACKNOWLEDGED"]
  /\ Worked(r, review[r], seen)
  /\ UNCHANGED <<contract, events, fileVars>>

\* A goal's status and progress are set each by itself.
SetGoal(g, p, status, progress) ==
  /\ IF goal[g].is = "none" THEN Employed(p) /\ status = "PENDING" /\ progress = 0 ELSE TRUE
  /\ goal' = [goal EXCEPT ![g] = Goal(status, progress)]
  /\ UNCHANGED <<department, profile, contract, events, review, paper, attendance, clock, copy,
                 spoiled>>

\* A document stays verified when its file is replaced; verify names nobody's file.
AddPaper(d, p, file) ==
  /\ paper[d].is = "none" /\ Employed(p)
  /\ paper' = [paper EXCEPT ![d] = Paper(file)]
  /\ UNCHANGED <<department, profile, contract, events, review, goal, attendance, clock, copy,
                 spoiled>>
ChangePaper(d, changed) ==
  /\ paper[d].is = "live" /\ changed # paper[d]
  /\ paper' = [paper EXCEPT ![d] = changed]
  /\ UNCHANGED <<department, profile, contract, events, review, goal, attendance, clock, copy,
                 spoiled>>
UpdatePaper(d, file) == ChangePaper(d, [paper[d] EXCEPT !.file = file])
VerifyPaper(d) == ChangePaper(d, [paper[d] EXCEPT !.verified = TRUE])
DeletePaper(d) == ChangePaper(d, [paper[d] EXCEPT !.is = "deleted"])

-----------------------------------------------------------------------------
(* Attendance                                                              *)

Today == clock \div HoursADay
TimePasses ==
  /\ \E h \in Hours : /\ h > clock /\ \A k \in Hours : k > clock => h <= k
                      /\ clock' = h
  /\ UNCHANGED <<department, profile, contract, events, review, goal, paper, attendance, copy,
                 spoiled>>

\* check_in and auto_check_in: one record a day.
CheckIn(p) ==
  /\ Employed(p) /\ attendance[<<p, Today>>].is = "none"
  /\ attendance' = [attendance EXCEPT ![<<p, Today>>] = CameIn(clock)]
  /\ UNCHANGED <<department, profile, contract, events, review, goal, paper, clock, copy,
                 spoiled>>
\* check_out looks for the record of today only, and may be repeated.
CheckOut(p) ==
  LET day == attendance[<<p, Today>>]
      worked == clock - day.from
  IN /\ Employed(p) /\ day.is \in {"in", "out"}
     /\ worked <= MaxSession
     /\ attendance' = [attendance EXCEPT ![<<p, Today>>] =
          [is |-> "out", from |-> day.from, hours |-> worked,
           overtime |-> IF worked > FullDay THEN worked - FullDay ELSE 0]]
     /\ UNCHANGED <<department, profile, contract, events, review, goal, paper, clock, copy,
                    spoiled>>

-----------------------------------------------------------------------------
ReadFile(doc, row) ==
  /\ row.is = "live" /\ Fetch(doc, row)
  /\ UNCHANGED <<contract, events, review, fileVars>>

OfficesNext ==
  \/ \E d \in Departments, active \in BOOLEAN : SetDepartment(d, active)
  \/ \E d \in Departments : DeleteDepartment(d)
  \/ \E p \in People, d \in Departments : Hire(p, d) \/ MoveTo(p, d)
  \/ \E p \in People : DeleteEmployee(p)

ContractsNext ==
  \/ \E c \in Contracts, p \in People, terms \in Texts : CreateContract(c, p, terms)
  \/ \E c \in Contracts : \E seen \in Seen(c, contract[c]) :
       \/ \E terms \in Texts : seen.is = "live" /\ UpdateContract(c, seen, terms)
       \/ ActivateContract(c, seen)
       \/ TerminateContract(c, seen)
       \/ \E new \in Contracts : RenewContract(c, seen, new)
  \/ \E c \in Contracts : ReadFile(c, contract[c])

ReviewsNext ==
  \/ \E r \in Reviews, p \in People, text \in Texts : CreateReview(r, p, text)
  \/ \E r \in Reviews : \E seen \in Seen(r, review[r]) :
       \/ \E text \in Texts : UpdateReview(r, seen, text)
       \/ SubmitReview(r, seen)
       \/ AcknowledgeReview(r, seen)
  \/ \E r \in Reviews : ReadFile(r, review[r])
  \/ \E g \in Goals, p \in People, status \in {"PENDING", "COMPLETED"}, n \in Steps :
       SetGoal(g, p, status, n)
  \/ \E d \in Papers, p \in People, file \in Texts : AddPaper(d, p, file)
  \/ \E d \in Papers, file \in Texts : paper[d].is = "live" /\ UpdatePaper(d, file)
  \/ \E d \in Papers : paper[d].is = "live" /\ (VerifyPaper(d) \/ DeletePaper(d))

TimesNext ==
  \/ \E p \in People : CheckIn(p) \/ CheckOut(p)
  \/ TimePasses

-----------------------------------------------------------------------------
(* Properties                                                              *)

Signed(c) == {i \in DOMAIN events : events[i][3] = c}
Ended(c) == {i \in DOMAIN events : events[i][2] = c}
Heirs(c) == {d \in Contracts : contract[d].is = "live" /\ contract[d].from = c}

\* The file of an employee tells what became of each contract: one event when it came into
\* force, one when it ended, and a contract is renewed by one other, which holds from then on
\* in its place (contract_service.py:323, "Can only renew contracts in ACTIVE status").
ContractsChain ==
  \A c \in Contracts \ spoiled : contract[c].is = "live" =>
    /\ contract[c].status = "DRAFT" <=> Signed(c) = {}
    /\ contract[c].status \in {"DRAFT", "ACTIVE"} <=> Ended(c) = {}
    /\ \A i, j \in Ended(c) : i = j
    /\ \A i, j \in Signed(c) : i = j
    /\ contract[c].status = "RENEWED" <=> Heirs(c) # {}
    /\ \A d, e \in Heirs(c) : d = e
    /\ \A d \in Heirs(c) : contract[d].who = contract[c].who /\ contract[d].status # "DRAFT"

\* What is signed and what was booked stay as they were, of rows that nobody wrote over.
FilesAreKept ==
  /\ ContractsChain'
  /\ \A c \in Contracts \ spoiled' :
       contract[c].is = "live" /\ contract[c].status # "DRAFT" =>
         contract'[c].terms = contract[c].terms /\ contract'[c].status # "DRAFT"
  /\ \A r \in Reviews \ spoiled' :
       review[r].is = "live" /\ review[r].status # "DRAFT" =>
         review'[r].text = review[r].text /\ review'[r].status # "DRAFT"
  /\ \A x \in DOMAIN attendance :
       /\ attendance[x].is \in {"in", "out"} => attendance'[x].from = attendance[x].from
       /\ attendance[x].is = "out" => attendance'[x].hours >= attendance[x].hours

\* Each paper has its place in the file, and what was signed stays as it was signed: the terms
\* of a contract in force, a review once it is submitted and the hour somebody came in do not
\* change any more, and hours that were booked only grow (review_service.py:205, "Can only
\* update reviews in DRAFT status").
FilesHold == [][FilesAreKept]_personnelVars
=============================================================================
