----------------------------- MODULE ClientLoans -----------------------------
(***************************************************************************)
(* Loans: an application, its analysis, which draws up the installments,   *)
(* the disbursement into the wallet, and repayments.  Every handler reads  *)
(* the loan, its installments and the wallet without a lock and writes     *)
(* them at its COMMIT.  No journal is posted: the ledger does not know of  *)
(* the money of loans (lent).                                              *)
(*                                                                         *)
(* The risk of a borrower and the credit left to him are refusals chosen   *)
(* freely, and so is whether an installment is overdue.                    *)
(***************************************************************************)
EXTENDS ClientBooks, Sequences, Functions

CONSTANTS
    Clerks,      \* the sessions
    Loans,
    BorrowerOf,  \* [Loans -> Users]
    Principal,
    Terms, Due   \* the installments, and what is due at each

ASSUME LoansAssumption ==
    /\ BorrowerOf \in [Loans -> Users]
    /\ Principal \in Nat \ {0} /\ Terms \in Nat \ {0} /\ Due \in Nat \ {0}

VARIABLES
    loan,     \* loans, and the installments ever made for them
    clerk,    \* what each session is doing
    lent,     \* history: what loans have brought a client, less repayments
    paidOut,  \* history: how often a loan was disbursed
    misread   \* history: loans a session wrote when they were not as it had read

loansVars == <<loan, clerk, lent, paidOut, misread>>

-----------------------------------------------------------------------------
LoanStatuses == {"none", "draft", "active", "in_arrears", "repaid", "written_off"}

\* paid_amount, what was really paid for it (a history), and whether it is there
InstallmentType == [paid : Nat, served : Nat, live : BOOLEAN]

NewInstallment == [paid |-> 0, served |-> 0, live |-> TRUE]

Schedule == [i \in 1..Terms |-> NewInstallment]

LoanType == [status : LoanStatuses, plan : Seq(InstallmentType)]

Tasks == {"apply", "analyze", "disburse", "repay"}

\* opened: the loan was read; ready: its installments and the wallet too
TaskType == [at : {"opened", "ready"}, op : Tasks, loan : Loans, was : LoanStatuses,
             read : Int, plan : Seq(InstallmentType)]

Free == [at |-> "free"]

LoansTypeOK ==
    /\ loan \in [Loans -> LoanType]
    /\ clerk \in [Clerks -> TaskType \union {Free}]
    /\ lent \in [Users -> Int]
    /\ paidOut \in [Loans -> Nat]
    /\ misread \subseteq Loans

\* the loans of S have been analysed at the start
LoansInit(S) ==
    /\ loan = [l \in Loans |-> IF l \in S THEN [status |-> "draft", plan |-> Schedule]
                                          ELSE [status |-> "none", plan |-> <<>>]]
    /\ clerk = [o \in Clerks |-> Free]
    /\ lent = [u \in Users |-> 0]
    /\ paidOut = [l \in Loans |-> 0]
    /\ misread = {}

LoanBooks == <<wallet, line, book, clobbered>>
Histories == <<lent, paidOut>>

InForce == {"active", "in_arrears"}

-----------------------------------------------------------------------------
(* Reading.                                                                *)

\* the check of each handler on the status
Admits(op, l) ==
    \/ /\ op = "apply" /\ loan[l].status = "none"
       /\ \A m \in Loans : BorrowerOf[m] = BorrowerOf[l] =>
              loan[m].status \notin InForce \union {"draft"}
    \/ op \in {"analyze", "disburse"} /\ loan[l].status = "draft"
    \/ op = "repay" /\ loan[l].status \in InForce

OpenTask(o, op, l) ==
    /\ Request
    /\ clerk[o] = Free
    /\ Admits(op, l)
    /\ clerk' = [clerk EXCEPT ![o] = [at |-> "opened", op |-> op, loan |-> l,
                    was |-> loan[l].status, read |-> 0, plan |-> <<>>]]
    /\ UNCHANGED <<LoanBooks, loan, Histories, misread>>

Live(plan) == {i \in DOMAIN plan : plan[i].live}

\* Installments and wallet.  The analysis deletes the installments it sees; the
\* others need some.
LookUpPlan(o) ==
    LET l == clerk[o].loan IN
    /\ clerk[o].at = "opened" /\ clerk[o].op # "apply"
    /\ clerk[o].op # "analyze" => Live(loan[l].plan) # {}
    /\ clerk' = [clerk EXCEPT ![o].at = "ready", ![o].plan = loan[l].plan,
                              ![o].read = wallet[BorrowerOf[l]]]
    /\ UNCHANGED <<LoanBooks, ops, loan, Histories, misread>>

\* refused, or dead
DropTask(o) ==
    /\ clerk[o] # Free
    /\ clerk' = [clerk EXCEPT ![o] = Free]
    /\ UNCHANGED <<LoanBooks, ops, loan, Histories, misread>>

-----------------------------------------------------------------------------
(* Commits.                                                                *)

Finish(o) == clerk' = [clerk EXCEPT ![o] = Free] /\ UNCHANGED ops

Note(l, asRead) == misread' = IF asRead THEN misread ELSE misread \union {l}

\* a column that is as it was read is not written
NewStatus(l, was, status) == IF status = was THEN loan[l].status ELSE status

Apply(o) ==
    LET l == clerk[o].loan IN
    /\ clerk[o].at = "opened" /\ clerk[o].op = "apply"
    /\ loan[l].status = "none"
    /\ loan' = [loan EXCEPT ![l].status = "draft"]
    /\ Finish(o)
    /\ UNCHANGED <<LoanBooks, Histories, misread>>

WriteOff(o) ==
    LET l == clerk[o].loan IN
    /\ clerk[o].at = "opened" /\ clerk[o].op = "analyze"
    /\ loan' = [loan EXCEPT ![l].status = "written_off"]
    /\ Note(l, loan[l].status = "draft")
    /\ Finish(o)
    /\ UNCHANGED <<LoanBooks, Histories>>

\* what the DELETE saw is gone, and a new schedule is there
Replanned(plan, seen) ==
    [i \in DOMAIN plan |-> IF i <= Len(seen) THEN [plan[i] EXCEPT !.live = FALSE]
                                             ELSE plan[i]] \o Schedule

Approve(o) ==
    LET w == clerk[o]
        l == w.loan
    IN  /\ w.at = "ready" /\ w.op = "analyze"
        /\ loan' = [loan EXCEPT ![l].plan = Replanned(@, w.plan)]
        /\ Note(l, loan[l].status = "draft" /\ Len(loan[l].plan) = Len(w.plan))
        /\ Finish(o)
        /\ UNCHANGED <<LoanBooks, Histories>>

\* what the borrower's wallet becomes, and what the history says of it
Bring(u, read, n) ==
    /\ wallet' = [wallet EXCEPT ![u] = read + n]
    /\ lent' = [lent EXCEPT ![u] = @ + n]
    /\ clobbered' = clobbered \union {x \in {u} : wallet[x] # read}
    /\ UNCHANGED <<line, book>>

Disburse(o) ==
    LET w == clerk[o]
        l == w.loan
    IN  /\ w.at = "ready" /\ w.op = "disburse"
        /\ Bring(BorrowerOf[l], w.read, Principal)
        /\ paidOut' = [paidOut EXCEPT ![l] = @ + 1]
        /\ loan' = [loan EXCEPT ![l].status = "active"]
        /\ Note(l, loan[l].status = w.was)
        /\ Finish(o)

Left(r) == IF r.live THEN Pos(Due - r.paid) ELSE 0

\* the installment of a schedule that position i is
TermOf(i) == (i - 1) % Terms

\* how n is spent on installments: earlier ones before later ones
Payments(plan, n) ==
    {p \in [DOMAIN plan -> 0..Due] :
        /\ SumFunction(p) = n
        /\ \A i \in DOMAIN plan : p[i] <= Left(plan[i])
        /\ \A i, j \in DOMAIN plan :
              TermOf(i) < TermOf(j) /\ p[j] > 0 => p[i] = Left(plan[i])}

\* paid_amount is written as computed from the one that was read
Marked(plan, seen, p) ==
    [i \in DOMAIN plan |->
        IF i \in DOMAIN p /\ p[i] > 0
        THEN [plan[i] EXCEPT !.paid = seen[i].paid + p[i], !.served = @ + p[i]]
        ELSE plan[i]]

\* nothing is left of what the session has read
Settled(seen, p) == \A i \in DOMAIN seen : p[i] = Left(seen[i])

\* a row somebody has deleted, or is about to, cannot be updated
Writable(l, i) ==
    /\ loan[l].plan[i].live
    /\ ~\E o \in Clerks : /\ clerk[o].at = "ready" /\ clerk[o].op = "analyze"
                          /\ clerk[o].loan = l /\ i <= Len(clerk[o].plan)

Repay(o, n, p, overdue) ==
    LET w == clerk[o]
        l == w.loan
        status == IF Settled(w.plan, p) THEN "repaid"
                  ELSE IF overdue THEN "in_arrears" ELSE "active"
    IN  /\ w.at = "ready" /\ w.op = "repay"
        /\ \A i \in DOMAIN p : p[i] > 0 => Writable(l, i)
        /\ Bring(BorrowerOf[l], w.read, -n)
        /\ loan' = [loan EXCEPT ![l] = [status |-> NewStatus(l, w.was, status),
                                        plan |-> Marked(loan[l].plan, w.plan, p)]]
        /\ Note(l, loan[l].status = w.was /\ loan[l].plan = w.plan)
        /\ Finish(o)
        /\ UNCHANGED paidOut

-----------------------------------------------------------------------------
LoansNext ==
    \E o \in Clerks :
        \/ LookUpPlan(o) \/ Apply(o) \/ WriteOff(o) \/ Approve(o) \/ Disburse(o)
        \/ DropTask(o)
        \/ \E op \in Tasks, l \in Loans : OpenTask(o, op, l)
        \/ /\ clerk[o] # Free
           /\ \E n \in 1..clerk[o].read, overdue \in BOOLEAN :
                 \E p \in Payments(clerk[o].plan, n) : Repay(o, n, p, overdue)

-----------------------------------------------------------------------------
(* Properties.                                                             *)

\* A loan nobody wrote stale was paid out once if and only if it is or was in
\* force, it has one schedule, an installment shows what was paid for it and never
\* more than was due, no payment is lost with a schedule, and a loan is repaid only
\* when every installment is.
LoansMatch ==
    \A l \in Loans \ misread :
        LET plan == loan[l].plan IN
        /\ paidOut[l] = IF loan[l].status \in InForce \union {"repaid"} THEN 1 ELSE 0
        /\ \A i \in DOMAIN plan :
              /\ plan[i].live => i > Len(plan) - Terms
              /\ plan[i].served > 0 => plan[i].live /\ paidOut[l] = 1
              /\ plan[i].paid = plan[i].served /\ plan[i].paid <= Due
              /\ loan[l].status = "repaid" /\ plan[i].live => plan[i].paid = Due
=============================================================================
