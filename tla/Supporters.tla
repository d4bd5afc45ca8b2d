------------------------------ MODULE Supporters ------------------------------
(***************************************************************************)
(* Who supports a persona (aria/contexts: identity, the donation ranking of  *)
(* wallet, RankingService of community).  A registration looks for the       *)
(* address and then inserts the account; the unique index decides between   *)
(* two that both found nothing, and nobody catches its error.  The ranking   *)
(* adds up the donations and is cached per length; donations are written by  *)
(* the wallet, which knows nothing of the cache.                            *)
(*                                                                          *)
(* A password is right or wrong; names on the page are left out.             *)
(***************************************************************************)
EXTENDS ReadThrough

CONSTANT Past   \* donations made before, in the order of their commits

VARIABLES
    accounts,   \* UserTable: rows with their address and whose request inserted them
    donations,  \* DonationTable: rows in the order of their commits
    answer      \* what a registration or a login is told

supportVars == <<accounts, donations, answer>>

SupportersInit ==
    /\ accounts = {}
    /\ donations = Past
    /\ answer = [r \in Requests |-> "none"]

-----------------------------------------------------------------------------
(* IdentityService.                                                          *)

(* get_by_email, UserTable.email.                                            *)
Taken(email) == \E a \in accounts : a.email = email

Answer(r, what) == answer' = [answer EXCEPT ![r] = what] /\ Goto(r, "over")

(* register: the check that answers email_taken.                              *)
LookForEmail(r) ==
    /\ pc[r] = "table" /\ job[r].op = "register"
    /\ IF Taken(job[r].email) THEN Answer(r, "conflict")
                              ELSE Goto(r, "write") /\ UNCHANGED answer
    /\ UNCHANGED <<job, fetched, dirty, cacheVars, failures, accounts, donations>>

(* add: INSERT and COMMIT.  The IntegrityError is no AriaError.               *)
AddAccount(r) ==
    /\ pc[r] = "write" /\ job[r].op = "register"
    /\ IF Taken(job[r].email)
       THEN Answer(r, "error") /\ UNCHANGED accounts
       ELSE /\ accounts' = accounts \cup {[email |-> job[r].email, by |-> r]}
            /\ Answer(r, "created")
    /\ UNCHANGED <<job, fetched, dirty, cacheVars, failures, donations>>

(* authenticate: one answer for an unknown address and for a wrong password.   *)
LogIn(r) ==
    /\ pc[r] = "table" /\ job[r].op = "login"
    /\ Answer(r, IF Taken(job[r].email) /\ job[r].right THEN "token" ELSE "refused")
    /\ UNCHANGED <<job, fetched, dirty, cacheVars, failures, accounts, donations>>

-----------------------------------------------------------------------------
(* The ranking.                                                              *)

Total(donor, rows) ==
    MapThenSumSet(LAMBDA row : row.amount, {row \in rows : row.donor = donor})
FirstAt(donor, rows) == Min({row.at : row \in {d \in rows : d.donor = donor}})

(* SUM per donor, the largest first; of equals, who gave first.  created_at is  *)
(* drawn before the commit.                                                  *)
Ranking(rows, limit) ==
    LET donors == {row.donor : row \in rows}
        before(a, b) ==
            \/ Total(a, rows) > Total(b, rows)
            \/ Total(a, rows) = Total(b, rows) /\ FirstAt(a, rows) < FirstAt(b, rows)
        sorted == SetToSortSeq(donors, before)
        length == IF Len(sorted) < limit THEN Len(sorted) ELSE limit
    IN  [i \in 1..length |-> [donor |-> sorted[i], total |-> Total(sorted[i], rows)]]

(* top_donors, after a miss.                                                 *)
SumDonations(r) ==
    /\ pc[r] = "query" /\ job[r].op = "rank"
    /\ fetched' = [fetched EXCEPT ![r] = Ranking(ToSet(donations), job[r].limit)]
    /\ Goto(r, "set")
    /\ UNCHANGED <<job, dirty, cacheVars, failures, supportVars>>

(* WalletRepository.apply inserts the donation; the cache is not told.         *)
Donate(r) ==
    /\ pc[r] = "table" /\ job[r].op = "donate"
    /\ donations' = Append(donations, job[r].row)
    /\ excused' = excused \cup {k \in Keys : k[1] = "ranking"}
    /\ Goto(r, "over")
    /\ UNCHANGED <<job, fetched, dirty, cache, failures, accounts, answer>>

SupportStep(r) ==
    LookForEmail(r) \/ AddAccount(r) \/ LogIn(r) \/ SumDonations(r) \/ Donate(r)

=============================================================================
