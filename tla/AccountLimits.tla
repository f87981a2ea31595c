---------------------------- MODULE AccountLimits ---------------------------
(***************************************************************************)
(* What the rate limiter promises: every account has one token bucket per  *)
(* category for good, filled at a constant rate.  The one exception is     *)
(* that an account may be forgotten, and be given full buckets again, when *)
(* at least MaxEntries other accounts were seen since, or with it.         *)
(***************************************************************************)
EXTENDS Naturals, FiniteSets

CONSTANTS
    Accounts,
    Requests,
    Categories,
    Burst,          \* Burst[c]: the most tokens a bucket of c holds
    PerTick,        \* PerTick[c]: tokens added to it per tick
    MaxEntries,     \* how many accounts are remembered at least
    LongAgo,        \* ages from this one on are not told apart
    NoRequest

VARIABLES
    tokens,         \* tokens[a][c]
    age,            \* age[a]: ticks since a was last seen
    pending,        \* pending[r]: the account, the category and whether it was forgotten
    answer          \* answer[r]: the last answer

vars == <<tokens, age, pending, answer>>

AtMost(n, limit) == IF n <= limit THEN n ELSE limit
Refilled(bucket) == [c \in Categories |-> AtMost(bucket[c] + PerTick[c], Burst[c])]

Init ==
    /\ tokens = [a \in Accounts |-> Burst]
    /\ age = [a \in Accounts |-> LongAgo]
    /\ pending = [r \in Requests |-> NoRequest]
    /\ answer = [r \in Requests |-> "none"]

Asking(a, c) == [account |-> a, category |-> c, forgotten |-> FALSE]

Ask(r, a, c) ==
    /\ pending[r] = NoRequest
    /\ pending' = [pending EXCEPT ![r] = Asking(a, c)]
    /\ age' = [age EXCEPT ![a] = 0]
    /\ answer' = [answer EXCEPT ![r] = "none"]
    /\ UNCHANGED tokens

(* Room for a is made by forgetting f, which may still have requests. *)
AskForgetting(r, a, c, f) ==
    /\ pending[r] = NoRequest
    /\ f # a
    /\ age' = [age EXCEPT ![a] = 0]
    /\ Cardinality({b \in Accounts \ {f} : age'[b] <= age[f]}) >= MaxEntries
    /\ tokens' = [tokens EXCEPT ![f] = Burst]
    /\ pending' = [q \in Requests |->
          IF q = r THEN Asking(a, c)
          ELSE IF pending[q] # NoRequest /\ pending[q].account = f
               THEN [pending[q] EXCEPT !.forgotten = TRUE]
          ELSE pending[q]]
    /\ answer' = [answer EXCEPT ![r] = "none"]

(* A token for a request that is served, none for one that is refused. *)
Answer(r) ==
    /\ pending[r] # NoRequest
    /\ ~pending[r].forgotten
    /\ LET a == pending[r].account
           c == pending[r].category
       IN  \/ /\ tokens[a][c] > 0
              /\ tokens' = [tokens EXCEPT ![a][c] = @ - 1]
              /\ answer' = [answer EXCEPT ![r] = "served"]
           \/ /\ tokens[a][c] = 0
              /\ answer' = [answer EXCEPT ![r] = "refused"]
              /\ UNCHANGED tokens
    /\ pending' = [pending EXCEPT ![r] = NoRequest]
    /\ UNCHANGED age

(* Nothing is promised to a request of an account forgotten meanwhile. *)
AnswerForgotten(r) ==
    /\ pending[r] # NoRequest
    /\ pending[r].forgotten
    /\ \E yes \in {"served", "refused"} : answer' = [answer EXCEPT ![r] = yes]
    /\ pending' = [pending EXCEPT ![r] = NoRequest]
    /\ UNCHANGED <<tokens, age>>

Tick ==
    /\ tokens' = [a \in Accounts |-> Refilled(tokens[a])]
    /\ age' = [a \in Accounts |-> AtMost(age[a] + 1, LongAgo)]
    /\ UNCHANGED <<pending, answer>>

Next ==
    \/ \E r \in Requests, a \in Accounts, c \in Categories :
          Ask(r, a, c) \/ \E f \in Accounts : AskForgetting(r, a, c, f)
    \/ \E r \in Requests : Answer(r) \/ AnswerForgotten(r)
    \/ Tick

Spec == Init /\ [][Next]_vars
=============================================================================
