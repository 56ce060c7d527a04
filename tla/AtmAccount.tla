----------------------------- MODULE AtmAccount -----------------------------
(***************************************************************************)
(* What the ATM server promises of the one account it keeps: a request is  *)
(* fixed before the account is looked at, it is applied to the account in  *)
(* one step, the customer is answered with the balance that step produced, *)
(* and only a kill of the server process can lose the balance.             *)
(***************************************************************************)
EXTENDS Integers

CONSTANTS
  Clients,    \* the customers
  IntMax,     \* largest value of a C int
  Absent,     \* the account file does not exist
  Torn,       \* the account file holds no number
  Nothing,    \* no request, no answer
  Uninit      \* an amount that never arrived

IntMin == -IntMax - 1
CInt   == IntMin .. IntMax

Withdraw == 1
Deposit  == 2
Display  == 3

VARIABLES
  account,    \* the balance, or Absent, or Torn
  request,    \* what each client asked and was not served yet
  answer      \* the balance computed for a client and not sent to it yet

vars == <<account, request, answer>>

Requests == [op : {Withdraw, Deposit, Display}, amount : CInt \union {Uninit}]

(* C int arithmetic, as the build's two's complement does it. *)
Wrap(x) == CASE x > IntMax -> x - 2 * (IntMax + 1)
             [] x < IntMin -> x + 2 * (IntMax + 1)
             [] OTHER      -> x

(* What reading a value may yield. *)
Value(x) == IF x \in CInt THEN {x} ELSE CInt

(* The balances a request may leave, given the one it found. *)
Outcomes(r, b) ==
  CASE r.op = Withdraw -> {IF a <= b THEN Wrap(b - a) ELSE b : a \in Value(r.amount)}
    [] r.op = Deposit  -> {Wrap(b + a) : a \in Value(r.amount)}
    [] OTHER           -> {b}

(* A missing account counts as 0; a torn one may be read as anything. *)
Found == IF account = Absent THEN {0} ELSE Value(account)

Init == /\ account \in CInt \union {Absent}
        /\ request = [c \in Clients |-> Nothing]
        /\ answer = [c \in Clients |-> Nothing]

Request(c) == /\ request[c] = Nothing /\ answer[c] = Nothing
              /\ \E r \in Requests : request' = [request EXCEPT ![c] = r]
              /\ UNCHANGED <<account, answer>>

Serve(c) == /\ request[c] # Nothing
            /\ request' = [request EXCEPT ![c] = Nothing]
            /\ \E b \in Found : \E n \in Outcomes(request[c], b) :
                 /\ account' = n
                 /\ answer' = [answer EXCEPT ![c] = n]

Reply(c) == /\ answer[c] # Nothing
            /\ answer' = [answer EXCEPT ![c] = Nothing]
            /\ UNCHANGED <<account, request>>

Kill == /\ account' \in {account, Torn}
        /\ request' = [c \in Clients |-> Nothing]
        /\ answer' = [c \in Clients |-> Nothing]

Next == (\E c \in Clients : Request(c) \/ Serve(c) \/ Reply(c)) \/ Kill

Spec == Init /\ [][Next]_vars
=============================================================================
