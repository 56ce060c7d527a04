------------------------------ MODULE AtmServer ------------------------------
(***************************************************************************)
(* The ATM of IPC_Sockets_assignment/socketIPCMechanism: client processes, *)
(* one server thread per connection, the account file and its mutex, and   *)
(* kills of clients and of the server (which has no other way to stop).    *)
(* A connection and its thread are named by the client that opened it.     *)
(***************************************************************************)
EXTENDS Integers, Sequences

CONSTANTS
  Clients,    \* client slots: a slot is reused by a new client process
  Amounts,    \* the amounts a customer types
  Opening,    \* what the account file may hold at first
  IntMax,     \* largest value of a C int
  Absent, Torn,  \* the account file does not exist / holds no number
  Nothing,    \* no owner of the mutex, no answer
  Uninit      \* a local variable that was never assigned


IntMin == -IntMax - 1
CInt   == IntMin .. IntMax

\* userChoice as the menu prints it; any other number is served like Display
Withdraw == 1
Deposit  == 2
Display  == 3
Exit     == 4
Choices  == {Withdraw, Deposit, Display, Exit}
NeedsAmount == {Withdraw, Deposit}

ASSUME AtmAssumption ==
  /\ IntMax \in Nat
  /\ Amounts \subseteq CInt
  /\ Opening \subseteq CInt \union {Absent}
  /\ Absent \notin CInt /\ Torn \notin CInt \union {Absent}
  /\ Uninit \notin CInt
  /\ Nothing \notin Clients \union CInt
  /\ Nothing \notin [op : Choices \union {Uninit}, amount : CInt \union {Uninit}]

VARIABLES
  cpc,        \* where each client process is; "gone" when there is none
  asked,      \* userChoice and transactionAmount of the client's request
  link,       \* "none", "up", "broken" once the server is dead, "reset"
              \* once the next write draws SIGPIPE
  toServer, toClient,   \* the two directions of the connection
  reset,      \* a write has already hit the closed client: the next kills
  spc,        \* where each server thread is; "none" before accept
  choice, amount, balance,   \* the thread's locals
  mutex,      \* accountFileMutex: its owner or Nothing
  file,       \* accountDB.txt
  up          \* the server process is running

client == <<cpc, asked>>
net    == <<link, toServer, toClient, reset>>
locals == <<choice, amount, balance>>
shared == <<mutex, file, up>>
vars   == <<cpc, asked, link, toServer, toClient, reset, spc,
            choice, amount, balance, mutex, file, up>>

InCritical == {"fetch", "truncate", "store", "unlock"}

Each(x) == [c \in Clients |-> x]
NoRequest == [choice |-> Uninit, amount |-> Uninit]

Init ==
  /\ cpc = Each("gone") /\ asked = Each(NoRequest)
  /\ link = Each("none") /\ toServer = Each(<<>>) /\ toClient = Each(<<>>)
  /\ reset = Each(FALSE) /\ spc = Each("none")
  /\ choice = Each(Uninit) /\ amount = Each(Uninit) /\ balance = Each(Uninit)
  /\ mutex = Nothing /\ file \in Opening /\ up = TRUE

-----------------------------------------------------------------------------
(* The client process. *)

(* A new client process; connect's result is never looked at. *)
Connect(c) ==
  /\ cpc[c] = "gone"
  /\ link[c] = "up" => spc[c] = "closed"
  /\ cpc' = [cpc EXCEPT ![c] = "menu"]
  /\ asked' = [asked EXCEPT ![c] = NoRequest]
  /\ link' = [link EXCEPT ![c] = IF up THEN "up" ELSE "reset"]
  /\ toServer' = [toServer EXCEPT ![c] = <<>>]
  /\ toClient' = [toClient EXCEPT ![c] = <<>>]
  /\ reset' = [reset EXCEPT ![c] = FALSE]
  /\ spc' = [spc EXCEPT ![c] = "none"]
  /\ UNCHANGED <<locals, shared>>

(* A write: the first one to a dead server is lost, and it or a later one  *)
(* raises SIGPIPE, which ends the client.                                  *)
Send(c, n, next) ==
  \/ /\ link[c] = "up"
     /\ toServer' = [toServer EXCEPT ![c] = Append(@, n)]
     /\ cpc' = [cpc EXCEPT ![c] = next]
     /\ UNCHANGED link
  \/ /\ link[c] = "broken"
     /\ link' = [link EXCEPT ![c] = "reset"]
     /\ cpc' = [cpc EXCEPT ![c] = next]
     /\ UNCHANGED toServer
  \/ /\ link[c] \in {"broken", "reset"}
     /\ cpc' = [cpc EXCEPT ![c] = "gone"]
     /\ UNCHANGED <<link, toServer>>

(* Slip: the client asks no amount for a deposit. *)
ChooseSlip(c, n) ==
  /\ cpc[c] = "menu"
  /\ asked' = [asked EXCEPT ![c] = [choice |-> n, amount |-> Uninit]]
  /\ Send(c, n, CASE n = Exit -> "gone"
                  [] n = Withdraw -> "amount"
                  [] OTHER -> "reply")
  /\ UNCHANGED <<toClient, reset, spc, locals, shared>>

Choose(c, n) ==
  /\ cpc[c] = "menu"
  /\ asked' = [asked EXCEPT ![c] = [choice |-> n, amount |-> Uninit]]
  /\ Send(c, n, CASE n = Exit -> "gone"
                  [] n \in NeedsAmount -> "amount"
                  [] OTHER -> "reply")
  /\ UNCHANGED <<toClient, reset, spc, locals, shared>>

EnterAmount(c, n) ==
  /\ cpc[c] = "amount"
  /\ asked' = [asked EXCEPT ![c].amount = n]
  /\ Send(c, n, "reply")
  /\ UNCHANGED <<toClient, reset, spc, locals, shared>>

(* read() gets the answer, or nothing once the server's end is closed: the *)
(* client then shows whatever it last held and carries on.                 *)
Receive(c) ==
  /\ cpc[c] = "reply"
  /\ \/ toClient[c] # <<>> /\ toClient' = [toClient EXCEPT ![c] = Tail(@)]
     \/ toClient[c] = <<>> /\ link[c] \in {"broken", "reset"} /\ UNCHANGED toClient
  /\ cpc' = [cpc EXCEPT ![c] = "menu"]
  /\ asked' = [asked EXCEPT ![c] = NoRequest]
  /\ UNCHANGED <<link, toServer, reset, spc, locals, shared>>

(* The client's user kills it: the kernel closes its end, as close does    *)
(* after the exit choice (atm_client.c:54).                                *)
ClientDies(c) ==
  /\ cpc[c] # "gone"
  /\ cpc' = [cpc EXCEPT ![c] = "gone"]
  /\ asked' = [asked EXCEPT ![c] = NoRequest]
  /\ toClient' = [toClient EXCEPT ![c] = <<>>]
  /\ UNCHANGED <<link, toServer, reset, spc, locals, shared>>

-----------------------------------------------------------------------------
(* The server's accept loop and its threads. *)

Accept(c) ==
  /\ up /\ link[c] = "up" /\ spc[c] = "none"
  /\ spc' = [spc EXCEPT ![c] = "readChoice"]
  /\ UNCHANGED <<client, net, locals, shared>>

(* Slip: a read that does not block. *)
HangupSlip(c) == toServer[c] = <<>>

(* read() on a connection its client has closed returns 0 *)
Hangup(c) == cpc[c] = "gone" /\ toServer[c] = <<>>

(* The request loop ends: the thread, with its locals, is gone. *)
Close(c) ==
  /\ spc' = [spc EXCEPT ![c] = "closed"]
  /\ choice' = [choice EXCEPT ![c] = Uninit]
  /\ amount' = [amount EXCEPT ![c] = Uninit]
  /\ balance' = [balance EXCEPT ![c] = Uninit]

(* Slip: readStatus < 0 for readStatus <= 0, so a hangup repeats the last choice. *)
ReadChoiceSlip(c) ==
  /\ spc[c] = "readChoice"
  /\ \/ /\ toServer[c] # <<>>
        /\ choice' = [choice EXCEPT ![c] = Head(toServer[c])]
        /\ toServer' = [toServer EXCEPT ![c] = Tail(@)]
     \/ Hangup(c) /\ UNCHANGED <<choice, toServer>>
  /\ spc' = [spc EXCEPT ![c] = IF choice'[c] \in NeedsAmount THEN "readAmount"
                               ELSE IF choice'[c] = Exit THEN "closed" ELSE "lock"]
  /\ UNCHANGED <<client, link, toClient, reset, amount, balance, shared>>

ReadChoice(c) ==
  /\ spc[c] = "readChoice"
  /\ \/ /\ toServer[c] # <<>> /\ Head(toServer[c]) # Exit
        /\ choice' = [choice EXCEPT ![c] = Head(toServer[c])]
        /\ spc' = [spc EXCEPT ![c] = IF choice'[c] \in NeedsAmount
                                      THEN "readAmount" ELSE "lock"]
        /\ toServer' = [toServer EXCEPT ![c] = Tail(@)]
        /\ UNCHANGED <<amount, balance>>
     \/ /\ toServer[c] # <<>> /\ Head(toServer[c]) = Exit
        /\ toServer' = [toServer EXCEPT ![c] = Tail(@)]
        /\ Close(c)
     \/ Hangup(c) /\ Close(c) /\ UNCHANGED toServer
  /\ UNCHANGED <<client, link, toClient, reset, shared>>

(* The result of this read() is not looked at: after a hangup the thread   *)
(* goes on with the amount it already had.                                 *)
ReadAmount(c) ==
  /\ spc[c] = "readAmount"
  /\ \/ /\ toServer[c] # <<>>
        /\ amount' = [amount EXCEPT ![c] = Head(toServer[c])]
        /\ toServer' = [toServer EXCEPT ![c] = Tail(@)]
     \/ Hangup(c) /\ UNCHANGED <<amount, toServer>>
  /\ spc' = [spc EXCEPT ![c] = "lock"]
  /\ UNCHANGED <<client, link, toClient, reset, choice, balance, shared>>

(* Slip: the mutex is not waited for. *)
LockSlip(c) ==
  /\ spc[c] = "lock"
  /\ mutex' = c
  /\ spc' = [spc EXCEPT ![c] = "fetch"]
  /\ UNCHANGED <<client, net, locals, file, up>>

Lock(c) ==
  /\ spc[c] = "lock" /\ mutex = Nothing
  /\ mutex' = c
  /\ spc' = [spc EXCEPT ![c] = "fetch"]
  /\ UNCHANGED <<client, net, locals, file, up>>

(* fopen and fscanf: a missing file counts as 0, a file without a number   *)
(* leaves accountBalance as it was.                                        *)
Fetch(c) ==
  /\ spc[c] = "fetch"
  /\ balance' = CASE file = Absent -> [balance EXCEPT ![c] = 0]
                  [] file = Torn   -> balance
                  [] OTHER         -> [balance EXCEPT ![c] = file]
  /\ spc' = [spc EXCEPT ![c] = "truncate"]
  /\ UNCHANGED <<client, net, choice, amount, shared>>

(* The server's locals hold C ints; reading an unset one yields anything. *)
Value(x) == IF x \in CInt THEN {x} ELSE CInt

(* Slip: a balance wider than the int that is sent and stored. *)
WrapSlip(x) == x

Wrap(x) == CASE x > IntMax -> x - 2 * (IntMax + 1)
             [] x < IntMin -> x + 2 * (IntMax + 1)
             [] OTHER      -> x

NewBalances(op, b, amt) ==
  CASE op = Withdraw -> {IF a <= b THEN Wrap(b - a) ELSE b : a \in Value(amt)}
    [] op = Deposit  -> {Wrap(b + a) : a \in Value(amt)}
    [] OTHER         -> {b}

(* The new balance is computed, then fopen(..., "w") empties the file. *)
Truncate(c) ==
  /\ spc[c] = "truncate"
  /\ \E b \in Value(balance[c]) :
       \E n \in NewBalances(choice[c], b, amount[c]) :
         balance' = [balance EXCEPT ![c] = n]
  /\ file' = Torn
  /\ spc' = [spc EXCEPT ![c] = "store"]
  /\ UNCHANGED <<client, net, choice, amount, mutex, up>>

(* fprintf's buffer reaches the file in fclose. *)
Store(c) ==
  /\ spc[c] = "store"
  /\ file' = balance[c]
  /\ spc' = [spc EXCEPT ![c] = "unlock"]
  /\ UNCHANGED <<client, net, locals, mutex, up>>

(* Slip: a path that leaves without unlocking. *)
UnlockSlip(c) ==
  /\ spc[c] = "unlock"
  /\ spc' = [spc EXCEPT ![c] = "respond"]
  /\ UNCHANGED <<client, net, locals, shared>>

Unlock(c) ==
  /\ spc[c] = "unlock"
  /\ mutex' = Nothing
  /\ spc' = [spc EXCEPT ![c] = "respond"]
  /\ UNCHANGED <<client, net, locals, file, up>>

(* The whole process goes: no thread, no mutex, every connection broken. *)
ServerGone ==
  /\ up' = FALSE /\ mutex' = Nothing
  /\ spc' = Each("none") /\ choice' = Each(Uninit)
  /\ amount' = Each(Uninit) /\ balance' = Each(Uninit)
  /\ link' = [c \in Clients |-> IF link[c] = "up" THEN "broken" ELSE link[c]]
  /\ toServer' = Each(<<>>)

(* write() to a client that is gone succeeds once and draws a reset; a     *)
(* second one raises SIGPIPE, which nothing handles.                       *)
Respond(c) ==
  /\ spc[c] = "respond"
  /\ IF cpc[c] = "gone" /\ reset[c]
     THEN ServerGone /\ UNCHANGED <<toClient, reset>>
     ELSE /\ toClient' = IF cpc[c] = "gone" THEN toClient
                         ELSE [toClient EXCEPT ![c] = Append(@, balance[c])]
          /\ reset' = [reset EXCEPT ![c] = cpc[c] = "gone"]
          /\ spc' = [spc EXCEPT ![c] = "readChoice"]
          /\ UNCHANGED <<link, toServer, locals, mutex, up>>
  /\ UNCHANGED <<client, file>>

KillServer ==
  /\ up /\ ServerGone
  /\ UNCHANGED <<client, toClient, reset, file>>

StartServer ==
  /\ ~up /\ up' = TRUE
  /\ UNCHANGED <<client, net, spc, locals, mutex, file>>

-----------------------------------------------------------------------------
Client(c) == \/ Connect(c) \/ Receive(c) \/ ClientDies(c)
             \/ \E n \in Choices : Choose(c, n)
             \/ \E n \in Amounts : EnterAmount(c, n)

Thread(c) == \/ ReadChoice(c) \/ ReadAmount(c) \/ Lock(c) \/ Fetch(c)
             \/ Truncate(c) \/ Store(c) \/ Unlock(c) \/ Respond(c)

Next == \/ \E c \in Clients : Client(c) \/ Accept(c) \/ Thread(c)
        \/ KillServer \/ StartServer

Spec == Init /\ [][Next]_vars

(* The kernel keeps running the accept loop and each thread, and delivers  *)
(* an answer that was sent; users and operators owe the program nothing.   *)
FairSpec == Spec /\ \A c \in Clients : /\ WF_vars(Accept(c))
                                       /\ WF_vars(Thread(c))
                                       /\ WF_vars(Receive(c))

-----------------------------------------------------------------------------
(* Every variable has its type. *)
TypeOK ==
  /\ cpc \in [Clients -> {"gone", "menu", "amount", "reply"}]
  /\ asked \in [Clients -> [choice : Choices \union {Uninit},
                            amount : CInt \union {Uninit}]]
  /\ link \in [Clients -> {"none", "up", "broken", "reset"}]
  /\ toServer \in [Clients -> Seq(Choices \union CInt)]
  /\ toClient \in [Clients -> Seq(CInt)]
  /\ reset \in [Clients -> BOOLEAN]
  /\ spc \in [Clients -> {"none", "readChoice", "readAmount", "lock",
                          "respond", "closed"} \union InCritical]
  /\ choice \in [Clients -> Choices \union {Uninit}]
  /\ amount \in [Clients -> CInt \union {Uninit}]
  /\ balance \in [Clients -> CInt \union {Uninit}]
  /\ mutex \in Clients \union {Nothing}
  /\ file \in CInt \union {Absent, Torn}
  /\ up \in BOOLEAN

(* Only the owner of accountFileMutex is between lock and unlock, and the  *)
(* mutex is never left locked by a thread that is not (server:37-68).      *)
MutualExclusion == \A c \in Clients : mutex = c <=> spc[c] \in InCritical

(* The two ends of a connection stay in step: a thread that reached the    *)
(* account for a client still there holds the choice and the amount that   *)
(* client typed last, although choice and amount travel as two bare ints   *)
(* in two writes (server:24-34, client:42-48).                             *)
ServedAsAsked ==
  \A c \in Clients :
    spc[c] \in {"lock"} \union InCritical /\ cpc[c] # "gone" =>
      /\ choice[c] = asked[c].choice
      /\ choice[c] \in NeedsAmount => amount[c] = asked[c].amount

(* Client and thread never each wait for the other to write first          *)
(* (server:24,33 against client:51).                                       *)
NoMutualWait ==
  \A c \in Clients :
    ~ /\ cpc[c] = "reply" /\ link[c] = "up" /\ toClient[c] = <<>>
      /\ spc[c] \in {"closed", "readChoice", "readAmount"} /\ toServer[c] = <<>>

(* A thread never writes a second time to a client that is gone: SIGPIPE   *)
(* would take the server and every other customer's session with it        *)
(* (server:72). It rests on the client's sending one request at a time.    *)
NoSigpipe ==
  \A c \in Clients : ~(spc[c] = "respond" /\ cpc[c] = "gone" /\ reset[c])

(* While a thread waits for the mutex, some thread gets an answer out, or  *)
(* the server is killed: no thread keeps the mutex. A given thread may     *)
(* wait forever, as a pthread mutex promises no order.                     *)
SomeoneServed ==
  (\E c \in Clients : spc[c] = "lock") ~> (\E c \in Clients : spc[c] = "respond") \/ ~up

(* The account behaves as AtmAccount says: a request takes effect at the   *)
(* truncation, where the new balance is fixed and the old one gone.        *)
Storing == {c \in Clients : spc[c] = "store"}

Balance == IF Storing # {} THEN balance[CHOOSE c \in Storing : TRUE] ELSE file

Pending == [c \in Clients |-> IF spc[c] \in {"lock", "fetch", "truncate"}
                              THEN [op |-> choice[c], amount |-> amount[c]]
                              ELSE Nothing]

Answers == [c \in Clients |-> IF spc[c] \in {"store", "unlock", "respond"}
                              THEN balance[c] ELSE Nothing]

Acc == INSTANCE AtmAccount WITH
         account <- Balance, request <- Pending, answer <- Answers

ImplementsAccount == Acc!Spec
=============================================================================
