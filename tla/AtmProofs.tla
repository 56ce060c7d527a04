----------------------------- MODULE AtmProofs ------------------------------
(***************************************************************************)
(* What holds of AtmServer for any number of clients, any amounts and any  *)
(* width of a C int.                                                       *)
(***************************************************************************)
EXTENDS AtmServer, SequenceTheorems, TLAPS

(* How far a client's request has travelled. A thread that is not serving  *)
(* has the rest of one request, at most, in front of it; a thread that is  *)
(* serving has nothing, and a live client is then waiting for the answer.  *)
Idle    == {"none", "readChoice"}
Serving == {"lock", "respond"} \union InCritical

Unread(c) ==
  \/ toServer[c] = <<>>
  \/ \E n \in Choices : toServer[c] = <<n>>
  \/ \E n \in NeedsAmount, a \in CInt : toServer[c] = <<n, a>>

(* A client that is still there, seen from its place in its loop. *)
AtMenu(c) == /\ spc[c] \in Idle /\ toServer[c] = <<>> /\ toClient[c] = <<>>

AtAmount(c) ==
  /\ toClient[c] = <<>> /\ asked[c].choice \in NeedsAmount
  /\ \/ spc[c] \in Idle /\ toServer[c] = <<asked[c].choice>>
     \/ /\ spc[c] = "readAmount" /\ toServer[c] = <<>>
        /\ choice[c] = asked[c].choice

AtReply(c) ==
  \/ /\ toClient[c] = <<>> /\ spc[c] \in Idle
     /\ \/ asked[c].choice = Display /\ toServer[c] = <<Display>>
        \/ /\ asked[c].choice \in NeedsAmount /\ asked[c].amount \in CInt
           /\ toServer[c] = <<asked[c].choice, asked[c].amount>>
  \/ /\ toClient[c] = <<>> /\ spc[c] = "readAmount"
     /\ choice[c] = asked[c].choice
     /\ asked[c].choice \in NeedsAmount /\ asked[c].amount \in CInt
     /\ toServer[c] = <<asked[c].amount>>
  \/ /\ toClient[c] = <<>> /\ spc[c] \in Serving /\ toServer[c] = <<>>
     /\ choice[c] = asked[c].choice
     /\ choice[c] \in NeedsAmount => amount[c] = asked[c].amount
  \/ /\ spc[c] = "readChoice" /\ toServer[c] = <<>>
     /\ \E b \in CInt : toClient[c] = <<b>>

InStep(c) ==
  IF link[c] # "up"
  THEN spc[c] = "none" /\ toServer[c] = <<>>
  ELSE CASE cpc[c] = "menu"   -> AtMenu(c)
         [] cpc[c] = "amount" -> AtAmount(c)
         [] cpc[c] = "reply"  -> AtReply(c)
         [] OTHER ->
              /\ spc[c] \in Idle => Unread(c)
              /\ spc[c] = "readAmount" =>
                   toServer[c] = <<>> \/ \E a \in CInt : toServer[c] = <<a>>
              /\ spc[c] \in Serving \union {"closed"} => toServer[c] = <<>>
              /\ reset[c] => toServer[c] = <<>> /\ spc[c] \in {"none", "readChoice", "closed"}

Sound(c) == InStep(c) /\ (cpc[c] # "gone" => ~reset[c])
Protocol == \A c \in Clients : Sound(c)

(* A balance a thread is about to store or send is a number. *)
Computed == \A c \in Clients : spc[c] \in {"store", "unlock", "respond"} => balance[c] \in CInt

IInv == TypeOK /\ MutualExclusion /\ Computed /\ Protocol

-----------------------------------------------------------------------------
(* Arithmetic on C ints stays within them (server:55,60). *)
LEMMA WrapInt == ASSUME NEW b \in CInt, NEW a \in CInt
                 PROVE  Wrap(b - a) \in CInt /\ Wrap(b + a) \in CInt
  BY AtmAssumption DEF Wrap, CInt, IntMin

LEMMA OutcomeInt ==
  ASSUME NEW op \in Choices \union {Uninit}, NEW b \in CInt,
         NEW amt \in CInt \union {Uninit}, NEW n \in NewBalances(op, b, amt)
  PROVE  n \in CInt
<1>1. CASE op = Withdraw
  <2>1. PICK a \in Value(amt) : n = IF a <= b THEN Wrap(b - a) ELSE b
    BY <1>1 DEF NewBalances, Withdraw, Deposit
  <2>2. a \in CInt
    BY DEF Value
  <2> QED BY <2>1, <2>2, WrapInt
<1>2. CASE op = Deposit
  <2>1. PICK a \in Value(amt) : n = Wrap(b + a)
    BY <1>2 DEF NewBalances, Withdraw, Deposit
  <2>2. a \in CInt
    BY DEF Value
  <2> QED BY <2>1, <2>2, WrapInt
<1>3. CASE op # Withdraw /\ op # Deposit
  BY <1>3 DEF NewBalances, Withdraw, Deposit
<1> QED BY <1>1, <1>2, <1>3

(* What reading and writing do to the few sequences a connection holds. *)
LEMMA OneTwo ==
  ASSUME NEW n, NEW a
  PROVE  /\ Append(<<>>, n) = <<n>> /\ Append(<<n>>, a) = <<n, a>>
         /\ Head(<<n>>) = n /\ Tail(<<n>>) = <<>>
         /\ Head(<<n, a>>) = n /\ Tail(<<n, a>>) = <<a>>
         /\ <<n>> # <<>> /\ <<n, a>> # <<>>
<1> DEFINE S == {n, a}
<1>1. <<n>> \in Seq(S) /\ <<n, a>> \in Seq(S)
  OBVIOUS
<1>2. Head(<<n>>) = n /\ Head(<<n, a>>) = n
  OBVIOUS
<1>3. <<n>> # <<>> /\ <<n, a>> # <<>>
  OBVIOUS
<1>4. Append(<<>>, n) = <<n>>
  BY <1>1
<1>5. Append(<<n>>, a) = <<n, a>>
  <2> DEFINE s == Append(<<n>>, a)
  <2>1. s \in Seq(S) /\ Len(s) = 2 /\ s[1] = n /\ s[2] = a
    BY <1>1, AppendProperties
  <2>2. Len(<<n, a>>) = 2 /\ \A i \in 1 .. 2 : s[i] = <<n, a>>[i]
    BY <2>1
  <2> HIDE DEF s
  <2>3. s = <<n, a>>
    BY <1>1, <2>1, <2>2, SeqEqual
  <2> QED BY <2>3 DEF s
<1>6. Tail(<<n>>) = <<>>
  BY <1>1
<1>7. Tail(<<n, a>>) = <<a>>
  BY <1>1
<1> QED BY <1>2, <1>3, <1>4, <1>5, <1>6, <1>7

(* A step that leaves a client and its connection alone keeps them in step. *)
Untouched(d) ==
  /\ cpc'[d] = cpc[d] /\ asked'[d] = asked[d] /\ link'[d] = link[d]
  /\ toServer'[d] = toServer[d] /\ toClient'[d] = toClient[d]
  /\ reset'[d] = reset[d] /\ spc'[d] = spc[d]
  /\ choice'[d] = choice[d] /\ amount'[d] = amount[d]

LEMMA Frame == ASSUME NEW d \in Clients, Sound(d), Untouched(d)
               PROVE  Sound(d)'
  BY DEF Sound, Untouched, InStep, AtMenu, AtAmount, AtReply, Unread

-----------------------------------------------------------------------------
LEMMA InitInv == Init => IInv
<1> SUFFICES ASSUME Init PROVE IInv
  OBVIOUS
<1>1. TypeOK
  BY AtmAssumption DEF Init, TypeOK, Each, NoRequest, InCritical
<1>2. MutualExclusion
  BY AtmAssumption DEF Init, MutualExclusion, Each, InCritical
<1>3. Computed
  BY DEF Init, Computed, Each
<1>4. Protocol
  BY DEF Init, Protocol, Sound, Each, InStep
<1> QED BY <1>1, <1>2, <1>3, <1>4 DEF IInv

LEMMA ConnectInv == ASSUME IInv, NEW c \in Clients, Connect(c) PROVE IInv'
<1>1. TypeOK'
  BY DEF IInv, TypeOK, Connect, NoRequest, locals, shared, Choices
<1>2. MutualExclusion'
  <2>1. spc[c] \notin InCritical
    BY DEF IInv, Protocol, Sound, InStep, Connect, InCritical
  <2> QED BY <2>1 DEF IInv, TypeOK, MutualExclusion, Connect, shared, InCritical
<1>3. Computed'
  BY DEF IInv, TypeOK, Computed, Connect, locals
<1>4. Protocol'
  <2> SUFFICES ASSUME NEW d \in Clients PROVE Sound(d)'
    BY DEF Protocol
  <2>1. CASE d # c
    BY <2>1, Frame DEF IInv, TypeOK, Protocol, Sound, Untouched, Connect, locals
  <2>2. CASE d = c
    BY <2>2 DEF IInv, TypeOK, Sound, Connect, locals, InStep, AtMenu, Idle
  <2> QED BY <2>1, <2>2
<1> QED BY <1>1, <1>2, <1>3, <1>4 DEF IInv

LEMMA SendStep ==
  ASSUME TypeOK, NEW c \in Clients, NEW n \in Choices \union CInt,
         NEW next \in {"gone", "menu", "amount", "reply"}, Send(c, n, next)
  PROVE  /\ toServer' \in [Clients -> Seq(Choices \union CInt)]
         /\ link' \in [Clients -> {"none", "up", "broken", "reset"}]
         /\ cpc' \in [Clients -> {"gone", "menu", "amount", "reply"}]
         /\ \A d \in Clients \ {c} : /\ toServer'[d] = toServer[d]
                                     /\ link'[d] = link[d] /\ cpc'[d] = cpc[d]
<1>1. CASE link[c] = "up"
  <2>1. Append(toServer[c], n) \in Seq(Choices \union CInt)
    BY AppendProperties DEF TypeOK
  <2>2. /\ toServer' = [toServer EXCEPT ![c] = Append(toServer[c], n)]
        /\ cpc' = [cpc EXCEPT ![c] = next] /\ UNCHANGED link
    BY <1>1 DEF Send, TypeOK
  <2>3. toServer' \in [Clients -> Seq(Choices \union CInt)]
    BY <2>1, <2>2 DEF TypeOK
  <2> QED BY <2>2, <2>3 DEF TypeOK
<1>2. CASE link[c] # "up"
  BY <1>2 DEF Send, TypeOK
<1> QED BY <1>1, <1>2

LEMMA ChooseInv ==
  ASSUME IInv, NEW c \in Clients, NEW n \in Choices, Choose(c, n) PROVE IInv'
<1> DEFINE next == CASE n = Exit -> "gone"
                     [] n \in NeedsAmount -> "amount"
                     [] OTHER -> "reply"
<1>0. Send(c, n, next) /\ next \in {"gone", "amount", "reply"}
  BY DEF Choose
<1>1. TypeOK'
  <2>1. asked' \in [Clients -> [choice : Choices \union {Uninit}, amount : CInt \union {Uninit}]]
    BY DEF IInv, TypeOK, Choose
  <2>2. /\ toServer' \in [Clients -> Seq(Choices \union CInt)]
        /\ link' \in [Clients -> {"none", "up", "broken", "reset"}]
        /\ cpc' \in [Clients -> {"gone", "menu", "amount", "reply"}]
    BY <1>0, SendStep DEF IInv
  <2> QED BY <2>1, <2>2 DEF IInv, TypeOK, Choose, locals, shared
<1>2. MutualExclusion'
  BY DEF IInv, MutualExclusion, Choose, shared
<1>3. Computed'
  BY DEF IInv, Computed, Choose, locals
<1>4. Protocol'
  <2> SUFFICES ASSUME NEW d \in Clients PROVE Sound(d)'
    BY DEF Protocol
  <2>1. CASE d # c
    BY <1>0, <2>1, SendStep, Frame DEF IInv, TypeOK, Protocol, Untouched, Choose, locals
  <2>2. CASE d = c /\ link[c] # "up"
    BY <1>0, <2>2 DEF IInv, TypeOK, Protocol, Sound, InStep, Choose, Send, locals
  <2>3. CASE d = c /\ link[c] = "up"
    <3>1. AtMenu(c) /\ ~reset[c]
      BY <2>3 DEF IInv, Protocol, Sound, InStep, Choose
    <3>2. toServer'[c] = <<n>> /\ link'[c] = "up" /\ cpc'[c] = next
      BY <1>0, <2>3, <3>1, OneTwo DEF Send, AtMenu, IInv, TypeOK
    <3>3. asked'[c].choice = n
      BY DEF Choose, IInv, TypeOK
    <3>4. UNCHANGED <<spc, toClient, reset>>
      BY DEF Choose
    <3> QED BY <2>3, <3>1, <3>2, <3>3, <3>4
            DEF Sound, InStep, AtMenu, AtAmount, AtReply, Unread, Idle, Serving,
                InCritical, Choices, NeedsAmount, Exit, Withdraw, Deposit, Display
  <2> QED BY <2>1, <2>2, <2>3
<1> QED BY <1>1, <1>2, <1>3, <1>4 DEF IInv

LEMMA EnterAmountInv ==
  ASSUME IInv, NEW c \in Clients, NEW n \in Amounts, EnterAmount(c, n) PROVE IInv'
<1>0. Send(c, n, "reply") /\ n \in CInt
  BY AtmAssumption DEF EnterAmount
<1>1. TypeOK'
  <2>1. asked' \in [Clients -> [choice : Choices \union {Uninit}, amount : CInt \union {Uninit}]]
    <3>1. [asked[c] EXCEPT !.amount = n] \in [choice : Choices \union {Uninit},
                                             amount : CInt \union {Uninit}]
      <4>1. asked[c] \in [choice : Choices \union {Uninit}, amount : CInt \union {Uninit}]
        BY DEF IInv, TypeOK
      <4> QED BY <1>0, <4>1
    <3>2. asked' = [asked EXCEPT ![c] = [asked[c] EXCEPT !.amount = n]]
      BY DEF EnterAmount
    <3> QED BY <3>1, <3>2 DEF IInv, TypeOK
  <2>2. /\ toServer' \in [Clients -> Seq(Choices \union CInt)]
        /\ link' \in [Clients -> {"none", "up", "broken", "reset"}]
        /\ cpc' \in [Clients -> {"gone", "menu", "amount", "reply"}]
    BY <1>0, SendStep DEF IInv
  <2> QED BY <2>1, <2>2 DEF IInv, TypeOK, EnterAmount, locals, shared
<1>2. MutualExclusion'
  BY DEF IInv, MutualExclusion, EnterAmount, shared
<1>3. Computed'
  BY DEF IInv, Computed, EnterAmount, locals
<1>4. Protocol'
  <2> SUFFICES ASSUME NEW d \in Clients PROVE Sound(d)'
    BY DEF Protocol
  <2>1. CASE d # c
    BY <1>0, <2>1, SendStep, Frame DEF IInv, TypeOK, Protocol, Untouched, EnterAmount, locals
  <2>2. CASE d = c /\ link[c] # "up"
    BY <1>0, <2>2 DEF IInv, TypeOK, Protocol, Sound, InStep, EnterAmount, Send, locals
  <2>3. CASE d = c /\ link[c] = "up"
    <3>1. AtAmount(c) /\ ~reset[c]
      BY <2>3 DEF IInv, Protocol, Sound, InStep, EnterAmount
    <3>2. toServer'[c] = Append(toServer[c], n) /\ link'[c] = "up" /\ cpc'[c] = "reply"
      BY <1>0, <2>3 DEF Send, IInv, TypeOK
    <3>3. asked'[c].choice = asked[c].choice /\ asked'[c].amount = n
      BY DEF EnterAmount, IInv, TypeOK
    <3>4. UNCHANGED <<spc, toClient, reset, choice>>
      BY DEF EnterAmount, locals
    <3>5. CASE spc[c] \in Idle /\ toServer[c] = <<asked[c].choice>>
      <4>1. asked[c].choice \in Choices \union CInt /\ n \in Choices \union CInt
        BY <1>0, <3>1 DEF AtAmount, NeedsAmount, Choices
      <4>2. Append(<<asked[c].choice>>, n) = <<asked[c].choice, n>>
        BY <4>1, OneTwo
      <4>3. toServer'[c] = <<asked[c].choice, n>>
        BY <3>2, <3>5, <4>2, Zenon
      <4> QED BY <1>0, <2>3, <3>1, <3>2, <3>3, <3>4, <3>5, <4>3
              DEF Sound, InStep, AtAmount, AtReply
    <3>6. CASE spc[c] = "readAmount" /\ toServer[c] = <<>> /\ choice[c] = asked[c].choice
      <4>1. toServer'[c] = <<n>>
        BY <1>0, <3>2, <3>6, OneTwo
      <4> QED BY <1>0, <2>3, <3>1, <3>2, <3>3, <3>4, <3>6, <4>1
              DEF Sound, InStep, AtAmount, AtReply
    <3> QED BY <3>1, <3>5, <3>6 DEF AtAmount
  <2> QED BY <2>1, <2>2, <2>3
<1> QED BY <1>1, <1>2, <1>3, <1>4 DEF IInv

LEMMA ReceiveInv == ASSUME IInv, NEW c \in Clients, Receive(c) PROVE IInv'
<1>1. TypeOK'
  <2>1. toClient' \in [Clients -> Seq(CInt)]
    <3>1. CASE UNCHANGED toClient
      BY <3>1 DEF IInv, TypeOK
    <3>2. CASE toClient[c] # <<>> /\ toClient' = [toClient EXCEPT ![c] = Tail(@)]
      <4>1. Tail(toClient[c]) \in Seq(CInt)
        BY <3>2, HeadTailProperties DEF IInv, TypeOK
      <4> QED BY <3>2, <4>1 DEF IInv, TypeOK
    <3> QED BY <3>1, <3>2 DEF Receive
  <2> QED BY <2>1 DEF IInv, TypeOK, Receive, NoRequest, locals, shared
<1>2. MutualExclusion'
  BY DEF IInv, MutualExclusion, Receive, shared
<1>3. Computed'
  BY DEF IInv, Computed, Receive, locals
<1>4. Protocol'
  <2> SUFFICES ASSUME NEW d \in Clients PROVE Sound(d)'
    BY DEF Protocol
  <2>1. CASE d # c
    BY <2>1, Frame DEF IInv, TypeOK, Protocol, Untouched, Receive, locals
  <2>2. CASE d = c /\ link[c] # "up"
    BY <2>2 DEF IInv, TypeOK, Protocol, Sound, InStep, Receive
  <2>3. CASE d = c /\ link[c] = "up"
    <3>1. AtReply(c) /\ toClient[c] # <<>> /\ toClient'[c] = Tail(toClient[c])
      BY <2>3 DEF IInv, TypeOK, Protocol, Sound, InStep, Receive
    <3>2. PICK b \in CInt : toClient[c] = <<b>>
      BY <3>1 DEF AtReply
    <3>3. toClient'[c] = <<>>
      BY <3>1, <3>2, OneTwo
    <3> QED BY <2>3, <3>1, <3>2, <3>3 DEF IInv, TypeOK, Protocol, Sound, InStep,
                                          Receive, AtReply, AtMenu, Idle
  <2> QED BY <2>1, <2>2, <2>3
<1> QED BY <1>1, <1>2, <1>3, <1>4 DEF IInv

LEMMA ClientDiesInv == ASSUME IInv, NEW c \in Clients, ClientDies(c) PROVE IInv'
<1>1. TypeOK'
  BY DEF IInv, TypeOK, ClientDies, NoRequest, locals, shared
<1>2. MutualExclusion'
  BY DEF IInv, MutualExclusion, ClientDies, shared
<1>3. Computed'
  BY DEF IInv, Computed, ClientDies, locals
<1>4. Protocol'
  <2> SUFFICES ASSUME NEW d \in Clients PROVE Sound(d)'
    BY DEF Protocol
  <2>1. CASE d # c
    BY <2>1, Frame DEF IInv, TypeOK, Protocol, Untouched, ClientDies, locals
  <2>2. CASE d = c /\ link[c] # "up"
    BY <2>2 DEF IInv, TypeOK, Protocol, Sound, InStep, ClientDies
  <2>3. CASE d = c /\ link[c] = "up"
    <3>1. Sound(c) /\ cpc[c] \in {"menu", "amount", "reply"} /\ ~reset[c] /\ cpc'[c] = "gone"
      BY DEF IInv, TypeOK, Protocol, Sound, ClientDies
    <3>2. spc[c] \in Idle => Unread(c)
      BY <2>3, <3>1 DEF Sound, InStep, AtMenu, AtAmount, AtReply, Unread, Idle, Serving,
                        InCritical, Choices, NeedsAmount, Display
    <3>3. spc[c] = "readAmount" =>
            toServer[c] = <<>> \/ \E a \in CInt : toServer[c] = <<a>>
      BY <2>3, <3>1 DEF Sound, InStep, AtMenu, AtAmount, AtReply, Idle, Serving, InCritical
    <3>4. spc[c] \in Serving \union {"closed"} => toServer[c] = <<>>
      BY <2>3, <3>1 DEF Sound, InStep, AtMenu, AtAmount, AtReply, Idle, Serving, InCritical
    <3>5. UNCHANGED <<link, toServer, reset, spc>>
      BY DEF ClientDies
    <3> QED BY <2>3, <3>1, <3>2, <3>3, <3>4, <3>5 DEF Sound, InStep, Unread
  <2> QED BY <2>1, <2>2, <2>3
<1> QED BY <1>1, <1>2, <1>3, <1>4 DEF IInv

LEMMA AcceptInv == ASSUME IInv, NEW c \in Clients, Accept(c) PROVE IInv'
<1>1. TypeOK'
  BY DEF IInv, TypeOK, Accept, client, net, locals, shared
<1>2. MutualExclusion'
  BY DEF IInv, TypeOK, MutualExclusion, Accept, shared, InCritical
<1>3. Computed'
  BY DEF IInv, TypeOK, Computed, Accept, locals
<1>4. Protocol'
  <2> SUFFICES ASSUME NEW d \in Clients PROVE Sound(d)'
    BY DEF Protocol
  <2>1. CASE d # c
    BY <2>1, Frame DEF IInv, TypeOK, Protocol, Untouched, Accept, client, net, locals
  <2>2. CASE d = c
    BY <2>2 DEF IInv, TypeOK, Protocol, Sound, InStep, Accept, AtMenu, AtAmount, AtReply,
                Unread, Idle, Serving, InCritical, client, net, locals
  <2> QED BY <2>1, <2>2
<1> QED BY <1>1, <1>2, <1>3, <1>4 DEF IInv

(* What a thread that reads a choice has in front of it. *)
LEMMA ChoiceFirst ==
  ASSUME IInv, NEW c \in Clients, spc[c] = "readChoice"
  PROVE  /\ \/ toServer[c] = <<>> \/ (\E n \in Choices : toServer[c] = <<n>>)
            \/ (\E n \in NeedsAmount, a \in CInt : toServer[c] = <<n, a>>)
         /\ toServer[c] # <<>> => /\ Head(toServer[c]) \in Choices
                                  /\ Tail(toServer[c]) \in Seq(Choices \union CInt)
<1>b. link[c] = "up" /\ Sound(c) /\ spc[c] = "readChoice"
  BY DEF IInv, Protocol, Sound, InStep
<1>c. toServer[c] = <<>> \/ (\E n \in Choices : toServer[c] = <<n>>)
        \/ (\E n \in NeedsAmount, a \in CInt : toServer[c] = <<n, a>>)
  BY <1>b DEF IInv, TypeOK, Sound, InStep, AtMenu, AtAmount, AtReply, Unread, Idle,
              Serving, InCritical, Choices, NeedsAmount
<1>d. ASSUME toServer[c] # <<>>
      PROVE  /\ Head(toServer[c]) \in Choices
             /\ Tail(toServer[c]) \in Seq(Choices \union CInt)
  <2>1. Tail(toServer[c]) \in Seq(Choices \union CInt)
    BY <1>d, HeadTailProperties DEF IInv, TypeOK
  <2>2. Head(toServer[c]) \in Choices
    BY <1>c, <1>d, OneTwo DEF NeedsAmount, Choices
  <2> QED BY <2>1, <2>2
<1> QED BY <1>c, <1>d

LEMMA ReadChoiceInv == ASSUME IInv, NEW c \in Clients, ReadChoice(c) PROVE IInv'
<1> DEFINE read == /\ toServer[c] # <<>> /\ Head(toServer[c]) # Exit
                   /\ choice' = [choice EXCEPT ![c] = Head(toServer[c])]
                   /\ spc' = [spc EXCEPT ![c] = IF choice'[c] \in NeedsAmount
                                                THEN "readAmount" ELSE "lock"]
                   /\ toServer' = [toServer EXCEPT ![c] = Tail(@)]
                   /\ UNCHANGED <<amount, balance>>
           exit == /\ toServer[c] # <<>> /\ Head(toServer[c]) = Exit
                   /\ toServer' = [toServer EXCEPT ![c] = Tail(@)] /\ Close(c)
           hangup == Hangup(c) /\ Close(c) /\ UNCHANGED toServer
<1>a. read \/ exit \/ hangup
  BY DEF ReadChoice
<1>b. link[c] = "up" /\ Sound(c) /\ spc[c] = "readChoice"
  BY DEF IInv, Protocol, Sound, InStep, ReadChoice
<1>c. toServer[c] = <<>> \/ (\E n \in Choices : toServer[c] = <<n>>)
        \/ (\E n \in NeedsAmount, a \in CInt : toServer[c] = <<n, a>>)
  BY <1>b, ChoiceFirst
<1>d. ASSUME toServer[c] # <<>>
      PROVE  /\ Head(toServer[c]) \in Choices
             /\ Tail(toServer[c]) \in Seq(Choices \union CInt)
  BY <1>b, <1>d, ChoiceFirst
<1>1. TypeOK'
  <2>1. toServer' \in [Clients -> Seq(Choices \union CInt)]
    BY <1>a, <1>d DEF IInv, TypeOK
  <2>2. /\ choice' \in [Clients -> Choices \union {Uninit}]
        /\ amount' \in [Clients -> CInt \union {Uninit}]
        /\ balance' \in [Clients -> CInt \union {Uninit}]
    <3>1. CASE read
      BY <1>d, <3>1 DEF IInv, TypeOK
    <3>2. CASE Close(c)
      BY <3>2 DEF IInv, TypeOK, Close
    <3> QED BY <1>a, <3>1, <3>2
  <2>3. spc' \in [Clients -> {"none", "readChoice", "readAmount", "lock",
                              "respond", "closed"} \union InCritical]
    BY <1>a DEF IInv, TypeOK, Close
  <2> QED BY <2>1, <2>2, <2>3 DEF IInv, TypeOK, ReadChoice, client, shared
<1>2. MutualExclusion'
  <2>1. \A d \in Clients \ {c} : spc'[d] = spc[d]
    BY <1>a DEF Close, IInv, TypeOK
  <2>2. spc'[c] \in {"readAmount", "lock", "closed"}
    BY <1>a DEF Close, IInv, TypeOK
  <2> QED BY <1>b, <2>1, <2>2 DEF IInv, MutualExclusion, ReadChoice, shared, InCritical
<1>3. Computed'
  BY <1>a DEF IInv, TypeOK, Computed, Close
<1>4. Protocol'
  <2> SUFFICES ASSUME NEW d \in Clients PROVE Sound(d)'
    BY DEF Protocol
  <2>0. UNCHANGED <<client, link, toClient, reset>>
    BY DEF ReadChoice
  <2>1. CASE d # c
    BY <1>a, <2>0, <2>1, Frame DEF IInv, TypeOK, Protocol, Untouched, Close, client
  <2>2. CASE d = c /\ read
    <3>1. CASE \E n \in Choices : toServer[c] = <<n>>
      <4>1. PICK n \in Choices : toServer[c] = <<n>>
        BY <3>1
      <4>2. choice'[c] = n /\ toServer'[c] = <<>> /\ n # Exit
        BY <2>2, <4>1, OneTwo DEF IInv, TypeOK
      <4>3. spc'[c] = IF n \in NeedsAmount THEN "readAmount" ELSE "lock"
        BY <2>2, <4>2 DEF IInv, TypeOK
      <4>4. toServer[c] # <<>>
        BY <2>2
      <4> QED BY <1>b, <2>0, <2>2, <4>1, <4>2, <4>3, <4>4
              DEF Sound, InStep, AtMenu, AtAmount, AtReply, client, Serving, Idle,
                  InCritical, NeedsAmount, Withdraw, Deposit, Display, Exit, Choices
    <3>2. CASE \E n \in NeedsAmount, a \in CInt : toServer[c] = <<n, a>>
      <4>1. PICK n \in NeedsAmount, a \in CInt : toServer[c] = <<n, a>>
        BY <3>2
      <4>2. choice'[c] = n /\ toServer'[c] = <<a>>
        BY <2>2, <4>1, OneTwo DEF IInv, TypeOK
      <4>3. spc'[c] = "readAmount"
        BY <2>2, <4>2 DEF IInv, TypeOK
      <4> QED BY <1>b, <2>0, <2>2, <4>1, <4>2, <4>3
              DEF Sound, InStep, AtMenu, AtAmount, AtReply, client, Serving, Idle, InCritical
    <3> QED BY <1>c, <2>2, <3>1, <3>2
  <2>3. CASE d = c /\ exit
    <3>1. cpc[c] = "gone"
      BY <1>b, <2>3, OneTwo DEF Sound, InStep, AtMenu, AtAmount, AtReply, Idle, Serving,
         InCritical, IInv, TypeOK, NeedsAmount, Exit, Display, Withdraw, Deposit
    <3>2. toServer[c] = <<Exit>>
      BY <1>c, <2>3, OneTwo DEF NeedsAmount, Exit, Withdraw, Deposit
    <3>3. toServer'[c] = <<>>
      BY <2>3, <3>2, OneTwo DEF IInv, TypeOK
    <3>4. spc'[c] = "closed"
      BY <2>3 DEF Close, IInv, TypeOK
    <3> QED BY <1>b, <2>0, <2>3, <3>1, <3>3, <3>4 DEF Sound, InStep, client, Idle, Serving, InCritical
  <2>4. CASE d = c /\ hangup
    BY <1>b, <2>0, <2>4 DEF Sound, InStep, client, Hangup, Close, Idle, Serving, InCritical, IInv, TypeOK
  <2> QED BY <1>a, <2>1, <2>2, <2>3, <2>4
<1> QED BY <1>1, <1>2, <1>3, <1>4 DEF IInv

LEMMA ReadAmountInv == ASSUME IInv, NEW c \in Clients, ReadAmount(c) PROVE IInv'
<1>0. Sound(c) /\ link[c] = "up" /\ spc[c] = "readAmount"
  BY DEF IInv, Protocol, Sound, InStep, ReadAmount
<1>a. toServer[c] = <<>> \/ \E a \in CInt : toServer[c] = <<a>>
  BY <1>0 DEF IInv, TypeOK, Sound, InStep, AtMenu, AtAmount, AtReply, Idle, Serving, InCritical
<1>b. ASSUME toServer[c] # <<>>
      PROVE  /\ Head(toServer[c]) \in CInt /\ Tail(toServer[c]) = <<>>
             /\ toServer[c] = <<Head(toServer[c])>>
  <2>1. PICK a \in CInt : toServer[c] = <<a>>
    BY <1>a, <1>b
  <2>2. Head(<<a>>) = a /\ Tail(<<a>>) = <<>>
    BY <2>1, OneTwo
  <2> QED BY <2>1, <2>2
<1>1. TypeOK'
  <2>1. CASE toServer[c] = <<>>
    BY <2>1 DEF IInv, TypeOK, ReadAmount, client, shared
  <2>2. CASE toServer[c] # <<>>
    <3>1. /\ toServer' = [toServer EXCEPT ![c] = <<>>]
          /\ amount' = [amount EXCEPT ![c] = Head(toServer[c])]
      BY <1>b, <2>2 DEF ReadAmount, Hangup
    <3>2. toServer' \in [Clients -> Seq(Choices \union CInt)]
      BY <3>1 DEF IInv, TypeOK
    <3>3. amount' \in [Clients -> CInt \union {Uninit}]
      BY <1>b, <2>2, <3>1 DEF IInv, TypeOK
    <3> QED BY <3>2, <3>3 DEF IInv, TypeOK, ReadAmount, client, shared
  <2> QED BY <2>1, <2>2
<1>2. MutualExclusion'
  BY <1>0 DEF IInv, TypeOK, MutualExclusion, ReadAmount, shared, InCritical
<1>3. Computed'
  BY DEF IInv, TypeOK, Computed, ReadAmount
<1>4. Protocol'
  <2> SUFFICES ASSUME NEW d \in Clients PROVE Sound(d)'
    BY DEF Protocol
  <2>0. UNCHANGED <<client, link, toClient, reset, choice>> /\ spc'[c] = "lock"
    BY DEF ReadAmount, IInv, TypeOK
  <2>1. CASE d # c
    BY <2>0, <2>1, Frame DEF IInv, TypeOK, Protocol, Untouched, ReadAmount, client
  <2>2. CASE d = c /\ cpc[c] = "gone"
    <3>1. toServer'[c] = <<>>
      <4>1. CASE toServer[c] = <<>>
        BY <4>1 DEF ReadAmount
      <4>2. CASE toServer[c] # <<>>
        BY <1>b, <4>2 DEF IInv, TypeOK, ReadAmount, Hangup
      <4> QED BY <4>1, <4>2
    <3>2. ~reset[c]
      BY <1>0, <2>2 DEF Sound, InStep
    <3>3. reset' = reset /\ link'[c] = "up" /\ cpc'[c] = "gone"
      BY <1>0, <2>0, <2>2 DEF client
    <3> QED BY <2>0, <2>2, <3>1, <3>2, <3>3 DEF Sound, InStep, Idle, Serving, InCritical
  <2>3. CASE d = c /\ cpc[c] # "gone"
    <3>1. AtReply(c) \/ (AtAmount(c) /\ toServer[c] = <<>>)
      BY <1>0, <2>3 DEF IInv, TypeOK, Sound, InStep, AtMenu, AtAmount, Idle
    <3>2. toServer[c] # <<>> /\ Head(toServer[c]) \in CInt
      BY <1>b, <2>3 DEF ReadAmount, Hangup
    <3>3. AtReply(c) /\ toServer[c] = <<asked[c].amount>> /\ asked[c].amount \in CInt
      BY <1>0, <3>1, <3>2 DEF AtReply, Idle, Serving, InCritical
    <3>4. amount'[c] = asked[c].amount /\ toServer'[c] = <<>>
      <4>1. Head(<<asked[c].amount>>) = asked[c].amount
        BY <3>3, OneTwo
      <4>2. amount'[c] = Head(toServer[c]) /\ toServer'[c] = Tail(toServer[c])
        BY <3>2 DEF ReadAmount, Hangup, IInv, TypeOK
      <4> QED BY <1>b, <3>2, <3>3, <4>1, <4>2
    <3>5. cpc[c] = "reply"
      BY <1>0, <2>3, <3>2 DEF IInv, TypeOK, Sound, InStep, AtMenu, AtAmount, Idle
    <3> QED BY <1>0, <2>0, <2>3, <3>3, <3>4, <3>5
            DEF Sound, InStep, AtReply, client, Idle, Serving, InCritical
  <2> QED BY <2>1, <2>2, <2>3
<1> QED BY <1>1, <1>2, <1>3, <1>4 DEF IInv

(* A serving thread that goes on serving leaves every connection in step. *)
LEMMA ServingStep ==
  ASSUME IInv, NEW c \in Clients, spc[c] \in Serving, spc'[c] \in Serving,
         UNCHANGED <<client, net, choice, amount>>,
         \A d \in Clients \ {c} : spc'[d] = spc[d]
  PROVE  Protocol'
<1> SUFFICES ASSUME NEW d \in Clients PROVE Sound(d)'
  BY DEF Protocol
<1>1. CASE d # c
  BY <1>1, Frame DEF IInv, Protocol, Untouched, client, net
<1>2. CASE d = c
  BY <1>2 DEF IInv, TypeOK, Protocol, Sound, InStep, AtMenu, AtAmount, AtReply, Idle,
              Serving, InCritical, client, net
<1> QED BY <1>1, <1>2

LEMMA LockInv == ASSUME IInv, NEW c \in Clients, Lock(c) PROVE IInv'
<1>1. TypeOK'
  BY DEF IInv, TypeOK, Lock, client, net, locals, InCritical
<1>2. MutualExclusion'
  BY AtmAssumption DEF IInv, TypeOK, MutualExclusion, Lock, InCritical
<1>3. Computed'
  BY DEF IInv, TypeOK, Computed, Lock, locals
<1>4. Protocol'
  BY ServingStep DEF IInv, TypeOK, Lock, Serving, InCritical, locals
<1> QED BY <1>1, <1>2, <1>3, <1>4 DEF IInv

LEMMA FetchInv == ASSUME IInv, NEW c \in Clients, Fetch(c) PROVE IInv'
<1>1. TypeOK'
  <2>1. balance' \in [Clients -> CInt \union {Uninit}]
    BY AtmAssumption DEF IInv, TypeOK, Fetch, CInt, IntMin
  <2> QED BY <2>1 DEF IInv, TypeOK, Fetch, client, net, shared, InCritical
<1>2. MutualExclusion'
  BY DEF IInv, TypeOK, MutualExclusion, Fetch, InCritical, shared
<1>3. Computed'
  BY DEF IInv, TypeOK, Computed, Fetch
<1>4. Protocol'
  BY ServingStep DEF IInv, TypeOK, Fetch, Serving, InCritical
<1> QED BY <1>1, <1>2, <1>3, <1>4 DEF IInv

LEMMA TruncateInv == ASSUME IInv, NEW c \in Clients, Truncate(c) PROVE IInv'
<1>0. PICK b \in Value(balance[c]) :
        \E n \in NewBalances(choice[c], b, amount[c]) : balance' = [balance EXCEPT ![c] = n]
  BY DEF Truncate
<1>a. PICK n \in NewBalances(choice[c], b, amount[c]) : balance' = [balance EXCEPT ![c] = n]
  BY <1>0
<1>b. b \in CInt
  BY DEF Value
<1>c. n \in CInt
  BY <1>b, OutcomeInt DEF IInv, TypeOK
<1>1. TypeOK'
  BY <1>a, <1>c DEF IInv, TypeOK, Truncate, client, net, InCritical
<1>2. MutualExclusion'
  BY DEF IInv, TypeOK, MutualExclusion, Truncate, InCritical
<1>3. Computed'
  BY <1>a, <1>c DEF IInv, TypeOK, Computed, Truncate
<1>4. Protocol'
  BY ServingStep DEF IInv, TypeOK, Truncate, Serving, InCritical
<1> QED BY <1>1, <1>2, <1>3, <1>4 DEF IInv

LEMMA StoreInv == ASSUME IInv, NEW c \in Clients, Store(c) PROVE IInv'
<1>1. TypeOK'
  BY DEF IInv, TypeOK, Computed, Store, client, net, locals, InCritical
<1>2. MutualExclusion'
  BY DEF IInv, TypeOK, MutualExclusion, Store, InCritical
<1>3. Computed'
  BY DEF IInv, TypeOK, Computed, Store, locals
<1>4. Protocol'
  BY ServingStep DEF IInv, TypeOK, Store, Serving, InCritical, locals
<1> QED BY <1>1, <1>2, <1>3, <1>4 DEF IInv

LEMMA UnlockInv == ASSUME IInv, NEW c \in Clients, Unlock(c) PROVE IInv'
<1>1. TypeOK'
  BY DEF IInv, TypeOK, Unlock, client, net, locals, InCritical
<1>2. MutualExclusion'
  BY AtmAssumption DEF IInv, TypeOK, MutualExclusion, Unlock, InCritical
<1>3. Computed'
  BY DEF IInv, TypeOK, Computed, Unlock, locals
<1>4. Protocol'
  BY ServingStep DEF IInv, TypeOK, Unlock, Serving, InCritical, locals
<1> QED BY <1>1, <1>2, <1>3, <1>4 DEF IInv

LEMMA ServerGoneInv ==
  ASSUME IInv, ServerGone, UNCHANGED <<client, toClient, reset, file>> PROVE IInv'
<1>1. TypeOK'
  <2>1. toServer' \in [Clients -> Seq(Choices \union CInt)]
    BY DEF ServerGone, Each
  <2>2. link' \in [Clients -> {"none", "up", "broken", "reset"}]
    BY DEF IInv, TypeOK, ServerGone
  <2>3. /\ choice' \in [Clients -> Choices \union {Uninit}]
        /\ amount' \in [Clients -> CInt \union {Uninit}]
        /\ balance' \in [Clients -> CInt \union {Uninit}]
    BY DEF ServerGone, Each
  <2> QED BY <2>1, <2>2, <2>3 DEF IInv, TypeOK, ServerGone, Each, client
<1>2. MutualExclusion'
  BY AtmAssumption DEF MutualExclusion, ServerGone, Each, InCritical
<1>3. Computed'
  BY DEF Computed, ServerGone, Each
<1>4. Protocol'
  BY DEF IInv, Protocol, Sound, InStep, ServerGone, Each, client
<1> QED BY <1>1, <1>2, <1>3, <1>4 DEF IInv

LEMMA RespondInv == ASSUME IInv, NEW c \in Clients, Respond(c) PROVE IInv'
<1>1. CASE cpc[c] = "gone" /\ reset[c]
  BY <1>1, ServerGoneInv DEF Respond
<1>2. CASE ~(cpc[c] = "gone" /\ reset[c])
  <2>0. /\ spc[c] = "respond" /\ balance[c] \in CInt /\ Sound(c) /\ link[c] = "up"
        /\ spc' = [spc EXCEPT ![c] = "readChoice"]
        /\ reset' = [reset EXCEPT ![c] = cpc[c] = "gone"]
        /\ toClient' = IF cpc[c] = "gone" THEN toClient
                       ELSE [toClient EXCEPT ![c] = Append(@, balance[c])]
        /\ UNCHANGED <<client, link, toServer, choice, amount, balance, mutex, up, file>>
    BY <1>2 DEF Respond, IInv, Computed, Protocol, Sound, InStep, locals
  <2>1. TypeOK'
    <3>1. Append(toClient[c], balance[c]) \in Seq(CInt)
      BY <2>0, AppendProperties DEF IInv, TypeOK
    <3>2. toClient' \in [Clients -> Seq(CInt)]
      BY <2>0, <3>1 DEF IInv, TypeOK
    <3>3. reset' \in [Clients -> BOOLEAN]
      BY <2>0 DEF IInv, TypeOK
    <3> QED BY <2>0, <3>2, <3>3 DEF IInv, TypeOK, client
  <2>2. MutualExclusion'
    BY <2>0 DEF IInv, TypeOK, MutualExclusion, InCritical
  <2>3. Computed'
    BY <2>0 DEF IInv, TypeOK, Computed
  <2>4. Protocol'
    <3> SUFFICES ASSUME NEW d \in Clients PROVE Sound(d)'
      BY DEF Protocol
    <3>1. CASE d # c
      BY <2>0, <3>1, Frame DEF IInv, TypeOK, Protocol, Untouched, client
    <3>2. CASE d = c /\ cpc[c] = "gone"
      <4>1. toServer[c] = <<>>
        BY <2>0, <3>2 DEF Sound, InStep, Serving
      <4> QED BY <2>0, <3>2, <4>1
              DEF IInv, TypeOK, Sound, InStep, Unread, client, Idle, Serving, InCritical
    <3>3. CASE d = c /\ cpc[c] # "gone"
      <4>1. AtReply(c) /\ cpc[c] = "reply" /\ toServer[c] = <<>> /\ toClient[c] = <<>>
        BY <2>0, <3>3 DEF IInv, TypeOK, Sound, InStep, AtMenu, AtAmount, AtReply, Idle
      <4>2. toClient'[c] = <<balance[c]>>
        BY <2>0, <3>3, <4>1, OneTwo DEF IInv, TypeOK
      <4>3. ~reset'[c]
        BY <2>0, <3>3 DEF IInv, TypeOK
      <4> QED BY <2>0, <3>3, <4>1, <4>2, <4>3 DEF IInv, TypeOK, Sound, InStep, AtReply, client
    <3> QED BY <3>1, <3>2, <3>3
  <2> QED BY <2>1, <2>2, <2>3, <2>4 DEF IInv
<1> QED BY <1>1, <1>2

LEMMA StartServerInv == ASSUME IInv, StartServer PROVE IInv'
<1>1. TypeOK' /\ MutualExclusion' /\ Computed'
  BY DEF IInv, TypeOK, MutualExclusion, Computed, StartServer, client, net, locals
<1>2. Protocol'
  BY Frame DEF IInv, Protocol, Untouched, StartServer, client, net, locals
<1> QED BY <1>1, <1>2 DEF IInv

-----------------------------------------------------------------------------
LEMMA NextInv == IInv /\ [Next]_vars => IInv'
<1> SUFFICES ASSUME IInv, [Next]_vars PROVE IInv'
  OBVIOUS
<1>1. ASSUME NEW c \in Clients, Client(c) PROVE IInv'
  BY <1>1, ConnectInv, ReceiveInv, ClientDiesInv, ChooseInv, EnterAmountInv DEF Client
<1>2. ASSUME NEW c \in Clients, Accept(c) PROVE IInv'
  BY <1>2, AcceptInv
<1>3. ASSUME NEW c \in Clients, Thread(c) PROVE IInv'
  BY <1>3, ReadChoiceInv, ReadAmountInv, LockInv, FetchInv, TruncateInv, StoreInv,
     UnlockInv, RespondInv DEF Thread
<1>4. CASE KillServer
  BY <1>4, ServerGoneInv DEF KillServer
<1>5. CASE StartServer
  BY <1>5, StartServerInv
<1>6. CASE UNCHANGED vars
  BY <1>6 DEF vars, IInv, TypeOK, MutualExclusion, Computed, Protocol, Sound, InStep,
              AtMenu, AtAmount, AtReply, Unread
<1> QED BY <1>1, <1>2, <1>3, <1>4, <1>5, <1>6 DEF Next

(* The inductive invariant holds of every behaviour of clients and server. *)
THEOREM Invariance == Spec => []IInv
  BY InitInv, NextInv, PTL DEF Spec

(* The variables of client and server keep their types; above all the file *)
(* only ever receives numbers (server:63-66).                              *)
THEOREM Typing == Spec => []TypeOK
  BY Invariance, PTL DEF IInv

(* The account file is touched by the owner of accountFileMutex alone,     *)
(* whatever hangups and kills happen (server:37-68).                       *)
THEOREM Exclusion == Spec => []MutualExclusion
  BY Invariance, PTL DEF IInv

(* A live client is served what it asked: two bare ints per request never  *)
(* get out of step (server:24-34, client:42-48).                           *)
THEOREM Framing == Spec => []ServedAsAsked
<1>1. IInv => ServedAsAsked
  <2> SUFFICES ASSUME IInv, NEW c \in Clients, cpc[c] # "gone",
                      spc[c] \in {"lock"} \union InCritical
               PROVE  /\ choice[c] = asked[c].choice
                      /\ choice[c] \in NeedsAmount => amount[c] = asked[c].amount
    BY DEF ServedAsAsked
  <2>1. Sound(c) /\ link[c] = "up" /\ cpc[c] \in {"menu", "amount", "reply"}
    BY DEF IInv, TypeOK, Protocol, Sound, InStep, InCritical
  <2> QED BY <2>1 DEF Sound, InStep, AtMenu, AtAmount, AtReply, Idle, InCritical
<1> QED BY <1>1, Invariance, PTL

(* Client and thread never each wait for the other (server:24, client:51). *)
THEOREM NoStandoff == Spec => []NoMutualWait
<1>1. IInv => NoMutualWait
  <2> SUFFICES ASSUME IInv, NEW c \in Clients, cpc[c] = "reply", link[c] = "up",
                      toClient[c] = <<>>, toServer[c] = <<>>,
                      spc[c] \in {"closed", "readChoice", "readAmount"}
               PROVE  FALSE
    BY DEF NoMutualWait
  <2>1. AtReply(c)
    BY DEF IInv, Protocol, Sound, InStep
  <2> QED BY <2>1 DEF AtReply, Serving, InCritical, Idle
<1> QED BY <1>1, Invariance, PTL

(* A hangup never draws the SIGPIPE that would end the server (server:72). *)
THEOREM HangupHarmless == Spec => []NoSigpipe
<1>1. IInv => NoSigpipe
  BY DEF IInv, Protocol, Sound, InStep, NoSigpipe
<1> QED BY <1>1, Invariance, PTL

-----------------------------------------------------------------------------
(* The detailed server implements the abstract account.                    *)

(* Between fetch and truncation the owner's copy is what the file holds;   *)
(* a thread that wants an amount is to withdraw or deposit.                *)
Fresh == \A c \in Clients :
           /\ spc[c] = "readAmount" => choice[c] \in NeedsAmount
           /\ spc[c] = "truncate" => /\ file = Absent => balance[c] = 0
                                     /\ file \in CInt => balance[c] = file
           /\ spc[c] = "store" => file = Torn

LEMMA Alone ==
  ASSUME MutualExclusion, NEW c \in Clients, spc[c] \in InCritical,
         NEW d \in Clients, d # c
  PROVE  spc[d] \notin InCritical
  BY DEF MutualExclusion

LEMMA FreshInit == Init => Fresh
  BY DEF Init, Fresh, Each

LEMMA FreshNext == IInv /\ Fresh /\ [Next]_vars => Fresh'
<1> SUFFICES ASSUME IInv, Fresh, [Next]_vars PROVE Fresh'
  OBVIOUS
<1> USE DEF IInv, TypeOK, Fresh
<1>1. ASSUME NEW c \in Clients, Client(c) PROVE Fresh'
  BY <1>1 DEF Client, Connect, Receive, ClientDies, Choose, EnterAmount, locals, shared
<1>2. ASSUME NEW c \in Clients, Accept(c) PROVE Fresh'
  BY <1>2 DEF Accept, locals, shared
<1>3. ASSUME NEW c \in Clients, Thread(c) PROVE Fresh'
  <2>1. CASE ReadChoice(c) \/ ReadAmount(c) \/ Lock(c)
    <3>1. UNCHANGED file
      BY <2>1 DEF ReadChoice, ReadAmount, Lock, shared
    <3>2. /\ spc'[c] \notin {"truncate", "store"}
          /\ \A d \in Clients \ {c} : /\ spc'[d] = spc[d] /\ balance'[d] = balance[d]
                                      /\ choice'[d] = choice[d]
      BY <2>1 DEF ReadChoice, Close, ReadAmount, Lock, locals
    <3>3. spc'[c] = "readAmount" => choice'[c] \in NeedsAmount
      BY <2>1 DEF ReadChoice, Close, ReadAmount, Lock, locals
    <3> QED BY <3>1, <3>2, <3>3
  <2>2. CASE Fetch(c)
    BY <2>2, AtmAssumption, Alone DEF Fetch, shared, InCritical
  <2>3. CASE Truncate(c) \/ Store(c)
    <3>1. spc[c] \in InCritical /\ spc'[c] \notin {"truncate", "readAmount"} /\ UNCHANGED choice
      BY <2>3 DEF Truncate, Store, InCritical, locals
    <3>2. \A d \in Clients \ {c} : spc'[d] = spc[d] /\ spc[d] \notin {"truncate", "store"}
      BY <2>3, <3>1, Alone DEF Truncate, Store, InCritical
    <3>3. spc'[c] = "store" => file' = Torn
      BY <2>3 DEF Truncate, Store
    <3> QED BY <3>1, <3>2, <3>3
  <2>4. CASE Unlock(c)
    BY <2>4 DEF Unlock, locals
  <2>5. CASE Respond(c)
    BY <2>5 DEF Respond, ServerGone, Each, locals
  <2> QED BY <1>3, <2>1, <2>2, <2>3, <2>4, <2>5 DEF Thread
<1>4. CASE KillServer
  BY <1>4 DEF KillServer, ServerGone, Each
<1>5. CASE StartServer
  BY <1>5 DEF StartServer, locals
<1>6. CASE UNCHANGED vars
  BY <1>6 DEF vars
<1> QED BY <1>1, <1>2, <1>3, <1>4, <1>5, <1>6 DEF Next

(* The mapped account, by whether a thread is between truncation and store. *)
LEMMA BalanceStoring ==
  ASSUME MutualExclusion, NEW c \in Clients, spc[c] = "store"
  PROVE  Balance = balance[c]
<1>1. Storing = {c}
  BY Alone DEF Storing, InCritical
<1> QED BY <1>1 DEF Balance

LEMMA BalanceIdle ==
  ASSUME \A c \in Clients : spc[c] # "store" PROVE Balance = file
  BY DEF Balance, Storing

LEMMA AccInit == Init => Acc!Init
<1> SUFFICES ASSUME Init PROVE Acc!Init
  OBVIOUS
<1>1. Balance = file
  BY BalanceIdle DEF Init, Each
<1> QED BY <1>1, AtmAssumption
        DEF Init, Each, Acc!Init, Pending, Answers, Acc!CInt, Acc!IntMin, CInt, IntMin

(* Steps the account does not see. *)
LEMMA Stutter ==
  ASSUME UNCHANGED file, \A d \in Clients : spc[d] # "store" /\ spc'[d] # "store",
         UNCHANGED <<Pending, Answers>>
  PROVE  UNCHANGED Acc!vars
<1>1. Balance = file /\ Balance' = file'
  BY BalanceIdle DEF Balance, Storing
<1> QED BY <1>1 DEF Acc!vars

LEMMA AccClient == ASSUME IInv, NEW c \in Clients, Client(c) PROVE UNCHANGED Acc!vars
<1>1. CASE Connect(c)
  <2>1. spc[c] \in {"none", "closed"} /\ spc'[c] = "none"
    BY <1>1 DEF IInv, TypeOK, Protocol, Sound, InStep, Connect
  <2>2. \A d \in Clients \ {c} : spc'[d] = spc[d]
    BY <1>1 DEF IInv, TypeOK, Connect
  <2>3. UNCHANGED <<choice, amount, balance, file>>
    BY <1>1 DEF Connect, locals, shared
  <2>4. Pending' = Pending /\ Answers' = Answers /\ Storing' = Storing
    BY <2>1, <2>2, <2>3 DEF Pending, Answers, Storing
  <2> QED BY <2>3, <2>4 DEF Acc!vars, Balance
<1>2. CASE UNCHANGED <<spc, choice, amount, balance, file>>
  BY <1>2 DEF Acc!vars, Balance, Storing, Pending, Answers
<1> QED BY <1>1, <1>2 DEF Client, Receive, ClientDies, Choose, EnterAmount, locals, shared

LEMMA AccAccept == ASSUME IInv, NEW c \in Clients, Accept(c) PROVE UNCHANGED Acc!vars
<1>1. spc[c] = "none" /\ spc'[c] = "readChoice" /\ UNCHANGED <<choice, amount, balance, file>>
  BY DEF IInv, TypeOK, Accept, locals, shared
<1>2. \A d \in Clients \ {c} : spc'[d] = spc[d]
  BY DEF IInv, TypeOK, Accept
<1>3. Pending' = Pending /\ Answers' = Answers /\ Storing' = Storing
  BY <1>1, <1>2 DEF Pending, Answers, Storing
<1> QED BY <1>1, <1>3 DEF Acc!vars, Balance

(* A thread that reaches the lock has put its request to the account. *)
LEMMA AccRequest ==
  ASSUME IInv, IInv', NEW c \in Clients, spc[c] \in {"readChoice", "readAmount"},
         spc' = [spc EXCEPT ![c] = "lock"],
         \A d \in Clients \ {c} : choice'[d] = choice[d] /\ amount'[d] = amount[d],
         choice'[c] \in {Withdraw, Deposit, Display},
         UNCHANGED <<balance, file>>
  PROVE  Acc!Request(c)
<1> DEFINE r == [op |-> choice'[c], amount |-> amount'[c]]
<1>1. r \in Acc!Requests
  BY DEF IInv, TypeOK, Acc!Requests, Acc!CInt, Acc!IntMin, CInt, IntMin, Acc!Withdraw,
         Acc!Deposit, Acc!Display, Withdraw, Deposit, Display
<1>2. Pending' = [Pending EXCEPT ![c] = r]
  BY DEF Pending, IInv, TypeOK
<1>3. Pending[c] = Nothing /\ Answers[c] = Nothing
  BY DEF Pending, Answers
<1>4. Answers' = Answers
  BY DEF Answers, IInv, TypeOK
<1>5. Storing' = Storing
  BY DEF Storing, IInv, TypeOK
<1>6. Balance' = Balance
  BY <1>5 DEF Balance
<1>7. \E q \in Acc!Requests : Pending' = [Pending EXCEPT ![c] = q]
  BY <1>1, <1>2
<1> QED BY <1>3, <1>4, <1>6, <1>7 DEF Acc!Request

LEMMA AccRead ==
  ASSUME IInv, IInv', Fresh, NEW c \in Clients, ReadChoice(c) \/ ReadAmount(c)
  PROVE  Acc!Request(c) \/ UNCHANGED Acc!vars
<1>0. ReadChoice(c) => \/ spc' = [spc EXCEPT ![c] = "closed"] /\ Close(c)
                       \/ spc' = [spc EXCEPT ![c] = "readAmount"] /\ UNCHANGED <<amount, balance>>
                       \/ /\ spc' = [spc EXCEPT ![c] = "lock"] /\ UNCHANGED <<amount, balance>>
                          /\ choice'[c] \notin NeedsAmount /\ choice'[c] # Exit
                          /\ choice' = [choice EXCEPT ![c] = Head(toServer[c])]
  BY DEF ReadChoice, Close, IInv, TypeOK
<1>1. CASE spc' = [spc EXCEPT ![c] = "lock"]
  <2>1. spc[c] \in {"readChoice", "readAmount"} /\ UNCHANGED <<balance, file>>
    BY <1>1 DEF ReadChoice, ReadAmount, Close, shared, IInv, TypeOK
  <2>2. \A d \in Clients \ {c} : choice'[d] = choice[d] /\ amount'[d] = amount[d]
    BY <1>1 DEF ReadChoice, ReadAmount, Close, IInv, TypeOK
  <2>3. choice'[c] \in {Withdraw, Deposit, Display}
    <3>1. CASE ReadChoice(c)
      <4>1. toServer[c] # <<>> /\ choice'[c] = Head(toServer[c]) /\ choice'[c] # Exit
        BY <1>1, <3>1 DEF ReadChoice, Close, IInv, TypeOK
      <4>2. choice'[c] \in Choices
        BY <3>1, <4>1, ChoiceFirst DEF ReadChoice
      <4> QED BY <4>1, <4>2 DEF Choices
    <3>2. CASE ReadAmount(c)
      BY <3>2 DEF ReadAmount, Fresh, NeedsAmount
    <3> QED BY <3>1, <3>2
  <2> QED BY <1>1, <2>1, <2>2, <2>3, AccRequest
<1>2. CASE spc' # [spc EXCEPT ![c] = "lock"]
  <2>1. /\ spc[c] = "readChoice" /\ spc'[c] \in {"closed", "readAmount"} /\ UNCHANGED file
        /\ \A d \in Clients \ {c} : /\ spc'[d] = spc[d] /\ choice'[d] = choice[d]
                                    /\ amount'[d] = amount[d] /\ balance'[d] = balance[d]
    BY <1>0, <1>2 DEF ReadChoice, ReadAmount, Close, shared, IInv, TypeOK
  <2>2. Pending' = Pending /\ Answers' = Answers
    BY <2>1 DEF Pending, Answers
  <2>3. Storing' = Storing
    BY <2>1 DEF Storing
  <2>4. Storing # {} => (CHOOSE d \in Storing : TRUE) \in Clients \ {c}
    BY <2>1 DEF Storing
  <2>5. Balance' = Balance
    BY <2>1, <2>3, <2>4 DEF Balance
  <2> QED BY <2>2, <2>5 DEF Acc!vars
<1> QED BY <1>1, <1>2

(* The truncation serves the request on the balance that was found. *)
LEMMA AccServe ==
  ASSUME IInv, IInv', Fresh, NEW c \in Clients, Truncate(c) PROVE Acc!Serve(c)
<1>1. PICK b \in Value(balance[c]) :
        \E n \in NewBalances(choice[c], b, amount[c]) : balance' = [balance EXCEPT ![c] = n]
  BY DEF Truncate
<1>2. PICK n \in NewBalances(choice[c], b, amount[c]) : balance' = [balance EXCEPT ![c] = n]
  BY <1>1
<1>3. /\ spc[c] = "truncate" /\ spc' = [spc EXCEPT ![c] = "store"]
      /\ UNCHANGED <<choice, amount>>
  BY DEF Truncate
<1>4. Balance = file
  BY <1>3, Alone, BalanceIdle DEF IInv, InCritical
<1>5. Balance' = n
  <2>1. Storing' = {c}
    BY <1>3, Alone DEF Storing, InCritical, IInv, TypeOK
  <2> QED BY <1>2, <2>1 DEF Balance, IInv, TypeOK
<1>6. Pending[c] = [op |-> choice[c], amount |-> amount[c]] /\ Pending[c] # Nothing
  <2>1. Pending[c] = [op |-> choice[c], amount |-> amount[c]]
    BY <1>3 DEF Pending
  <2> QED BY <2>1, AtmAssumption DEF IInv, TypeOK
<1>7. b \in Acc!Found
  <2>0. Acc!CInt = CInt /\ 0 \in CInt
    BY AtmAssumption DEF Acc!CInt, Acc!IntMin, CInt, IntMin
  <2>1. CASE file = Absent
    <3>1. b = 0
      BY <1>1, <1>3, <2>0, <2>1 DEF Fresh, Value
    <3> QED BY <1>4, <2>1, <3>1 DEF Acc!Found
  <2>2. CASE file = Torn
    <3>1. b \in CInt
      BY DEF Value
    <3> QED BY <1>4, <2>0, <2>2, <3>1, AtmAssumption DEF Acc!Found, Acc!Value
  <2>3. CASE file \in CInt
    <3>1. b = file
      BY <1>1, <1>3, <2>3 DEF Fresh, Value
    <3> QED BY <1>4, <2>0, <2>3, <3>1, AtmAssumption DEF Acc!Found, Acc!Value
  <2> QED BY <2>1, <2>2, <2>3 DEF IInv, TypeOK
<1>8. n \in Acc!Outcomes(Pending[c], b)
  BY <1>2, <1>6 DEF Acc!Outcomes, NewBalances, Acc!Value, Value, Acc!Wrap, Wrap, Acc!Withdraw,
     Acc!Deposit, Withdraw, Deposit, Acc!CInt, Acc!IntMin, CInt, IntMin
<1>9. Pending' = [Pending EXCEPT ![c] = Nothing]
  BY <1>3 DEF Pending, IInv, TypeOK
<1>10. Answers' = [Answers EXCEPT ![c] = n]
  BY <1>2, <1>3 DEF Answers, IInv, TypeOK
<1> QED BY <1>5, <1>6, <1>7, <1>8, <1>9, <1>10 DEF Acc!Serve

LEMMA AccKill ==
  ASSUME IInv, Fresh, ServerGone, UNCHANGED file PROVE Acc!Kill
<1>1. Balance' = file
  BY BalanceIdle DEF ServerGone, Each, Balance, Storing
<1>2. Balance = file \/ file = Torn
  <2>1. CASE \E c \in Clients : spc[c] = "store"
    <3>1. file = Torn
      BY <2>1 DEF Fresh
    <3> QED BY <3>1
  <2>2. CASE \A c \in Clients : spc[c] # "store"
    BY <2>2, BalanceIdle
  <2> QED BY <2>1, <2>2
<1>3. Pending' = [c \in Clients |-> Nothing] /\ Answers' = [c \in Clients |-> Nothing]
  BY DEF ServerGone, Each, Pending, Answers
<1> QED BY <1>1, <1>2, <1>3 DEF Acc!Kill

LEMMA AccThread ==
  ASSUME IInv, IInv', Fresh, NEW c \in Clients, Thread(c)
  PROVE  \/ Acc!Request(c) \/ Acc!Serve(c) \/ Acc!Reply(c) \/ Acc!Kill
         \/ UNCHANGED Acc!vars
<1>1. CASE ReadChoice(c) \/ ReadAmount(c)
  BY <1>1, AccRead
<1>2. CASE Lock(c) \/ Fetch(c)
  <2>1. spc[c] \in {"lock", "fetch"} /\ spc'[c] \in {"fetch", "truncate"}
    BY <1>2 DEF Lock, Fetch, IInv, TypeOK
  <2>2. UNCHANGED <<choice, amount, file>>
    BY <1>2 DEF Lock, Fetch, locals, shared
  <2>3. \A d \in Clients \ {c} : spc'[d] = spc[d] /\ balance'[d] = balance[d]
    BY <1>2, AtmAssumption DEF Lock, Fetch, locals, IInv, TypeOK
  <2>4. Pending' = Pending /\ Answers' = Answers
    BY <2>1, <2>2, <2>3 DEF Pending, Answers
  <2>5. Storing' = Storing /\ c \notin Storing
    BY <2>1, <2>3 DEF Storing
  <2>6. Storing # {} => (CHOOSE d \in Storing : TRUE) \in Clients \ {c}
    BY <2>5 DEF Storing
  <2>7. Balance' = Balance
    BY <2>2, <2>3, <2>5, <2>6 DEF Balance
  <2> QED BY <2>4, <2>7 DEF Acc!vars
<1>3. CASE Truncate(c)
  BY <1>3, AccServe
<1>4. CASE Store(c)
  <2>1. spc[c] = "store" /\ spc' = [spc EXCEPT ![c] = "unlock"]
    BY <1>4 DEF Store
  <2>2. UNCHANGED <<choice, amount, balance>> /\ file' = balance[c]
    BY <1>4 DEF Store, locals
  <2>3. Pending' = Pending /\ Answers' = Answers
    BY <2>1, <2>2 DEF Pending, Answers, IInv, TypeOK
  <2>4. Balance = balance[c]
    BY <2>1, BalanceStoring DEF IInv
  <2>5. Storing' = {}
    BY <2>1, Alone DEF Storing, IInv, TypeOK, InCritical
  <2>6. Balance' = balance[c]
    BY <2>2, <2>5 DEF Balance
  <2> QED BY <2>3, <2>4, <2>6 DEF Acc!vars
<1>5. CASE Unlock(c)
  <2>1. /\ spc[c] = "unlock" /\ spc' = [spc EXCEPT ![c] = "respond"]
        /\ UNCHANGED <<choice, amount, balance, file>>
    BY <1>5 DEF Unlock, locals
  <2>2. Pending' = Pending /\ Answers' = Answers /\ Storing' = Storing
    BY <2>1 DEF Pending, Answers, Storing, IInv, TypeOK
  <2> QED BY <2>1, <2>2 DEF Acc!vars, Balance
<1>6. CASE Respond(c)
  <2>1. CASE cpc[c] = "gone" /\ reset[c]
    BY <1>6, <2>1, AccKill DEF Respond
  <2>2. CASE ~(cpc[c] = "gone" /\ reset[c])
    <3>1. /\ spc[c] = "respond" /\ spc' = [spc EXCEPT ![c] = "readChoice"]
          /\ UNCHANGED <<choice, amount, balance, file>>
      BY <1>6, <2>2 DEF Respond, locals
    <3>2. Pending' = Pending /\ Storing' = Storing
      BY <3>1 DEF Pending, Storing, IInv, TypeOK
    <3>3. Answers' = [Answers EXCEPT ![c] = Nothing]
      BY <3>1 DEF Answers, IInv, TypeOK
    <3>4. Answers[c] # Nothing
      BY <3>1, AtmAssumption DEF Answers, IInv, Computed
    <3> QED BY <3>1, <3>2, <3>3, <3>4 DEF Acc!Reply, Balance
  <2> QED BY <2>1, <2>2
<1> QED BY <1>1, <1>2, <1>3, <1>4, <1>5, <1>6 DEF Thread

LEMMA AccNext == IInv /\ IInv' /\ Fresh /\ [Next]_vars => [Acc!Next]_(Acc!vars)
<1> SUFFICES ASSUME IInv, IInv', Fresh, [Next]_vars PROVE Acc!Next \/ UNCHANGED Acc!vars
  OBVIOUS
<1>1. ASSUME NEW c \in Clients, Client(c) \/ Accept(c) PROVE UNCHANGED Acc!vars
  BY <1>1, AccClient, AccAccept
<1>2. ASSUME NEW c \in Clients, Thread(c) PROVE Acc!Next \/ UNCHANGED Acc!vars
  BY <1>2, AccThread DEF Acc!Next
<1>3. CASE KillServer
  BY <1>3, AccKill DEF KillServer, Acc!Next
<1>4. CASE StartServer \/ UNCHANGED vars
  <2>1. UNCHANGED <<spc, choice, amount, balance, file>>
    BY <1>4 DEF StartServer, locals, vars
  <2> QED BY <2>1 DEF Acc!vars, Balance, Storing, Pending, Answers
<1> QED BY <1>1, <1>2, <1>3, <1>4 DEF Next

(* Every session of clients, threads, hangups and kills looks like one     *)
(* account to which requests are applied one at a time: no update is lost, *)
(* and the balance a client is sent is the one its request left            *)
(* (server:37-72).                                                         *)
THEOREM Refinement == Spec => ImplementsAccount
<1>1. Spec => [](IInv /\ Fresh)
  BY InitInv, NextInv, FreshInit, FreshNext, PTL DEF Spec
<1> QED BY <1>1, AccInit, AccNext, PTL DEF Spec, ImplementsAccount, Acc!Spec
=============================================================================
