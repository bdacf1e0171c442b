---------------------------- MODULE MCCacheCases -----------------------------
(* More instances of ServiceCache, and ServiceQueries.  A behaviour picks   *)
(* one of the cases of "which":                                             *)
(*   "clients" two clients, with the constants of the cfg                   *)
(*   "faults"  one call at a time; providers one block behind, flawed       *)
(*             answers, unknown after_txid, single transactions             *)
(*   "utxos"   one call at a time, and getutxos()                           *)
(* or one of those of Questions:                                            *)
(*   "wrong"    block counts of one service, providers that exaggerate      *)
(*   "late"     block counts of two, providers that are late or fail        *)
(*   "balances" balances of one or three addresses, two in a request        *)
(*   "blocks"   pages of three blocks, also incomplete in the cache         *)
(*   "fees"     fee estimates                                               *)
EXTENDS MCServiceCache, ServiceQueries

CONSTANT Cases  \* those of the run

VARIABLE which

F == INSTANCE ServiceCache WITH
       MaxTip <- 3, Lag <- TRUE, Flaws <- TRUE, Foreign <- TRUE, Singles <- TRUE

U == INSTANCE ServiceCache WITH MaxTip <- 3, Utxos <- TRUE

OneCall == Cardinality({c \in Client : call'[c] # Idle}) <= 1

Questions ==
  [wrong    |-> [services |-> {"s1"}, queries |-> {"count"}, wrong |-> TRUE, fail |-> FALSE],
   late     |-> [services |-> {"s1", "s2"}, queries |-> {"count"}, wrong |-> FALSE, fail |-> TRUE],
   balances |-> [services |-> {"s1"}, queries |-> {"count", "balance"}, wrong |-> FALSE, fail |-> FALSE],
   blocks   |-> [services |-> {"s1"}, queries |-> {"block"}, wrong |-> FALSE, fail |-> FALSE],
   fees     |-> [services |-> {"s1"}, queries |-> {"fee"}, wrong |-> FALSE, fail |-> FALSE]]

BalanceOf == [a |-> <<1, 2, 0>>, b |-> <<4, 4, 8>>, c |-> <<0, 16, 32>>]
AddressesOf == {<<"a">>, <<"a", "b", "c">>}
SizeOf == <<1, 5, 4>>
WithoutData == {<<2, 1>>, <<3, 3>>}
PagesOf == {<<1, 2>>, <<2, 2>>, <<1, 1>>, <<3, 1>>, <<1, 3>>, <<2, 3>>, <<1, 4>>, <<1, 9>>, <<1, 0>>}

(* gettransaction() stored a transaction of block 2, gettransactions() the   *)
(* last one of block 2 and of block 3 as the first of an address.            *)
OthersOf == {[block |-> 2, at |-> 2, index |-> -1], [block |-> 2, at |-> 4, index |-> 0],
             [block |-> 3, at |-> 3, index |-> 0]}

Query(q) == INSTANCE ServiceQueries WITH
  Service <- q.services, Queries <- q.queries, Wrong <- q.wrong, Fail <- q.fail

Calls ==
  /\ UNCHANGED <<which, asking>>
  /\ \/ which = "clients" /\ Next
     \/ which = "faults" /\ F!Next /\ OneCall
     \/ which = "utxos" /\ U!Next /\ OneCall

MCInit ==
  /\ which \in Cases
  /\ Init
  /\ IF which \in DOMAIN Questions
     THEN \E w \in DOMAIN Questions : which = w /\ Query(Questions[w])!QueryInit
     ELSE Query(Questions.fees)!QueryInit

MCNext ==
  \/ \E w \in DOMAIN Questions : which = w /\ Query(Questions[w])!QueryNext /\ UNCHANGED <<which, vars>>
  \/ Calls

MCSpec == MCInit /\ [][MCNext]_<<vars, which, asking>>

(* See ServiceCache; with the faults, answers may miss transactions.        *)
Complete == Ascending /\ (which # "faults" => NothingMissing /\ LastBlockSound)
=============================================================================
