----------------------------- MODULE MCAccounts -----------------------------
(***************************************************************************)
(* The trade context, and the two parts of the account web application     *)
(* that compute or keep something of their own. They share no state, so    *)
(* each is explored with the others at rest.                               *)
(***************************************************************************)
EXTENDS TradeContext, WatchlistCache, RealizedPl

TLC == INSTANCE TLC

Account(env, markets, firm) == [env |-> env, markets |-> markets, firm |-> firm]

\* A context for Hong Kong, whose login has an account of another firm as well;
\* one for any market, with two real accounts, the first without a market; one for a
\* market that has no real accounts.
MCSetups ==
    {[market |-> "HK", security |-> TRUE,
      listed |-> <<Account("SIMULATE", {"HK"}, None), Account("REAL", {"HK"}, "other"),
                   Account("REAL", {"HK", "US"}, "own")>>],
     [market |-> "NONE", security |-> TRUE,
      listed |-> <<Account("REAL", {}, "own"), Account("REAL", {"US"}, "own")>>],
     [market |-> "CN", security |-> TRUE, listed |-> <<Account("SIMULATE", {"CN"}, None)>>]}

Want(env, id, index) == [env |-> env, id |-> id, index |-> index]

\* By index, the second of its environment; by id, one of that environment or of
\* another. (get_margin_ratio asks for the first real account.)
MCWanted == {Want("SIMULATE", 1, 0), Want("REAL", 0, 1), Want("REAL", 1, 0)}

Symmetry == TLC!Permutations(Users) \union TLC!Permutations(Readers)

VARIABLE component   \* "trade", "cache" or "profit"

allVars == <<component, tradeVars, cacheVars, plVars>>

ProfitAtRest == row = 0 /\ deals = <<>> /\ side = [o \in Orders |-> "BUY"]
                        /\ fees = [o \in Orders |-> 0]

Init ==
    /\ component \in {"trade", "cache", "profit"}
    /\ TradeInit /\ CacheInit /\ PlInit
    /\ component # "trade" => setup.market = "CN"
    /\ component # "profit" => ProfitAtRest

Next ==
    \/ component = "trade" /\ TradeNext /\ UNCHANGED <<component, cacheVars, plVars>>
    \/ component = "cache" /\ CacheNext /\ UNCHANGED <<component, tradeVars, plVars>>
    \/ component = "profit" /\ PlNext /\ UNCHANGED <<component, tradeVars, cacheVars>>

Spec == Init /\ [][Next]_allVars

TypeOK == TradeTypeOK /\ CacheTypeOK
=============================================================================
