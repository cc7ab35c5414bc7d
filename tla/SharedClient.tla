---------------------------- MODULE SharedClient ----------------------------
(***************************************************************************)
(* The expiring cache of lru/cache.go with the shared rpc clients that     *)
(* pmtp/conn.go keeps in it.  Users run Connect and Close; a cleaner       *)
(* goroutine belongs to each ticker; dialing, storing, counting and        *)
(* acquiring are steps of their own.                                       *)
(***************************************************************************)
EXTENDS Integers, FiniteSets

CONSTANTS
  Keys,        (* addresses                                                 *)
  Dialers,     (* users of the pool, each connects once                     *)
  MaxTickers   (* BOUND: tickers created                                    *)

(* An entry is named after the user that dialled it.                       *)
NoEntry == "nil"

ASSUME CacheAssumption ==
  /\ MaxTickers \in Nat \ {0} /\ Keys # {}
  /\ IsFiniteSet(Keys) /\ IsFiniteSet(Dialers) /\ NoEntry \notin Dialers

VARIABLES
  cache,     (* Cache.underlying: the entry of each key, or NoEntry         *)
  entry,     (* per entry: [conn, acq, old, ref]                            *)
  items,     (* Cache.itemCount                                             *)
  ticker,    (* Cache.cleanupTicker, 0 for nil                              *)
  made,      (* number of tickers so far                                    *)
  stopped,   (* tickers that were stopped                                   *)
  cleaner,   (* per ticker: [at, todo, doomed]                              *)
  dialer,    (* per user: [at, key, ent]                                    *)
  lost       (* history: entries that lost the race for their key           *)

cacheVars == <<cache, entry, items, ticker, made, stopped, cleaner, dialer,
               lost>>

Tickers == 1..MaxTickers
Fresh == [conn |-> "none", acq |-> 0, old |-> FALSE, ref |-> FALSE]
NoCleaner == [at |-> "none", todo |-> {}, doomed |-> NoEntry]

(* Every variable has its type.                                            *)
CacheTypeOK ==
  /\ cache \in [Keys -> Dialers \cup {NoEntry}]
  /\ entry \in [Dialers -> [conn : {"none", "open", "closed"},
                            acq : 0..Cardinality(Dialers),
                            old : BOOLEAN, ref : BOOLEAN]]
  /\ items \in -Cardinality(Dialers)..Cardinality(Dialers)
  /\ ticker \in 0..MaxTickers /\ made \in 0..MaxTickers
  /\ stopped \subseteq Tickers /\ lost \subseteq Dialers
  /\ cleaner \in [Tickers -> [at : {"none", "sleep", "range", "delete",
                                    "uncount", "load", "exit"},
                              todo : SUBSET Keys,
                              doomed : Dialers \cup {NoEntry}]]
  /\ dialer \in [Dialers -> [at : {"off", "get", "dial", "store", "count",
                                   "swap", "acquire", "hold", "end", "panic"},
                             key : Keys, ent : Dialers \cup {NoEntry}]]

CacheInit ==
  /\ cache = [k \in Keys |-> NoEntry]
  /\ entry = [d \in Dialers |-> Fresh]
  /\ items = 0 /\ ticker = 0 /\ made = 0 /\ stopped = {} /\ lost = {}
  /\ cleaner = [t \in Tickers |-> NoCleaner]
  /\ dialer = [d \in Dialers |-> [at |-> "off", key |-> CHOOSE k \in Keys : TRUE,
                                  ent |-> NoEntry]]

-----------------------------------------------------------------------------
(* The expiry of an entry passes without a use of it.                      *)
GrowOld(e) ==
  /\ entry[e].conn # "none" /\ ~entry[e].old
  /\ entry' = [entry EXCEPT ![e].old = TRUE]
  /\ UNCHANGED <<cache, items, ticker, made, stopped, cleaner, dialer, lost>>

At(d, place) == dialer' = [dialer EXCEPT ![d].at = place]

Connect(d, k) ==
  /\ dialer[d].at = "off"
  /\ dialer' = [dialer EXCEPT ![d] = [@ EXCEPT !.at = "get", !.key = k]]
  /\ UNCHANGED <<cache, entry, items, ticker, made, stopped, cleaner, lost>>

(* GetEntry: a hit is bumped, a miss dials.                                *)
GetEntry(d) ==
  LET e == cache[dialer[d].key] IN
  /\ dialer[d].at = "get"
  /\ \/ /\ e = NoEntry /\ At(d, "dial") /\ UNCHANGED entry
     \/ /\ e # NoEntry /\ entry' = [entry EXCEPT ![e].old = FALSE]
        /\ dialer' = [dialer EXCEPT ![d] =
                       [@ EXCEPT !.at = "acquire", !.ent = e]]
  /\ UNCHANGED <<cache, items, ticker, made, stopped, cleaner, lost>>

(* Cache.New: a client that keeps its entry.                               *)
DialNew(d) ==
  /\ dialer[d].at = "dial" /\ At(d, "store")
  /\ entry' = [entry EXCEPT ![d] = [conn |-> "open", acq |-> 0, old |-> FALSE,
                                    ref |-> TRUE]]
  /\ UNCHANGED <<cache, items, ticker, made, stopped, cleaner, lost>>

DialNewFails(d) ==
  /\ dialer[d].at = "dial" /\ At(d, "end")
  /\ UNCHANGED <<cache, entry, items, ticker, made, stopped, cleaner, lost>>

(* SetEntry: LoadOrStore.  The entry that came too late is dropped with    *)
(* its connection.                                                         *)
SetEntry(d) ==
  LET e == cache[dialer[d].key] IN
  /\ dialer[d].at = "store"
  /\ \/ /\ e = NoEntry
        /\ cache' = [cache EXCEPT ![dialer[d].key] = d]
        /\ dialer' = [dialer EXCEPT ![d] =
                       [@ EXCEPT !.at = "count", !.ent = d]]
        /\ UNCHANGED lost
     \/ /\ e # NoEntry
        /\ dialer' = [dialer EXCEPT ![d] =
                       [@ EXCEPT !.at = "acquire", !.ent = e]]
        /\ lost' = lost \cup {d} /\ UNCHANGED cache
  /\ UNCHANGED <<entry, items, ticker, made, stopped, cleaner>>

(* MUTANT: a ticker that is there is taken to be alive.                    *)
CountTrusts(d) ==
  /\ dialer[d].at = "count" /\ items' = items + 1
  /\ At(d, IF items' = 1 /\ ticker = 0 THEN "swap" ELSE "acquire")
  /\ UNCHANGED <<cache, entry, ticker, made, stopped, cleaner, lost>>

(* onInsert: the first item starts a cleaner.                              *)
CountInsert(d) ==
  /\ dialer[d].at = "count" /\ items' = items + 1
  /\ At(d, IF items' = 1 THEN "swap" ELSE "acquire")
  /\ UNCHANGED <<cache, entry, ticker, made, stopped, cleaner, lost>>

(* The ticker takes the place of the last, which is stopped: its cleaner   *)
(* waits for it for ever.                                                  *)
StartCleaner(d) ==
  /\ dialer[d].at = "swap" /\ made < MaxTickers
  /\ made' = made + 1 /\ ticker' = made + 1
  /\ stopped' = IF ticker = 0 THEN stopped ELSE stopped \cup {ticker}
  /\ cleaner' = [cleaner EXCEPT ![made + 1].at = "sleep"]
  /\ At(d, "acquire")
  /\ UNCHANGED <<cache, entry, items, lost>>

(* cli.entry.Load().Acquire(): a client that was closed has no entry.      *)
AcquireEntry(d) ==
  LET e == dialer[d].ent IN
  /\ dialer[d].at = "acquire"
  /\ IF entry[e].ref
     THEN entry' = [entry EXCEPT ![e].acq = @ + 1] /\ At(d, "hold")
     ELSE UNCHANGED entry /\ At(d, "panic")
  /\ UNCHANGED <<cache, items, ticker, made, stopped, cleaner, lost>>

(* sharedClient.Close: the first of all its users releases and closes.     *)
CloseShared(d) ==
  LET e == dialer[d].ent IN
  /\ dialer[d].at = "hold" /\ At(d, "end")
  /\ entry' = IF entry[e].ref
              THEN [entry EXCEPT ![e] = [conn |-> "closed", acq |-> @.acq - 1,
                                         old |-> FALSE, ref |-> FALSE]]
              ELSE entry
  /\ UNCHANGED <<cache, items, ticker, made, stopped, cleaner, lost>>

-----------------------------------------------------------------------------
(* The cleaner of a ticker: Cleanup, then the end if nothing is left.      *)

TickCleaner(t) ==
  /\ cleaner[t].at = "sleep" /\ t \notin stopped
  /\ cleaner' = [cleaner EXCEPT ![t] =
                  [@ EXCEPT !.at = "range", !.todo = Keys]]
  /\ UNCHANGED <<cache, entry, items, ticker, made, stopped, dialer, lost>>

(* Nobody acquired it and its expiry has passed.                           *)
Expired(e) == entry[e].acq = 0 /\ entry[e].old

(* One key of the Range.                                                   *)
RangeKey(t, k) ==
  /\ cleaner[t].at = "range" /\ k \in cleaner[t].todo
  /\ LET e == cache[k] IN
     cleaner' = [cleaner EXCEPT ![t] =
                  [@ EXCEPT !.todo = cleaner[t].todo \ {k},
                            !.at = IF e # NoEntry /\ Expired(e) THEN "delete"
                                      ELSE "range",
                            !.doomed = IF e # NoEntry THEN e ELSE NoEntry]]
  /\ UNCHANGED <<cache, entry, items, ticker, made, stopped, dialer, lost>>

RangeEnds(t) ==
  /\ cleaner[t].at = "range" /\ cleaner[t].todo = {}
  /\ cleaner' = [cleaner EXCEPT ![t].at = "load"]
  /\ UNCHANGED <<cache, entry, items, ticker, made, stopped, dialer, lost>>

(* CompareAndDelete                                                        *)
DeleteEntry(t) ==
  LET hit == {k \in Keys : cache[k] = cleaner[t].doomed} IN
  /\ cleaner[t].at = "delete"
  /\ cache' = [k \in Keys |-> IF k \in hit THEN NoEntry ELSE cache[k]]
  /\ cleaner' = [cleaner EXCEPT ![t].at = IF hit = {} THEN "range"
                                          ELSE "uncount"]
  /\ UNCHANGED <<entry, items, ticker, made, stopped, dialer, lost>>

(* onDelete: the count, and Evict closes the client.                       *)
OnDelete(t) ==
  /\ cleaner[t].at = "uncount" /\ items' = items - 1
  /\ entry' = [entry EXCEPT ![cleaner[t].doomed].conn = "closed"]
  /\ cleaner' = [cleaner EXCEPT ![t].at = "range"]
  /\ UNCHANGED <<cache, ticker, made, stopped, dialer, lost>>

LoadCount(t) ==
  /\ cleaner[t].at = "load"
  /\ cleaner' = [cleaner EXCEPT ![t].at = IF items = 0 THEN "exit"
                                          ELSE "sleep"]
  /\ UNCHANGED <<cache, entry, items, ticker, made, stopped, dialer, lost>>

(* CompareAndSwap(ticker, nil) and return.                                 *)
CleanerExits(t) ==
  /\ cleaner[t].at = "exit"
  /\ ticker' = IF ticker = t THEN 0 ELSE ticker
  /\ cleaner' = [cleaner EXCEPT ![t] = NoCleaner]
  /\ stopped' = stopped \cup {t}
  /\ UNCHANGED <<cache, entry, items, made, dialer, lost>>

-----------------------------------------------------------------------------
ConnectShared(d) ==
  \/ GetEntry(d) \/ SetEntry(d) \/ CountInsert(d) \/ StartCleaner(d)
  \/ AcquireEntry(d)

Cleanup(t) ==
  \/ TickCleaner(t) \/ RangeEnds(t) \/ DeleteEntry(t) \/ OnDelete(t)
  \/ LoadCount(t) \/ CleanerExits(t)
  \/ \E k \in Keys : RangeKey(t, k)

CacheNext ==
  \/ \E d \in Dialers : \/ GrowOld(d) \/ ConnectShared(d) \/ CloseShared(d)
                        \/ DialNew(d) \/ DialNewFails(d)
  \/ \E d \in Dialers, k \in Keys : Connect(d, k)
  \/ \E t \in Tickers : Cleanup(t)

(* Tickers fire, goroutines run, and an entry nobody uses grows old.  A    *)
(* dial need not end, and a user need not close.                           *)
CacheFairness ==
  /\ \A d \in Dialers : WF_cacheVars(ConnectShared(d))
  /\ \A d \in Dialers : WF_cacheVars(GrowOld(d))
  /\ \A t \in Tickers : WF_cacheVars(Cleanup(t))

-----------------------------------------------------------------------------
Inserting == \E d \in Dialers : dialer[d].at \in {"count", "swap"}
Live(t) == cleaner[t].at \notin {"none", "exit"} /\ t \notin stopped

(* Cleaners end when they see an empty cache and are started by the insert *)
(* that makes one item: however the two cross, a cache with items has a    *)
(* cleaner whose ticker runs (onInsert).                                   *)
CleanerAlive ==
  items > 0 /\ ~Inserting => \E t \in Tickers : Live(t)

(* The count is that of the entries, but for inserts and deletes between   *)
(* their two steps (SetEntry and onInsert, CompareAndDelete and onDelete). *)
ItemsExact ==
  items + Cardinality({d \in Dialers : dialer[d].at = "count"})
        - Cardinality({t \in Tickers : cleaner[t].at = "uncount"})
    = Cardinality({k \in Keys : cache[k] # NoEntry})

(* A client that is open can be found: it is in the cache, or in the hands *)
(* of the one who dials it or evicts it; only the loser of a race for a    *)
(* key leaves an open connection behind (GetEntry without Singleflight).   *)
OpenIsCached ==
  \A e \in Dialers : entry[e].conn = "open" =>
    \/ e \in lost \/ dialer[e].at = "store"
    \/ \E k \in Keys : cache[k] = e
    \/ \E t \in Tickers : cleaner[t].at = "uncount" /\ cleaner[t].doomed = e

(* A client that one of its users closed while another one had it: only    *)
(* that Close releases the entry. *)
Stuck(e) ==
  /\ ~entry[e].ref /\ entry[e].acq > 0
  /\ Cardinality({d \in Dialers : dialer[d].ent = e}) > 1

(* An entry that nobody holds is evicted in the end, whatever cleaners     *)
(* came and went and whoever is still dialling, unless several users had   *)
(* it at the time it was closed: then it stays for ever                    *)
(* (sharedClient.Close, onInsert, Cleanup).                                *)
UnusedExpires ==
  []<>(\A k \in Keys :
         \/ cache[k] = NoEntry
         \/ Stuck(cache[k])
         \/ \E d \in Dialers : dialer[d].at = "hold" /\ dialer[d].ent = cache[k])

(* An open client is cached, a cache with entries has a cleaner and its    *)
(* count is right, however inserts and cleaners cross (GetEntry, onInsert, *)
(* Cleanup).                                                               *)
CacheCorrect == CacheTypeOK /\ CleanerAlive /\ ItemsExact /\ OpenIsCached
=============================================================================
