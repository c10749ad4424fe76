------------------------------ MODULE MgoServers ------------------------------
(***************************************************************************)
(* The servers a cluster knows (mongoServers in mgo/server.go): a slice    *)
(* kept sorted by address and searched by halves, the choice of the server *)
(* to use (BestFit), and the ping of one server, the greatest of its last  *)
(* delays.  A server is its resolved address, a number.                    *)
(***************************************************************************)
EXTENDS Integers, Sequences, FiniteSets, SequencesExt, FiniteSetsExt

CONSTANTS
  Addresses,   \* the servers, by address
  Near,        \* 15 milliseconds: pings that differ by no more are alike
  PingWindow,  \* len(server.pingWindow)
  Delays,      \* delays of a ping
  MaxPings     \* bound on pings

ASSUME ServersAssumption ==
  /\ Addresses \subseteq Nat \ {0}
  /\ Near \in Nat /\ PingWindow \in Nat \ {0} /\ Delays \subseteq Nat

VARIABLES
  slice,    \* servers.slice
  members,  \* what was added and not removed: slice has to be this set
  window, pingIndex, pingCount, pingValue, \* the fields of mongoServer
  delays    \* every delay so far

serversVars == <<slice, members, window, pingIndex, pingCount, pingValue, delays>>
pings == <<window, pingIndex, pingCount, pingValue, delays>>

ServersInit ==
  /\ slice = <<>> /\ members = {}
  /\ window = [i \in 0 .. PingWindow - 1 |-> 0]
  /\ pingIndex = 0 /\ pingCount = 0 /\ pingValue = 0
  /\ delays = <<>>

----------------------------------------------------------------------------
(* Search, Add, Remove                                                     *)

\* sort.Search: halve i .. j until the least index with a great enough address.
Search(list, addr) ==
  LET Halve[r \in (0 .. Len(list)) \X (0 .. Len(list))] ==
        LET i == r[1]
            j == r[2]
            h == (i + j) \div 2
        IN IF i >= j THEN i
           ELSE IF list[h + 1] >= addr THEN Halve[<<i, h>>] ELSE Halve[<<h + 1, j>>]
  IN Halve[<<0, Len(list)>>]

IsFound(list, addr) ==
  LET i == Search(list, addr) IN i # Len(list) /\ list[i + 1] = addr

\* sort.Sort: the elements in another order, each no less than the ones before.
Sorted(list) ==
  LET n == Len(list)
      order == CHOOSE order \in Bijection(1 .. n, 1 .. n) :
                 \A i, j \in 1 .. n : i < j => list[order[i]] <= list[order[j]]
  IN [i \in 1 .. n |-> list[order[i]]]

\* Mutant: Add does not sort.
AddUnsorted(s) ==
  /\ ~IsFound(slice, s)
  /\ slice' = Append(slice, s)
  /\ members' = members \cup {s}
  /\ UNCHANGED pings

\* The cluster adds a server it did not find; Add appends and sorts.
ServersAdd(s) ==
  /\ ~IsFound(slice, s)
  /\ slice' = Sorted(Append(slice, s))
  /\ members' = members \cup {s}
  /\ UNCHANGED pings

ServersRemove(s) ==
  /\ IsFound(slice, s)
  /\ slice' = RemoveAt(slice, Search(slice, s) + 1)
  /\ members' = members \ {s}
  /\ UNCHANGED pings

----------------------------------------------------------------------------
(* pinger: the delays of the last PingWindow pings, and their maximum.     *)

PingMax(w, count) == Max({0} \cup {w[i] : i \in {k \in DOMAIN w : k < count}})

Ping(d) ==
  /\ pingCount < MaxPings
  /\ window' = [window EXCEPT ![pingIndex] = d]
  /\ pingIndex' = (pingIndex + 1) % PingWindow
  /\ pingCount' = pingCount + 1
  /\ pingValue' = PingMax(window', pingCount')
  /\ delays' = Append(delays, d)
  /\ UNCHANGED <<slice, members>>

ServersNext ==
  \/ \E s \in Addresses : ServersAdd(s) \/ ServersRemove(s)
  \/ \E d \in Delays : Ping(d)

ServersSpec == ServersInit /\ [][ServersNext]_serversVars

----------------------------------------------------------------------------
(* BestFit, for servers described by info and tag sets that may be asked   *)
(* for (asked is {} for none asked, serverTags = nil).                     *)

\* hasTags: one of the tag sets asked for is among the server's tags.
HasTags(info, asked) ==
  \E tags \in asked : \A n \in DOMAIN tags :
    n \in DOMAIN info.tags /\ info.tags[n] = tags[n]

Eligible(info, asked) == asked = {} \/ info.mongos \/ HasTags(info, asked)

Apart(a, b) == IF a < b THEN b - a ELSE a - b

Swap(next, best, asked) ==
  /\ Eligible(next, asked)
  /\ \/ next.master # best.master /\ best.master
     \/ next.master = best.master /\
          \/ Apart(next.ping, best.ping) > Near /\ next.ping < best.ping
          \/ Apart(next.ping, best.ping) <= Near /\ next.used < best.used

NoServer == 0

BestFit(list, info, asked) ==
  FoldLeft(LAMBDA best, s :
             IF best = NoServer
               THEN IF Eligible(info[s], asked) THEN s ELSE NoServer
               ELSE IF Swap(info[s], info[best], asked) THEN s ELSE best,
           NoServer, list)

----------------------------------------------------------------------------
CONSTANTS Infos, TagSets   \* descriptions of a server, tag sets asked for

ASSUME InfosAssumption ==
  \A info \in Infos :
    info.master \in BOOLEAN /\ info.ping \in Nat /\ info.used \in Nat

\* What the callers of BestFit rely on: a server that fits whenever one does,
\* a slave rather than the master, and among servers equally near the one
\* with the least connections in use.
Fits(best, all, info, asked) ==
  LET fit == {s \in all : Eligible(info[s], asked)}
      peers == {s \in fit : info[s].master = info[best].master}
  IN IF fit = {} THEN best = NoServer
     ELSE /\ best \in fit
          /\ info[best].master => \A s \in fit : info[s].master
          /\ (\A a, b \in peers : Apart(info[a].ping, info[b].ping) <= Near)
               => \A s \in peers : info[best].used <= info[s].used

BestFitFits ==
  \A asked \in TagSets : \A info \in [members -> Infos] :
    Fits(BestFit(slice, info, asked), members, info, asked)

\* The slice is sorted and without doubles, so the search by halves finds
\* exactly the servers that were added and not removed.
SearchFinds ==
  /\ ToSet(slice) = members /\ Len(slice) = Cardinality(members)
  /\ \A i \in 1 .. Len(slice) - 1 : slice[i] < slice[i + 1]
  /\ \A s \in Addresses : IsFound(slice, s) <=> s \in members

\* The value of a server's ping is the greatest of its last PingWindow delays.
PingIsRecent ==
  LET n == Len(delays)
      recent == {delays[i] : i \in {k \in 1 .. n : k > n - PingWindow}}
  IN pingValue = Max({0} \cup recent)

ServersInv == SearchFinds /\ BestFitFits /\ PingIsRecent
=============================================================================
