------------------------------ MODULE DnsCache ------------------------------
(***************************************************************************)
(* fnet's resolution of names: the cache of the last name that has several *)
(* addresses, under dnsMutex, which is given up during the look-up, and    *)
(* the methods that pick one address of several.                           *)
(***************************************************************************)
EXTENDS Integers, Sequences

CONSTANTS
  Resolvers,  \* the goroutines that resolve: the clients
  Zone        \* the addresses of each name, in the order of the answer

(* An answer has an address, and each only once.                           *)
ASSUME ZoneAssumption ==
  \A h \in DOMAIN Zone :
    /\ Zone[h] # <<>> /\ Zone[h] \in Seq({Zone[h][i] : i \in DOMAIN Zone[h]})
    /\ \A i, j \in DOMAIN Zone[h] : Zone[h][i] = Zone[h][j] => i = j

VARIABLES
  method,  \* the value of the flag -dns-method
  dns,     \* the cache: dnsHost, dnsAddrs and dnsRoundRobin
  look,    \* where the resolution of each resolver is
  name,    \* the name each is to resolve
  loaded,  \* what each read of dnsRoundRobin, with method rr
  dest,    \* the address each was given last
  handed   \* how often each address was given

dnsVars == <<method, dns, look, name, loaded, dest, handed>>

Methods == {"cached-rr", "rr", "first", "rnd"}
Hosts == DOMAIN Zone
AddrsOf(h) == {Zone[h][i] : i \in DOMAIN Zone[h]}
Addrs == UNION {AddrsOf(h) : h \in Hosts}
NoHost == "none"
NoAddr == "none"

DnsInit ==
  /\ dns = [host |-> NoHost, addrs |-> <<>>, rr |-> 0]
  /\ look = [c \in Resolvers |-> "none"]
  /\ loaded = [c \in Resolvers |-> 0]
  /\ dest = [c \in Resolvers |-> NoAddr]
  /\ handed = [a \in Addrs |-> 0]

Gives(c, a) ==
  /\ look' = [look EXCEPT ![c] = "found"]
  /\ dest' = [dest EXCEPT ![c] = a]
  /\ handed' = [handed EXCEPT ![a] = @ + 1]
  /\ UNCHANGED <<method, name, loaded>>

Goes(c, to) ==
  /\ look' = [look EXCEPT ![c] = to]
  /\ UNCHANGED <<method, dns, name, loaded, dest, handed>>

Nth(addrs, n) == addrs[(n % Len(addrs)) + 1]

InCache(h) == dns.addrs # <<>> /\ dns.host = h

(* checkCache found it: gives the next address, under the mutex.           *)
FromCache(c) ==
  /\ InCache(name[c])
  /\ Gives(c, Nth(dns.addrs, dns.rr))
  /\ dns' = [dns EXCEPT !.rr = @ + 1]

(* The port is looked up first, which may fail.                            *)
StartResolve(c) ==
  /\ look[c] = "start"
  /\ \/ Goes(c, "failed")
     \/ IF method = "cached-rr" /\ InCache(name[c]) THEN FromCache(c) ELSE Goes(c, "asked")

(* ResolveAll, with no lock held: it may fail; one address is not cached.  *)
LookUp(c) ==
  /\ look[c] = "asked"
  /\ \/ Goes(c, "failed")
     \/ Len(Zone[name[c]]) > 1 /\ Goes(c, "answered")
     \/ /\ Len(Zone[name[c]]) = 1
        /\ Gives(c, Zone[name[c]][1])
        /\ UNCHANGED dns

Store(c) ==
  /\ Gives(c, Zone[name[c]][1])
  /\ dns' = [host |-> name[c], addrs |-> Zone[name[c]], rr |-> 1]

(* Mutant: whoever comes last stores again.                                *)
StoreUnchecked(c) ==
  /\ look[c] = "answered"
  /\ method = "cached-rr"
  /\ Store(c)

(* Others may have stored the addresses since: the cache is checked again. *)
StoreOrUse(c) ==
  /\ look[c] = "answered"
  /\ method = "cached-rr"
  /\ IF InCache(name[c]) THEN FromCache(c) ELSE Store(c)

Pick(c) ==
  /\ look[c] = "answered"
  /\ \E i \in DOMAIN Zone[name[c]] :
       /\ method = "first" => i = 1
       /\ Gives(c, Zone[name[c]][i])
  /\ method \in {"first", "rnd"}
  /\ UNCHANGED dns

(* Method rr reads the counter and adds one to it with no lock: between    *)
(* the two, others read the same number, and what they add is lost.        *)
RoundRobinReads(c) ==
  /\ look[c] = "answered"
  /\ method = "rr"
  /\ loaded' = [loaded EXCEPT ![c] = dns.rr]
  /\ look' = [look EXCEPT ![c] = "adding"]
  /\ UNCHANGED <<method, dns, name, dest, handed>>

RoundRobinAdds(c) ==
  /\ look[c] = "adding"
  /\ Gives(c, Nth(Zone[name[c]], loaded[c]))
  /\ dns' = [dns EXCEPT !.rr = loaded[c] + 1]

(* ResolveAll alone, by who only asks whether the name has an address.     *)
Checks(c) ==
  /\ look[c] = "checks"
  /\ Goes(c, "failed") \/ Goes(c, "known")

Resolve(c) ==
  \/ Checks(c)
  \/ StartResolve(c)
  \/ LookUp(c)
  \/ StoreOrUse(c)
  \/ Pick(c)
  \/ RoundRobinReads(c)
  \/ RoundRobinAdds(c)

-----------------------------------------------------------------------------
Looks == {"none", "checks", "known", "start", "asked", "answered", "adding", "found", "failed"}

DnsTypeOK ==
  /\ method \in Methods
  /\ DOMAIN dns = {"host", "addrs", "rr"} /\ dns.rr \in Nat
  /\ loaded \in [Resolvers -> Nat]
  /\ look \in [Resolvers -> Looks]
  /\ name \in [Resolvers -> Hosts]
  /\ dest \in [Resolvers -> Addrs \cup {NoAddr}]
  /\ handed \in [Addrs -> Nat]

(* A resolver is given an address of the name it asked for, though others  *)
(* replace the cache between its look-up and its use.                      *)
AddrOfName ==
  \A c \in Resolvers : look[c] = "found" => dest[c] \in AddrsOf(name[c])

(* With cached-rr and one name, no address is given twice more often than  *)
(* another, whichever goroutine fills the cache.                           *)
Balanced ==
  method = "cached-rr" /\ (\A c, d \in Resolvers : name[c] = name[d])
    => \A c \in Resolvers : \A a, b \in AddrsOf(name[c]) : handed[a] <= handed[b] + 1

(* What is in the cache is the answer for its name.                        *)
CacheTrue == dns.addrs # <<>> => dns.host \in Hosts /\ dns.addrs = Zone[dns.host]

(* When h is the only name, dnsRoundRobin counts all the addresses given:  *)
(* they were given in turn.                                                *)
InTurn(h) ==
  LET n == Len(Zone[h])
  IN /\ IF dns.addrs = <<>> THEN dns.rr = 0 ELSE dns.host = h
     /\ \A i \in 1 .. n : handed[Zone[h][i]] = (dns.rr \div n) + IF i <= dns.rr % n THEN 1 ELSE 0

OnlyName(h) == \A c \in Resolvers : name[c] = h

(* The inductive invariant of the resolutions.                             *)
DnsInv ==
  /\ DnsTypeOK
  /\ CacheTrue
  /\ AddrOfName
  /\ \A c \in Resolvers : look[c] = "adding" => method = "rr"
  /\ method = "cached-rr" => \A h \in Hosts : OnlyName(h) /\ Len(Zone[h]) > 1 => InTurn(h)
=============================================================================
