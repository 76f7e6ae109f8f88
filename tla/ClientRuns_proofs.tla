------------------------- MODULE ClientRuns_proofs -------------------------
(***************************************************************************)
(* Proofs about ClientRuns, for any clients, zones, answers and options:   *)
(* IInv is an inductive invariant, so a name is resolved to its addresses  *)
(* in turn, FastClient keeps no connection with an answer half read, takes *)
(* no code for its own that is another's, and has a reason for each        *)
(* socket, and what the clients of a run counted adds up to its result.    *)
(***************************************************************************)
EXTENDS ClientRuns, FiniteSetTheorems, SequenceTheorems, TLAPS

-----------------------------------------------------------------------------
(* Division: the turns of a counter.                                       *)

(* The quotient and the remainder of a division.                           *)
LEMMA DivMod ==
  ASSUME NEW n \in Nat \ {0}, NEW r \in Nat
  PROVE  r % n \in 0 .. n - 1 /\ r \div n \in Nat /\ r = n * (r \div n) + (r % n)
OBVIOUS

(* One quotient and one remainder.                                         *)
LEMMA UniqueDivision ==
  ASSUME NEW n \in Nat \ {0}, NEW q \in Nat, NEW p \in Nat, NEW a \in 0 .. n - 1, NEW b \in 0 .. n - 1,
         n * q + a = n * p + b
  PROVE  q = p /\ a = b
<1>1. CASE q < p
  <2>1. p - q \in Nat \ {0}
    BY <1>1
  <2>2. n * (p - q) = a - b
    OBVIOUS
  <2>3. n * (p - q) >= n
    BY <2>1
  <2>4. QED BY <2>2, <2>3
<1>2. CASE p < q
  <2>1. q - p \in Nat \ {0}
    BY <1>2
  <2>2. n * (q - p) = b - a
    OBVIOUS
  <2>3. n * (q - p) >= n
    BY <2>1
  <2>4. QED BY <2>2, <2>3
<1>3. QED BY <1>1, <1>2

(* Nothing divided is nothing.                                             *)
LEMMA ZeroDivided ==
  ASSUME NEW n \in Nat \ {0} PROVE 0 % n = 0 /\ 0 \div n = 0
<1> DEFINE q == 0 \div n  a == 0 % n
<1>1. a \in 0 .. n - 1 /\ q \in Nat /\ 0 = n * q + a
  BY DivMod
<1> HIDE DEF q, a
<1>2. n * 0 + 0 = n * q + a /\ 0 \in Nat /\ 0 \in 0 .. n - 1
  BY <1>1
<1>3. q = 0 /\ a = 0
  BY <1>1, <1>2, UniqueDivision
<1>4. QED BY <1>3 DEF q, a

(* A counter that is one further: its remainder goes up, or round with the *)
(* quotient.                                                               *)
LEMMA NextOne ==
  ASSUME NEW n \in Nat \ {0}, NEW r \in Nat
  PROVE  /\ r % n \in 0 .. n - 1 /\ r \div n \in Nat
         /\ r % n = n - 1 => (r + 1) % n = 0 /\ (r + 1) \div n = (r \div n) + 1
         /\ r % n # n - 1 => (r + 1) % n = (r % n) + 1 /\ (r + 1) \div n = r \div n
<1> DEFINE q == r \div n  a == r % n  p == (r + 1) \div n  b == (r + 1) % n
<1>1. a \in 0 .. n - 1 /\ q \in Nat /\ r = n * q + a
  BY DivMod
<1>2. b \in 0 .. n - 1 /\ p \in Nat /\ r + 1 = n * p + b
  <2>1. r + 1 \in Nat
    OBVIOUS
  <2>2. QED BY <2>1, DivMod
<1> HIDE DEF q, a, p, b
<1>3. a = n - 1 => n * (q + 1) + 0 = n * p + b
  BY <1>1, <1>2
<1>4. a # n - 1 => n * q + (a + 1) = n * p + b
  BY <1>1, <1>2
<1>5. a = n - 1 => q + 1 = p /\ 0 = b
  BY <1>1, <1>2, <1>3, UniqueDivision
<1>6. a # n - 1 => q = p /\ a + 1 = b
  <2> SUFFICES ASSUME a # n - 1 PROVE q = p /\ a + 1 = b
    OBVIOUS
  <2>1. a + 1 \in 0 .. n - 1
    BY <1>1
  <2>2. QED BY <2>1, <1>1, <1>2, <1>4, UniqueDivision
<1>7. QED BY <1>1, <1>5, <1>6 DEF q, a, p, b

-----------------------------------------------------------------------------
(* The resolutions.                                                        *)

(* The answer for a name has addresses of that name, each once.            *)
LEMMA ZoneFacts ==
  ASSUME NEW h \in Hosts
  PROVE  /\ Zone[h] \in Seq(AddrsOf(h)) /\ Len(Zone[h]) \in Nat \ {0} /\ DOMAIN Zone[h] = 1 .. Len(Zone[h])
         /\ AddrsOf(h) \subseteq Addrs
         /\ \A i, j \in 1 .. Len(Zone[h]) : Zone[h][i] = Zone[h][j] => i = j
         /\ \A i \in 1 .. Len(Zone[h]) : Zone[h][i] \in AddrsOf(h)
<1>1. Zone[h] \in Seq(AddrsOf(h)) /\ Zone[h] # <<>>
  BY ZoneAssumption DEF Hosts, AddrsOf
<1>2. PICK s \in Seq(AddrsOf(h)) : s = Zone[h]
  BY <1>1
<1>3. Len(s) \in Nat \ {0} /\ DOMAIN s = 1 .. Len(s)
  BY <1>1, <1>2
<1>4. \A i, j \in 1 .. Len(s) : s[i] = s[j] => i = j
  BY <1>2, <1>3, ZoneAssumption DEF Hosts
<1>5. \A i \in 1 .. Len(s) : s[i] \in AddrsOf(h)
  BY <1>2, <1>3 DEF AddrsOf
<1>6. AddrsOf(h) \subseteq Addrs
  BY DEF Addrs
<1>7. QED BY <1>2, <1>3, <1>4, <1>5, <1>6

(* Whoever goes on without an address disturbs nothing.                    *)
LEMMA GoesKeepsDns ==
  ASSUME DnsInv, NEW c \in Resolvers, NEW to \in Looks \ {"found", "adding"}, Goes(c, to)
  PROVE  DnsInv'
<1>1. /\ look' = [look EXCEPT ![c] = to]
      /\ UNCHANGED <<method, dns, name, loaded, dest, handed>>
  BY DEF Goes
<1>2. DnsTypeOK'
  BY <1>1 DEF DnsInv, DnsTypeOK
<1>3. CacheTrue'
  BY <1>1 DEF DnsInv, CacheTrue
<1>4. \A d \in Resolvers : look'[d] = look[d] \/ look'[d] = to
  BY <1>1 DEF DnsInv, DnsTypeOK
<1>5. AddrOfName'
  BY <1>1, <1>4 DEF DnsInv, AddrOfName
<1>6. \A d \in Resolvers : look'[d] = "adding" => method' = "rr"
  BY <1>1, <1>4 DEF DnsInv
<1>7. \A h \in Hosts : InTurn(h) => InTurn(h)'
  BY <1>1 DEF InTurn
<1>8. QED BY <1>1, <1>2, <1>3, <1>5, <1>6, <1>7 DEF DnsInv, OnlyName

(* Whoever does not resolve disturbs nothing.                              *)
LEMMA StutterKeepsDns ==
  ASSUME DnsInv, UNCHANGED dnsVars PROVE DnsInv'
BY DEF DnsInv, dnsVars, DnsTypeOK, CacheTrue, AddrOfName, InTurn, OnlyName

(* An address that is given is of the name, and what is counted is typed.  *)
LEMMA GivesTyped ==
  ASSUME DnsInv, NEW c \in Resolvers, NEW a \in AddrsOf(name[c]), Gives(c, a),
         DOMAIN dns' = {"host", "addrs", "rr"}, dns'.rr \in Nat
  PROVE  /\ DnsTypeOK' /\ AddrOfName'
         /\ method' = method /\ name' = name /\ handed' = [handed EXCEPT ![a] = handed[a] + 1] /\ a \in Addrs
         /\ \A d \in Resolvers : look'[d] = "adding" => method' = "rr"
<1>1. /\ look' = [look EXCEPT ![c] = "found"] /\ dest' = [dest EXCEPT ![c] = a]
      /\ handed' = [handed EXCEPT ![a] = handed[a] + 1] /\ UNCHANGED <<method, name, loaded>>
  BY DEF Gives
<1>2. name[c] \in Hosts /\ DnsTypeOK
  BY DEF DnsInv, DnsTypeOK
<1>3. a \in Addrs
  BY <1>2, ZoneFacts
<1>4. DnsTypeOK'
  BY <1>1, <1>2, <1>3 DEF DnsTypeOK, Looks
<1>5. AddrOfName'
  BY <1>1, <1>2 DEF DnsInv, AddrOfName, DnsTypeOK
<1>6. QED BY <1>1, <1>2, <1>3, <1>4, <1>5 DEF DnsInv, DnsTypeOK

(* The next address in turn.                                               *)
LEMMA NextTurn ==
  ASSUME handed \in [Addrs -> Nat], NEW h \in Hosts, NEW n \in Nat \ {0}, n = Len(Zone[h]), NEW r \in Nat,
         \A i \in 1 .. n : handed[Zone[h][i]] = (r \div n) + IF i <= r % n THEN 1 ELSE 0,
         NEW a, a = Zone[h][(r % n) + 1], handed' = [handed EXCEPT ![a] = handed[a] + 1]
  PROVE  \A i \in 1 .. n : handed'[Zone[h][i]] = ((r + 1) \div n) + IF i <= (r + 1) % n THEN 1 ELSE 0
<1> SUFFICES ASSUME NEW i \in 1 .. n
             PROVE  handed'[Zone[h][i]] = ((r + 1) \div n) + IF i <= (r + 1) % n THEN 1 ELSE 0
  OBVIOUS
<1> DEFINE q == r \div n  p == r % n  q2 == (r + 1) \div n  p2 == (r + 1) % n
<1>1. /\ p = n - 1 => p2 = 0 /\ q2 = q + 1
      /\ p # n - 1 => p2 = p + 1 /\ q2 = q
      /\ p \in 0 .. n - 1
  BY NextOne
<1>2. q \in Nat
  BY NextOne
<1>3. handed[Zone[h][i]] = q + IF i <= p THEN 1 ELSE 0
  OBVIOUS
<1>4. a = Zone[h][p + 1]
  OBVIOUS
<1> HIDE DEF q, p, q2, p2
<1>5. p + 1 \in 1 .. n
  BY <1>1
<1>6. Zone[h][i] \in Addrs /\ (Zone[h][i] = a <=> i = p + 1)
  BY <1>4, <1>5, ZoneFacts
<1>7. handed'[Zone[h][i]] = IF i = p + 1 THEN q + 1 ELSE q + IF i <= p THEN 1 ELSE 0
  <2>1. i = p + 1 => handed[a] = q
    BY <1>1, <1>2, <1>3, <1>6
  <2>2. QED BY <2>1, <1>3, <1>6
<1>8. handed'[Zone[h][i]] = q2 + IF i <= p2 THEN 1 ELSE 0
  BY <1>1, <1>2, <1>7
<1>9. QED BY <1>8 DEF q2, p2

(* The next address from the cache keeps the turns.                        *)
LEMMA FromCacheKeepsDns ==
  ASSUME DnsInv, NEW c \in Resolvers, FromCache(c) PROVE DnsInv'
<1> DEFINE h == name[c]
<1>1. PICK r \in Nat : r = dns.rr
  BY DEF DnsInv, DnsTypeOK
<1>2. /\ h \in Hosts /\ dns.host = h /\ dns.addrs = Zone[h] /\ dns.addrs # <<>>
      /\ DOMAIN dns = {"host", "addrs", "rr"}
  BY DEF FromCache, InCache, DnsInv, DnsTypeOK, CacheTrue
<1>3. PICK n \in Nat \ {0} : n = Len(Zone[h])
  BY <1>2, ZoneFacts
<1>4. (r % n) + 1 \in 1 .. n
  <2>1. r % n \in 0 .. n - 1
    BY NextOne
  <2>2. QED BY <2>1
<1>5. PICK a \in AddrsOf(h) : a = Zone[h][(r % n) + 1]
  BY <1>2, <1>3, <1>4, ZoneFacts
<1>6. Gives(c, a) /\ dns' = [dns EXCEPT !.rr = r + 1]
  BY <1>1, <1>2, <1>3, <1>5 DEF FromCache, Nth
<1>7. dns'.rr = r + 1 /\ dns'.host = h /\ dns'.addrs = Zone[h] /\ DOMAIN dns' = {"host", "addrs", "rr"}
  BY <1>2, <1>6
<1>8. r + 1 \in Nat /\ dns'.rr \in Nat
  BY <1>7
<1>9. /\ DnsTypeOK' /\ AddrOfName'
      /\ method' = method /\ name' = name /\ handed' = [handed EXCEPT ![a] = handed[a] + 1]
      /\ \A d \in Resolvers : look'[d] = "adding" => method' = "rr"
  BY <1>6, <1>7, <1>8, GivesTyped
<1>10. CacheTrue'
  BY <1>2, <1>7 DEF CacheTrue
<1>11. ASSUME NEW g \in Hosts, method' = "cached-rr", OnlyName(g)', Len(Zone[g]) > 1 PROVE InTurn(g)'
  <2>1. g = h /\ InTurn(h) /\ handed \in [Addrs -> Nat]
    BY <1>9, <1>11 DEF OnlyName, DnsInv, DnsTypeOK
  <2>2. \A i \in 1 .. n : handed[Zone[h][i]] = (r \div n) + IF i <= r % n THEN 1 ELSE 0
    BY <2>1, <1>1, <1>2, <1>3 DEF InTurn
  <2>3. \A i \in 1 .. n : handed'[Zone[h][i]] = ((r + 1) \div n) + IF i <= (r + 1) % n THEN 1 ELSE 0
    BY <2>1, <2>2, <1>2, <1>3, <1>5, <1>9, NextTurn, ZenonT(60)
  <2>4. QED BY <2>1, <2>3, <1>2, <1>3, <1>7 DEF InTurn
<1>12. QED BY <1>9, <1>10, <1>11 DEF DnsInv

(* The first address, by who found no answer for the name in the cache.    *)
LEMMA StoreKeepsDns ==
  ASSUME DnsInv, NEW c \in Resolvers, Store(c), ~InCache(name[c]) PROVE DnsInv'
<1> DEFINE h == name[c]
<1>1. h \in Hosts
  BY DEF DnsInv, DnsTypeOK
<1>2. PICK n \in Nat \ {0} : n = Len(Zone[h])
  BY <1>1, ZoneFacts
<1>3. PICK a \in AddrsOf(h) : a = Zone[h][1]
  BY <1>1, <1>2, ZoneFacts
<1>4. Gives(c, a) /\ dns' = [host |-> h, addrs |-> Zone[h], rr |-> 1]
  BY <1>3 DEF Store
<1>5. dns'.rr = 1 /\ dns'.host = h /\ dns'.addrs = Zone[h] /\ DOMAIN dns' = {"host", "addrs", "rr"}
  BY <1>4
<1>6. /\ DnsTypeOK' /\ AddrOfName'
      /\ method' = method /\ name' = name /\ handed' = [handed EXCEPT ![a] = handed[a] + 1]
      /\ \A d \in Resolvers : look'[d] = "adding" => method' = "rr"
  BY <1>4, <1>5, GivesTyped
<1>7. CacheTrue'
  BY <1>1, <1>5 DEF CacheTrue
<1>8. ASSUME NEW g \in Hosts, method' = "cached-rr", OnlyName(g)', Len(Zone[g]) > 1 PROVE InTurn(g)'
  <2>1. g = h /\ InTurn(h) /\ handed \in [Addrs -> Nat]
    BY <1>6, <1>8 DEF OnlyName, DnsInv, DnsTypeOK
  <2>2. dns.addrs = <<>> /\ dns.rr = 0
    BY <2>1 DEF InTurn, InCache
  <2>3. PICK r \in Nat : r = 0
    OBVIOUS
  <2>4. \A i \in 1 .. n : handed[Zone[h][i]] = (r \div n) + IF i <= r % n THEN 1 ELSE 0
    BY <2>1, <2>2, <2>3, <1>2 DEF InTurn
  <2>5. a = Zone[h][(r % n) + 1]
    BY <2>3, <1>3, ZeroDivided
  <2>6. \A i \in 1 .. n : handed'[Zone[h][i]] = ((r + 1) \div n) + IF i <= (r + 1) % n THEN 1 ELSE 0
    <3>1. handed' = [handed EXCEPT ![a] = handed[a] + 1] /\ handed \in [Addrs -> Nat]
      BY <2>1, <1>6
    <3>2. h \in Hosts /\ n = Len(Zone[h])
      BY <1>1, <1>2
    <3> HIDE DEF h
    <3>3. QED BY <3>1, <3>2, <2>4, <2>5, NextTurn, ZenonT(60)
  <2>7. dns'.addrs # <<>>
    BY <1>1, <1>2, <1>5
  <2>8. r + 1 = 1
    BY <2>3
  <2>9. QED BY <2>1, <2>6, <2>7, <2>8, <1>2, <1>5 DEF InTurn
<1>9. QED BY <1>6, <1>7, <1>8 DEF DnsInv

(* A look-up that found one address, or a method that counts no turns.     *)
LEMMA GivesKeepsDns ==
  ASSUME DnsInv, NEW c \in Resolvers, NEW a \in AddrsOf(name[c]), Gives(c, a),
         dns' = dns \/ \E x \in Nat : dns' = [dns EXCEPT !.rr = x],
         method # "cached-rr" \/ Len(Zone[name[c]]) = 1
  PROVE  DnsInv'
<1>1. /\ DOMAIN dns' = {"host", "addrs", "rr"} /\ dns'.rr \in Nat
      /\ dns'.host = dns.host /\ dns'.addrs = dns.addrs
  BY DEF DnsInv, DnsTypeOK
<1>2. /\ DnsTypeOK' /\ AddrOfName' /\ method' = method /\ name' = name
      /\ \A d \in Resolvers : look'[d] = "adding" => method' = "rr"
  BY <1>1, GivesTyped
<1>3. CacheTrue'
  BY <1>1 DEF DnsInv, CacheTrue
<1>4. method' = "cached-rr" => \A h \in Hosts : OnlyName(h)' => ~(Len(Zone[h]) > 1)
  <2> SUFFICES ASSUME method' = "cached-rr", NEW h \in Hosts, OnlyName(h)' PROVE ~(Len(Zone[h]) > 1)
    OBVIOUS
  <2>1. h = name[c] /\ method = "cached-rr"
    BY <1>2 DEF OnlyName
  <2>2. Len(Zone[h]) = 1
    BY <2>1
  <2>3. QED BY <2>2
<1>5. QED BY <1>2, <1>3, <1>4 DEF DnsInv

(* No step of a resolution disturbs what is known of them.                 *)
LEMMA ResolveKeepsDns ==
  ASSUME DnsInv, NEW c \in Resolvers, Resolve(c) PROVE DnsInv'
<1>1. name[c] \in Hosts /\ method \in Methods /\ look[c] \in Looks /\ loaded[c] \in Nat
  BY DEF DnsInv, DnsTypeOK
<1>2. PICK n \in Nat \ {0} : n = Len(Zone[name[c]])
  BY <1>1, ZoneFacts
<1>3. \A i \in 1 .. n : Zone[name[c]][i] \in AddrsOf(name[c])
  BY <1>1, <1>2, ZoneFacts
<1>4. CASE Checks(c)
  <2>1. Goes(c, "failed") \/ Goes(c, "known")
    BY <1>4 DEF Checks
  <2>2. QED BY <2>1, GoesKeepsDns DEF Looks
<1>5. CASE StartResolve(c)
  <2>1. Goes(c, "failed") \/ Goes(c, "asked") \/ FromCache(c)
    BY <1>5 DEF StartResolve
  <2>2. QED BY <2>1, GoesKeepsDns, FromCacheKeepsDns DEF Looks
<1>6. CASE LookUp(c)
  <2>1. Goes(c, "failed") \/ Goes(c, "answered") \/ (n = 1 /\ Gives(c, Zone[name[c]][1]) /\ dns' = dns)
    BY <1>2, <1>6 DEF LookUp
  <2>2. CASE n = 1 /\ Gives(c, Zone[name[c]][1]) /\ dns' = dns
    <3>1. Zone[name[c]][1] \in AddrsOf(name[c])
      BY <1>3
    <3>2. QED BY <2>2, <3>1, <1>2, GivesKeepsDns
  <2>3. QED BY <2>1, <2>2, GoesKeepsDns DEF Looks
<1>7. CASE StoreOrUse(c)
  BY <1>7, FromCacheKeepsDns, StoreKeepsDns DEF StoreOrUse
<1>8. CASE Pick(c)
  <2>1. PICK i \in 1 .. n : Gives(c, Zone[name[c]][i])
    BY <1>1, <1>2, <1>8, ZoneFacts DEF Pick
  <2>2. method # "cached-rr" /\ dns' = dns
    BY <1>8 DEF Pick
  <2>3. QED BY <2>1, <2>2, <1>3, GivesKeepsDns
<1>9. CASE RoundRobinReads(c)
  <2>1. /\ method = "rr" /\ loaded' = [loaded EXCEPT ![c] = dns.rr] /\ look' = [look EXCEPT ![c] = "adding"]
        /\ UNCHANGED <<method, dns, name, dest, handed>>
    BY <1>9 DEF RoundRobinReads
  <2>2. DnsTypeOK'
    BY <2>1 DEF DnsInv, DnsTypeOK, Looks
  <2>3. CacheTrue'
    BY <2>1 DEF DnsInv, CacheTrue
  <2>4. AddrOfName'
    BY <2>1 DEF DnsInv, AddrOfName, DnsTypeOK
  <2>5. QED BY <2>1, <2>2, <2>3, <2>4 DEF DnsInv
<1>10. CASE RoundRobinAdds(c)
  <2>1. PICK x \in Nat : x = loaded[c]
    BY <1>1
  <2>2. (x % n) + 1 \in 1 .. n
    <3>1. x % n \in 0 .. n - 1
      BY NextOne
    <3>2. QED BY <3>1
  <2>3. Gives(c, Zone[name[c]][(x % n) + 1]) /\ dns' = [dns EXCEPT !.rr = x + 1] /\ look[c] = "adding"
    BY <2>1, <1>2, <1>10 DEF RoundRobinAdds, Nth
  <2>4. method # "cached-rr" /\ x + 1 \in Nat
    BY <2>3 DEF DnsInv
  <2>5. QED BY <2>2, <2>3, <2>4, <1>3, GivesKeepsDns
<1>11. QED BY <1>4, <1>5, <1>6, <1>7, <1>8, <1>9, <1>10 DEF Resolve

(* What is known of the resolutions is what they promise.                  *)
LEMMA DnsInvNames == DnsInv => NamesResolved
<1> SUFFICES ASSUME DnsInv PROVE NamesResolved
  OBVIOUS
<1>1. AddrOfName
  BY DEF DnsInv
<1>2. ASSUME method = "cached-rr", \A c, d \in Resolvers : name[c] = name[d],
             NEW c \in Resolvers, NEW a \in AddrsOf(name[c]), NEW b \in AddrsOf(name[c])
      PROVE  handed[a] <= handed[b] + 1
  <2>1. PICK h \in Hosts : h = name[c]
    BY DEF DnsInv, DnsTypeOK
  <2>2. PICK n \in Nat \ {0} : n = Len(Zone[h]) /\ DOMAIN Zone[h] = 1 .. n
    BY ZoneFacts
  <2>3. PICK i \in 1 .. n : a = Zone[h][i]
    BY <2>1, <2>2 DEF AddrsOf
  <2>4. PICK j \in 1 .. n : b = Zone[h][j]
    BY <2>1, <2>2 DEF AddrsOf
  <2>5. a \in Addrs /\ handed[a] \in Nat
    BY <2>1, ZoneFacts DEF DnsInv, DnsTypeOK
  <2>6. CASE n = 1
    <3>1. a = b
      BY <2>3, <2>4, <2>6
    <3>2. QED BY <3>1, <2>5
  <2>7. CASE n # 1
    <3>1. InTurn(h)
      <4>1. n > 1
        BY <2>7
      <4>2. OnlyName(h)
        BY <1>2, <2>1 DEF OnlyName
      <4>3. QED BY <4>1, <4>2, <2>2, <1>2 DEF DnsInv
    <3>2. PICK q \in Nat : q = dns.rr \div n
      BY NextOne DEF DnsInv, DnsTypeOK
    <3>3. /\ handed[a] = q + IF i <= dns.rr % n THEN 1 ELSE 0
          /\ handed[b] = q + IF j <= dns.rr % n THEN 1 ELSE 0
      BY <3>1, <3>2, <2>2, <2>3, <2>4 DEF InTurn
    <3>4. handed[a] \in {q, q + 1} /\ handed[b] \in {q, q + 1}
      BY <3>3
    <3>5. QED BY <3>4
  <2>8. QED BY <2>6, <2>7
<1>3. QED BY <1>1, <1>2 DEF NamesResolved, Balanced

-----------------------------------------------------------------------------
(* The answers, piece by piece.                                            *)

NotFirst(t) == t[1] # "proto"
NoneFirst(s) == \A i \in 1 .. Len(s) : NotFirst(s[i])

(* Where the elements of two sequences are in the one they make.           *)
LEMMA Joined ==
  ASSUME NEW S, NEW s \in Seq(S), NEW t \in Seq(S)
  PROVE  /\ s \o t \in Seq(S) /\ Len(s \o t) = Len(s) + Len(t)
         /\ \A i \in 1 .. Len(s) : (s \o t)[i] = s[i]
         /\ \A i \in 1 .. Len(t) : (s \o t)[Len(s) + i] = t[i]
         /\ NoneFirst(s) /\ NoneFirst(t) => NoneFirst(s \o t)
<1>1. Len(s) \in Nat /\ Len(t) \in Nat
  OBVIOUS
<1>2. /\ s \o t \in Seq(S) /\ Len(s \o t) = Len(s) + Len(t)
      /\ \A i \in 1 .. Len(s) + Len(t) : (s \o t)[i] = IF i <= Len(s) THEN s[i] ELSE t[i - Len(s)]
  BY ConcatProperties
<1>3. \A i \in 1 .. Len(s) : (s \o t)[i] = s[i]
  BY <1>1, <1>2
<1>4. \A i \in 1 .. Len(t) : (s \o t)[Len(s) + i] = t[i]
  <2> SUFFICES ASSUME NEW i \in 1 .. Len(t) PROVE (s \o t)[Len(s) + i] = t[i]
    OBVIOUS
  <2>1. Len(s) + i \in 1 .. Len(s) + Len(t) /\ ~(Len(s) + i <= Len(s)) /\ (Len(s) + i) - Len(s) = i
    BY <1>1
  <2>2. QED BY <2>1, <1>2
<1>5. ASSUME NoneFirst(s), NoneFirst(t), NEW i \in 1 .. Len(s \o t) PROVE NotFirst((s \o t)[i])
  <2>1. CASE i <= Len(s)
    BY <2>1, <1>1, <1>2, <1>3, <1>5 DEF NoneFirst
  <2>2. CASE ~(i <= Len(s))
    <3>1. i - Len(s) \in 1 .. Len(t) /\ (s \o t)[i] = t[i - Len(s)]
      BY <2>2, <1>1, <1>2
    <3>2. QED BY <3>1, <1>5 DEF NoneFirst
  <2>3. QED BY <2>1, <2>2
<1>6. QED BY <1>2, <1>3, <1>4, <1>5 DEF NoneFirst

(* Data are tokens.                                                        *)
LEMMA DataShape ==
  ASSUME NEW n \in Nat
  PROVE  Data(n) \in Seq(Tokens) /\ Len(Data(n)) = n /\ NoneFirst(Data(n))
<1>1. Token("data") \in Tokens /\ NotFirst(Token("data"))
  BY DEF Token, Tokens, NotFirst
<1>2. Data(n) \in Seq(Tokens) /\ Len(Data(n)) = n
  BY <1>1 DEF Data
<1>3. \A i \in 1 .. n : Data(n)[i] = Token("data")
  BY DEF Data
<1>4. QED BY <1>1, <1>2, <1>3 DEF NoneFirst

(* A chunk is a size, as many data, and the end of a line.                 *)
LEMMA ChunkShape ==
  ASSUME NEW n \in Nat
  PROVE  /\ Chunk(n) \in Seq(Tokens) /\ Len(Chunk(n)) = n + 2 /\ NoneFirst(Chunk(n))
         /\ Chunk(n)[1] = <<"size", n>>
<1> DEFINE s == <<<<"size", n>>>>  t == <<Token("crlf")>>
<1>1. <<"size", n>> \in Tokens /\ Token("crlf") \in Tokens
  BY DEF Tokens, Token
<1>2. /\ s \in Seq(Tokens) /\ t \in Seq(Tokens) /\ Len(s) = 1 /\ Len(t) = 1 /\ s[1] = <<"size", n>>
      /\ t[1] = Token("crlf")
  BY <1>1
<1>3. NoneFirst(s) /\ NoneFirst(t)
  BY <1>2 DEF NoneFirst, NotFirst, Token
<1> HIDE DEF s, t
<1>4. PICK u : u = s \o Data(n)
  OBVIOUS
<1>5. u \in Seq(Tokens) /\ Len(u) = n + 1 /\ NoneFirst(u) /\ u[1] = <<"size", n>>
  <2>1. /\ u \in Seq(Tokens) /\ Len(u) = 1 + n /\ NoneFirst(u)
        /\ \A i \in 1 .. 1 : u[i] = s[i]
    BY <1>2, <1>3, <1>4, DataShape, Joined
  <2>2. QED BY <2>1, <1>2
<1>6. Chunk(n) = u \o t
  BY <1>4 DEF Chunk, s, t
<1>7. /\ Chunk(n) \in Seq(Tokens) /\ Len(Chunk(n)) = Len(u) + Len(t) /\ NoneFirst(Chunk(n))
      /\ \A i \in 1 .. Len(u) : Chunk(n)[i] = u[i]
  <2>1. u \in Seq(Tokens) /\ NoneFirst(u) /\ t \in Seq(Tokens) /\ NoneFirst(t)
    BY <1>2, <1>3, <1>5
  <2>2. QED BY <2>1, <1>6, Joined
<1>8. Chunk(n)[1] = u[1] /\ Len(Chunk(n)) = n + 2
  BY <1>2, <1>5, <1>7
<1>9. QED BY <1>5, <1>7, <1>8

(* The parts of an answer.                                                 *)
LEMMA AnswerFacts ==
  ASSUME NEW sort \in DOMAIN Answers, NEW a \in Answers[sort]
  PROVE  /\ a.code \in Nat /\ a.framing \in Framings /\ a.close \in BOOLEAN
         /\ a.parts[1] \in Nat /\ Len(a.parts) \in {1, 2} /\ DOMAIN a.parts = 1 .. Len(a.parts)
         /\ Len(a.parts) = 2 => a.parts[2] \in Nat
         /\ a.framing = "chunked" => a.parts[1] > 0 /\ (Len(a.parts) = 2 => a.parts[2] > 0)
<1>1. PICK p \in Seq(Nat) : p = a.parts
  BY AnswersAssumption
<1>2. Len(p) \in {1, 2} /\ DOMAIN p = 1 .. Len(p)
  BY <1>1, AnswersAssumption
<1>3. p[1] \in Nat /\ (Len(p) = 2 => p[2] \in Nat)
  BY <1>2
<1>4. a.framing = "chunked" => p[1] > 0 /\ (Len(p) = 2 => p[2] > 0)
  BY <1>1, <1>2, AnswersAssumption
<1>5. QED BY <1>1, <1>2, <1>3, <1>4, AnswersAssumption

(* A body of chunks, with what follows the end of each.                    *)
LEMMA BodyShape ==
  ASSUME NEW sort \in DOMAIN Answers, NEW a \in Answers[sort]
  PROVE  /\ Body(a) \in Seq(Tokens) /\ NoneFirst(Body(a))
         /\ a.framing # "chunked" => Len(Body(a)) = a.parts[1]
         /\ a.framing = "chunked" /\ Len(a.parts) = 1 =>
              /\ Len(Body(a)) = a.parts[1] + 4
              /\ Body(a)[1] = <<"size", a.parts[1]>> /\ Body(a)[a.parts[1] + 3] = <<"size", 0>>
         /\ a.framing = "chunked" /\ Len(a.parts) = 2 =>
              /\ Len(Body(a)) = a.parts[1] + a.parts[2] + 6
              /\ Body(a)[1] = <<"size", a.parts[1]>> /\ Body(a)[a.parts[1] + 3] = <<"size", a.parts[2]>>
              /\ Body(a)[a.parts[1] + a.parts[2] + 5] = <<"size", 0>>
<1>1. PICK p1 \in Nat : p1 = a.parts[1]
  BY AnswerFacts
<1>2. CASE a.framing # "chunked"
  BY <1>1, <1>2, DataShape DEF Body
<1>3. PICK u : u = Chunk(p1)
  OBVIOUS
<1>4. PICK z : z = Chunk(0)
  OBVIOUS
<1>5. u \in Seq(Tokens) /\ Len(u) = p1 + 2 /\ u[1] = <<"size", p1>> /\ NoneFirst(u)
  BY <1>3, ChunkShape
<1>6. z \in Seq(Tokens) /\ Len(z) = 2 /\ z[1] = <<"size", 0>> /\ NoneFirst(z)
  <2>1. PICK n \in Nat : n = 0
    OBVIOUS
  <2>2. z \in Seq(Tokens) /\ Len(z) = n + 2 /\ z[1] = <<"size", n>> /\ NoneFirst(z)
    BY <2>1, <1>4, ChunkShape
  <2>3. QED BY <2>1, <2>2
<1>7. CASE a.framing = "chunked" /\ Len(a.parts) = 1
  <2>1. Body(a) = u \o z
    <3>1. Body(a) = (u \o <<>>) \o z
      BY <1>1, <1>3, <1>4, <1>7 DEF Body
    <3>2. QED BY <3>1, <1>5, ConcatEmptySeq
  <2>2. /\ u \o z \in Seq(Tokens) /\ Len(u \o z) = Len(u) + Len(z) /\ NoneFirst(u \o z)
        /\ \A i \in 1 .. Len(u) : (u \o z)[i] = u[i]
        /\ \A i \in 1 .. Len(z) : (u \o z)[Len(u) + i] = z[i]
    <3>1. u \in Seq(Tokens) /\ NoneFirst(u) /\ z \in Seq(Tokens) /\ NoneFirst(z)
      BY <1>5, <1>6
    <3>2. QED BY <3>1, Joined
  <2>3. (u \o z)[1] = u[1]
    BY <2>2, <1>5
  <2>4. (u \o z)[p1 + 3] = z[1]
    <3>1. (p1 + 2) + 1 = p1 + 3 /\ 1 \in 1 .. 2
      OBVIOUS
    <3>2. QED BY <3>1, <2>2, <1>5, <1>6
  <2>5. Len(u \o z) = p1 + 4
    BY <2>2, <1>5, <1>6
  <2>6. /\ Body(a)[1] = <<"size", p1>> /\ Body(a)[p1 + 3] = <<"size", 0>> /\ Len(Body(a)) = p1 + 4
        /\ Body(a) \in Seq(Tokens) /\ NoneFirst(Body(a))
    BY <2>1, <2>2, <2>3, <2>4, <2>5, <1>5, <1>6
  <2>7. QED BY <2>6, <1>1, <1>7
<1>8. CASE a.framing = "chunked" /\ Len(a.parts) = 2
  <2>1. PICK p2 \in Nat : p2 = a.parts[2]
    BY <1>8, AnswerFacts
  <2>2. PICK v : v = Chunk(p2)
    OBVIOUS
  <2>3. v \in Seq(Tokens) /\ Len(v) = p2 + 2 /\ v[1] = <<"size", p2>> /\ NoneFirst(v)
    BY <2>2, ChunkShape
  <2>4. PICK w : w = u \o v
    OBVIOUS
  <2>5. /\ w \in Seq(Tokens) /\ Len(w) = Len(u) + Len(v) /\ NoneFirst(w)
        /\ \A i \in 1 .. Len(u) : w[i] = u[i]
        /\ \A i \in 1 .. Len(v) : w[Len(u) + i] = v[i]
    <3>1. u \in Seq(Tokens) /\ NoneFirst(u) /\ v \in Seq(Tokens) /\ NoneFirst(v)
      BY <2>3, <1>5
    <3>2. QED BY <3>1, <2>4, Joined
  <2>6. Len(w) = p1 + p2 + 4 /\ w[1] = u[1] /\ w[p1 + 3] = v[1]
    <3>1. (p1 + 2) + (p2 + 2) = p1 + p2 + 4 /\ (p1 + 2) + 1 = p1 + 3 /\ 1 \in 1 .. p1 + 2 /\ 1 \in 1 .. p2 + 2
      OBVIOUS
    <3>2. QED BY <3>1, <2>3, <2>5, <1>5
  <2>7. Body(a) = w \o z
    BY <2>1, <2>2, <2>4, <1>1, <1>3, <1>4, <1>8 DEF Body
  <2>8. /\ w \o z \in Seq(Tokens) /\ Len(w \o z) = Len(w) + Len(z) /\ NoneFirst(w \o z)
        /\ \A i \in 1 .. Len(w) : (w \o z)[i] = w[i]
        /\ \A i \in 1 .. Len(z) : (w \o z)[Len(w) + i] = z[i]
    <3>1. w \in Seq(Tokens) /\ NoneFirst(w) /\ z \in Seq(Tokens) /\ NoneFirst(z)
      BY <2>5, <1>6
    <3>2. QED BY <3>1, Joined
  <2>9. (w \o z)[1] = w[1] /\ (w \o z)[p1 + 3] = w[p1 + 3]
    <3>1. 1 \in 1 .. p1 + p2 + 4 /\ p1 + 3 \in 1 .. p1 + p2 + 4
      OBVIOUS
    <3>2. QED BY <3>1, <2>6, <2>8
  <2>10. (w \o z)[p1 + p2 + 5] = z[1] /\ Len(w \o z) = p1 + p2 + 6
    <3>1. (p1 + p2 + 4) + 1 = p1 + p2 + 5 /\ (p1 + p2 + 4) + 2 = p1 + p2 + 6 /\ 1 \in 1 .. 2
      OBVIOUS
    <3>2. QED BY <3>1, <2>6, <2>8, <1>6
  <2>11. w \o z \in Seq(Tokens) /\ NoneFirst(w \o z)
    BY <2>8
  <2>12. /\ Body(a)[1] = <<"size", p1>> /\ Body(a)[p1 + 3] = <<"size", p2>>
         /\ Body(a)[p1 + p2 + 5] = <<"size", 0>> /\ Len(Body(a)) = p1 + p2 + 6
         /\ Body(a) \in Seq(Tokens) /\ NoneFirst(Body(a))
    BY <2>3, <2>6, <2>7, <2>9, <2>10, <2>11, <1>5, <1>6
  <2>13. a.parts[1] = p1 /\ a.parts[2] = p2 /\ a.framing = "chunked" /\ Len(a.parts) # 1
    BY <2>1, <1>1, <1>8
  <2>14. QED BY <2>12, <2>13
<1>9. QED BY <1>2, <1>7, <1>8, AnswerFacts

(* An answer begins with its code and its headers, and only there.         *)
LEMMA BytesShape ==
  ASSUME NEW sort \in DOMAIN Answers, NEW a \in Answers[sort]
  PROVE  /\ Bytes(a) \in Seq(Tokens) /\ Len(Bytes(a)) = 4 + Len(Body(a)) /\ Len(Body(a)) \in Nat
         /\ Bytes(a)[1] = <<"proto", 0>> /\ Bytes(a)[2] = <<"code", a.code>> /\ Bytes(a)[3] = <<"head", a>>
         /\ \A i \in 2 .. Len(Bytes(a)) : NotFirst(Bytes(a)[i])
         /\ \A i \in 1 .. Len(Body(a)) : Bytes(a)[4 + i] = Body(a)[i]
<1> DEFINE h == <<Token("proto"), <<"code", a.code>>, <<"head", a>>, Token("tail")>>
<1>1. /\ Token("proto") \in Tokens /\ <<"code", a.code>> \in Tokens /\ <<"head", a>> \in Tokens
      /\ Token("tail") \in Tokens
  <2>1. a.code \in Nat /\ a \in UNION {Answers[x] : x \in DOMAIN Answers}
    BY AnswerFacts
  <2>2. QED BY <2>1 DEF Tokens, Token
<1>2. h \in Seq(Tokens) /\ Len(h) = 4
  BY <1>1
<1>3. h[1] = <<"proto", 0>> /\ h[2] = <<"code", a.code>> /\ h[3] = <<"head", a>> /\ h[4] = <<"tail", 0>>
  BY DEF Token
<1>4. NotFirst(h[2]) /\ NotFirst(h[3]) /\ NotFirst(h[4])
  BY <1>3 DEF NotFirst
<1>5. Bytes(a) = h \o Body(a)
  BY DEF Bytes
<1> HIDE DEF h
<1>6. Body(a) \in Seq(Tokens) /\ NoneFirst(Body(a))
  BY BodyShape
<1>7. /\ Bytes(a) \in Seq(Tokens) /\ Len(Bytes(a)) = Len(h) + Len(Body(a))
      /\ \A i \in 1 .. Len(h) : Bytes(a)[i] = h[i]
      /\ \A i \in 1 .. Len(Body(a)) : Bytes(a)[Len(h) + i] = Body(a)[i]
  <2>1. h \in Seq(Tokens) /\ Body(a) \in Seq(Tokens)
    BY <1>2, <1>6
  <2>2. QED BY <2>1, <1>5, Joined
<1>8. PICK n \in Nat : n = Len(Body(a))
  BY <1>6
<1>9. ASSUME NEW i \in 2 .. Len(Bytes(a)) PROVE NotFirst(Bytes(a)[i])
  <2>1. i \in 2 .. 4 + n /\ Len(h) = 4
    BY <1>2, <1>7, <1>8
  <2>2. CASE i \in {2, 3, 4}
    <3>1. i \in 1 .. Len(h)
      BY <2>1, <2>2
    <3>2. Bytes(a)[i] = h[i]
      BY <3>1, <1>7
    <3>3. QED BY <3>2, <2>2, <1>4
  <2>3. CASE i \notin {2, 3, 4}
    <3>1. i - 4 \in 1 .. n /\ 4 + (i - 4) = i
      BY <2>1, <2>3
    <3>2. Bytes(a)[i] = Body(a)[i - 4]
      BY <3>1, <2>1, <1>7, <1>8
    <3>3. QED BY <3>1, <3>2, <1>6, <1>8 DEF NoneFirst
  <2>4. QED BY <2>2, <2>3
<1>10. Bytes(a)[1] = h[1] /\ Bytes(a)[2] = h[2] /\ Bytes(a)[3] = h[3]
  <2>1. Len(h) = 4 /\ 1 \in 1 .. 4 /\ 2 \in 1 .. 4 /\ 3 \in 1 .. 4
    BY <1>2
  <2>2. QED BY <2>1, <1>7
<1>11. Len(Bytes(a)) = 4 + Len(Body(a)) /\ Len(Body(a)) \in Nat
  BY <1>2, <1>7, <1>8
<1>12. \A i \in 1 .. Len(Body(a)) : Bytes(a)[4 + i] = Body(a)[i]
  BY <1>2, <1>7
<1>13. QED BY <1>3, <1>7, <1>9, <1>10, <1>11, <1>12

(* Where a chunk ends another begins, and after the last the answer ends.  *)
LEMMA NextChunk ==
  ASSUME NEW sort \in DOMAIN Answers, NEW a \in Answers[sort], a.framing = "chunked", NEW b \in ChunkEnds(a)
  PROVE  /\ b \in Nat /\ b + 2 <= Len(Bytes(a))
         /\ \E x \in Nat : /\ Bytes(a)[b + 1] = <<"size", x>>
                           /\ x = 0 => Len(Bytes(a)) = b + 2
                           /\ x > 0 => b + 1 + x + 1 \in ChunkEnds(a)
<1>1. PICK p1 \in Nat : p1 = a.parts[1] /\ p1 > 0
  BY AnswerFacts
<1>2. PICK n \in Nat : n = Len(Body(a)) /\ Len(Bytes(a)) = 4 + n
  BY BytesShape
<1>3. \A i \in 1 .. n : Bytes(a)[4 + i] = Body(a)[i]
  BY <1>2, BytesShape
<1>4. CASE Len(a.parts) = 1
  <2>1. b \in {4, 6 + p1}
    <3>1. DOMAIN a.parts = 1 .. 1
      BY <1>4, AnswerFacts
    <3>2. {2} \cap DOMAIN a.parts = {}
      BY <3>1
    <3>3. b \in {4, 4 + p1 + 2}
      BY <3>2, <1>1 DEF ChunkEnds, HeaderLen
    <3>4. QED BY <3>3
  <2>2. n = p1 + 4 /\ Body(a)[1] = <<"size", p1>> /\ Body(a)[p1 + 3] = <<"size", 0>>
    BY <1>1, <1>2, <1>4, BodyShape
  <2>3. CASE b = 4
    <3>1. Bytes(a)[4 + 1] = <<"size", p1>>
      BY <2>2, <1>3
    <3>2. 4 + 1 + p1 + 1 = 4 + p1 + 2
      OBVIOUS
    <3>3. 4 + p1 + 2 \in ChunkEnds(a)
      BY <1>1 DEF ChunkEnds, HeaderLen
    <3>4. b \in Nat /\ b + 2 <= Len(Bytes(a)) /\ Bytes(a)[b + 1] = <<"size", p1>>
      BY <3>1, <2>2, <2>3, <1>2
    <3>5. (p1 = 0 => Len(Bytes(a)) = b + 2) /\ (p1 > 0 => b + 1 + p1 + 1 \in ChunkEnds(a))
      BY <3>2, <3>3, <2>3, <1>1
    <3>6. QED BY <3>4, <3>5
  <2>4. CASE b = 6 + p1
    <3>1. Bytes(a)[4 + (p1 + 3)] = <<"size", 0>>
      BY <2>2, <1>3
    <3>2. b + 1 = 4 + (p1 + 3) /\ b + 2 = 4 + n /\ b \in Nat
      BY <2>2, <2>4
    <3>3. b + 2 <= Len(Bytes(a)) /\ Bytes(a)[b + 1] = <<"size", 0>>
      BY <3>1, <3>2, <1>2
    <3>4. (0 = 0 => Len(Bytes(a)) = b + 2) /\ (0 > 0 => b + 1 + 0 + 1 \in ChunkEnds(a))
      BY <3>2, <1>2
    <3>5. QED BY <3>2, <3>3, <3>4
  <2>5. QED BY <2>1, <2>3, <2>4
<1>5. CASE Len(a.parts) = 2
  <2>0. PICK p2 \in Nat : p2 = a.parts[2] /\ p2 > 0
    BY <1>5, AnswerFacts
  <2>1. b \in {4, 6 + p1, 8 + p1 + p2} /\ 4 + p1 + 2 \in ChunkEnds(a) /\ 4 + p1 + p2 + 4 \in ChunkEnds(a)
    <3>1. DOMAIN a.parts = 1 .. 2
      BY <1>5, AnswerFacts
    <3>2. {2} \cap DOMAIN a.parts = {2}
      BY <3>1
    <3>3. ChunkEnds(a) = {4, 4 + p1 + 2, 4 + p1 + p2 + 4}
      BY <3>2, <2>0, <1>1 DEF ChunkEnds, HeaderLen
    <3>4. QED BY <3>3
  <2>2. /\ n = p1 + p2 + 6 /\ Body(a)[1] = <<"size", p1>>
        /\ Body(a)[p1 + 3] = <<"size", p2>> /\ Body(a)[p1 + p2 + 5] = <<"size", 0>>
    BY <2>0, <1>1, <1>2, <1>5, BodyShape
  <2>3. CASE b = 4
    <3>1. Bytes(a)[4 + 1] = <<"size", p1>>
      BY <2>2, <1>3
    <3>2. b + 1 = 4 + 1 /\ b + 1 + p1 + 1 = 4 + p1 + 2 /\ b + 2 <= 4 + n /\ b \in Nat
      BY <2>2, <2>3
    <3>3. b \in Nat /\ b + 2 <= Len(Bytes(a)) /\ Bytes(a)[b + 1] = <<"size", p1>>
      BY <3>1, <3>2, <1>2
    <3>4. (p1 = 0 => Len(Bytes(a)) = b + 2) /\ (p1 > 0 => b + 1 + p1 + 1 \in ChunkEnds(a))
      BY <3>2, <2>1, <1>1
    <3>5. QED BY <3>3, <3>4
  <2>4. CASE b = 6 + p1
    <3>1. Bytes(a)[4 + (p1 + 3)] = <<"size", p2>>
      BY <2>2, <1>3
    <3>2. b + 1 = 4 + (p1 + 3) /\ b + 1 + p2 + 1 = 4 + p1 + p2 + 4 /\ b + 2 <= 4 + n /\ b \in Nat
      BY <2>2, <2>4
    <3>3. b \in Nat /\ b + 2 <= Len(Bytes(a)) /\ Bytes(a)[b + 1] = <<"size", p2>>
      BY <3>1, <3>2, <1>2
    <3>4. (p2 = 0 => Len(Bytes(a)) = b + 2) /\ (p2 > 0 => b + 1 + p2 + 1 \in ChunkEnds(a))
      BY <3>2, <2>1, <2>0
    <3>5. QED BY <3>3, <3>4
  <2>5. CASE b = 8 + p1 + p2
    <3>1. Bytes(a)[4 + (p1 + p2 + 5)] = <<"size", 0>>
      BY <2>2, <1>3
    <3>2. b + 1 = 4 + (p1 + p2 + 5) /\ b + 2 = 4 + n /\ b \in Nat
      BY <2>2, <2>5
    <3>3. b + 2 <= Len(Bytes(a)) /\ Bytes(a)[b + 1] = <<"size", 0>>
      BY <3>1, <3>2, <1>2
    <3>4. (0 = 0 => Len(Bytes(a)) = b + 2) /\ (0 > 0 => b + 1 + 0 + 1 \in ChunkEnds(a))
      BY <3>2, <1>2
    <3>5. QED BY <3>2, <3>3, <3>4
  <2>6. QED BY <2>1, <2>3, <2>4, <2>5
<1>6. QED BY <1>4, <1>5, AnswerFacts

-----------------------------------------------------------------------------
(* A client, by the parts of the state that are its own.                   *)

(* The options are of their types, and workers are clients.                *)
LEMMA ConfFacts ==
  ASSUME conf \in Confs
  PROVE  /\ conf.kind \in {"fast", "std", "tcp", "udp", "kafka", "grpc"} /\ conf.server \in DOMAIN Answers
         /\ conf.reuseRange \subseteq Nat /\ Workers \subseteq Clients /\ conf.names \in [Clients -> Hosts]
         /\ conf.http10 \in BOOLEAN /\ conf.keepAlive \in BOOLEAN /\ conf.checkClose \in BOOLEAN
         /\ conf.reResolve \in BOOLEAN /\ conf.generate \in BOOLEAN /\ conf.wide \in BOOLEAN
         /\ conf.collect \in BOOLEAN
         /\ conf.method \in Methods
BY RunsAssumption DEF Workers

(* What is known of a client rests on the options, which do not change.    *)
LEMMA SameConf ==
  ASSUME NEW n, NEW m, NEW f, NEW e, NEW k, conf' = conf, ClientRight(n, m, f, e, k)
  PROVE  ClientRight(n, m, f, e, k)'
<1>1. Stream' = Stream /\ IsEcho' = IsEcho /\ PlainKept' = PlainKept /\ Request(e)' = Request(e)
  BY DEF Stream, IsEcho, PlainKept, Request, Message
<1>2. ClientTyped(n, m, f, e, k)'
  BY <1>1 DEF ClientRight, ClientTyped, NetRecords, FastRecords, EchoRecords, MadeRecords
<1>3. Placed(n, m)' /\ TriesRight(m)' /\ Explained(m, k)'
  BY <1>1 DEF ClientRight, Placed, TriesRight, Explained
<1>4. IsEcho' => EchoRight(m, e)'
  BY <1>1 DEF ClientRight, EchoRight
<1>5. conf'.kind = "std" => StdRight(m)'
  BY DEF ClientRight, StdRight
<1>6. conf'.kind = "fast" => FastRight(n, m, f)'
  BY <1>1 DEF ClientRight, FastRight, CountsRight, Reading, ReadsAnswer, CodeOwn
<1>7. QED BY <1>2, <1>3, <1>4, <1>5, <1>6 DEF ClientRight

Moves(v, w, c, x) == DOMAIN w = Clients /\ \A d \in Clients : w[d] = IF d = c THEN x ELSE v[d]

(* A step of one client keeps what is known of all when it does so for it. *)
LEMMA OneMoves ==
  ASSUME ClientsInv, NEW c \in Clients, conf' = conf, NEW n, NEW m, NEW f, NEW e, NEW k,
         Moves(net, net', c, n), Moves(cl, cl', c, m), Moves(fast, fast', c, f),
         Moves(echo, echo', c, e), Moves(made, made', c, k), ClientRight(n, m, f, e, k)
  PROVE  ClientsInv'
<1>1. \A v \in {net', cl', fast', echo', made'} : DOMAIN v = Clients
  BY DEF Moves
<1>2. ASSUME NEW d \in Clients PROVE ClientRight(net[d], cl[d], fast[d], echo[d], made[d])'
  <2>1. PICK n1, m1, f1, e1, k1 : n1 = net'[d] /\ m1 = cl'[d] /\ f1 = fast'[d] /\ e1 = echo'[d] /\ k1 = made'[d]
    OBVIOUS
  <2>2. ClientRight(n1, m1, f1, e1, k1)
    BY <2>1 DEF Moves, ClientsInv
  <2>3. ClientRight(n1, m1, f1, e1, k1)'
    BY <2>2, SameConf
  <2>4. QED BY <2>1, <2>3
<1>3. QED BY <1>1, <1>2 DEF ClientsInv

(* What is known of a client, said of its own parts of the state.          *)
LEMMA PartsOf ==
  ASSUME ClientsInv, NEW c \in Clients
  PROVE  \E n \in NetRecords, m \in ClientRecords, f \in FastRecords, e \in EchoRecords, k \in MadeRecords :
           /\ n = net[c] /\ m = cl[c] /\ f = fast[c] /\ e = echo[c] /\ k = made[c]
           /\ ClientRight(n, m, f, e, k)
BY DEF ClientsInv, ClientRight, ClientTyped

(* A variable that stays moves no client.                                  *)
LEMMA Unmoved ==
  ASSUME ClientsInv, NEW c \in Clients
  PROVE  /\ net' = net => Moves(net, net', c, net[c])
         /\ cl' = cl => Moves(cl, cl', c, cl[c])
         /\ fast' = fast => Moves(fast, fast', c, fast[c])
         /\ echo' = echo => Moves(echo, echo', c, echo[c])
         /\ made' = made => Moves(made, made', c, made[c])
BY DEF ClientsInv, Moves

(* The beginning of a call takes the socket from the client.               *)
LEMMA StreamFetchRight ==
  ASSUME ClientsInv, NEW c \in Clients, StreamFetch(c), UNCHANGED <<conf, echo, made>> PROVE ClientsInv'
<1>1. PICK n \in NetRecords, m \in ClientRecords, f \in FastRecords, e \in EchoRecords, k \in MadeRecords :
        /\ n = net[c] /\ m = cl[c] /\ f = fast[c] /\ e = echo[c] /\ k = made[c]
        /\ ClientRight(n, m, f, e, k)
  BY PartsOf
<1>2. PICK x \in conf.reuseRange :
        /\ ~Reached(f) => x = f.connReuse
        /\ fast' = [fast EXCEPT ![c].connReuse = x, ![c].buf = <<>>,
                                ![c].reuseCount = IF cl[c].socket THEN @ + 1 ELSE 1]
  BY <1>1 DEF StreamFetch
<1>3. PICK f2 :
           f2 = [f EXCEPT !.connReuse = x, !.buf = <<>>, !.reuseCount = IF m.socket THEN f.reuseCount + 1 ELSE 1]
  OBVIOUS
<1>4. PICK m2 : m2 = [m EXCEPT !.pc = IF m.socket THEN "write" ELSE "connect", !.reused = m.socket,
                               !.socket = FALSE, !.code = SocketError]
  OBVIOUS
<1>5. conf.kind = "fast" /\ m.pc \in {"called", "again"} /\ net' = net /\ echo' = echo /\ made' = made
  BY <1>1 DEF StreamFetch, At
<1>15. Moves(cl, cl', c, m2)
  BY <1>1, <1>4 DEF StreamFetch, Moves, ClientsInv
<1>16. Moves(fast, fast', c, f2)
  BY <1>1, <1>2, <1>3 DEF Moves, ClientsInv
<1>6. /\ m2 \in ClientRecords /\ m2.pc = (IF m.socket THEN "write" ELSE "connect") /\ m2.reused = m.socket
      /\ m2.socket = FALSE /\ m2.code = SocketError
      /\ m2.sockets = m.sockets /\ m2.connects = m.connects /\ m2.lookups = m.lookups
      /\ m2.unresolved = m.unresolved /\ m2.retries = m.retries /\ m2.tries = m.tries
  BY <1>4 DEF ClientRecords, Pcs, Codes
<1>17. f.reuseCount + 1 \in Nat /\ <<>> \in Seq(Tokens) /\ m.socket \in BOOLEAN
  BY DEF FastRecords, ClientRecords
<1>7. /\ f2 \in FastRecords /\ f2.connReuse = x /\ f2.buf = <<>> /\ f2.warned = f.warned /\ f2.rest = f.rest
      /\ f2.reuseCount = IF m.socket THEN f.reuseCount + 1 ELSE 1
  BY <1>3, <1>17 DEF FastRecords
<1>8. ClientTyped(n, m2, f2, e, k)
  BY <1>1, <1>6, <1>7, BufferAssumption DEF ClientRight, ClientTyped
<1>9. Placed(n, m2) /\ TriesRight(m2)
  BY <1>1, <1>5, <1>6 DEF ClientRight, Placed, TriesRight, ClientRecords
<1>10. Explained(m2, k)
  BY <1>1, <1>5, <1>6 DEF ClientRight, Explained
<1>11. CountsRight(m2, f2)
  <2>1. CountsRight(m, f) /\ Placed(n, m)
    BY <1>1, <1>5 DEF ClientRight, FastRight
  <2>2. x \in Nat /\ f.reuseCount \in Nat /\ f.connReuse \in Nat
    BY ConfFacts DEF FastRecords, ClientsInv
  <2>3. f2.connReuse # 0 => f2.reuseCount <= f2.connReuse
    BY <2>1, <2>2, <1>2, <1>7 DEF CountsRight, Reached
  <2>4. QED BY <2>1, <2>3, <1>5, <1>6 DEF CountsRight, ClientRecords
<1>12. FastRight(n, m2, f2)
  BY <1>1, <1>5, <1>6, <1>7, <1>11 DEF ClientRight, FastRight, Leftover
<1>13. ClientRight(n, m2, f2, e, k)
  BY <1>5, <1>8, <1>9, <1>10, <1>12 DEF ClientRight, IsEcho
<1>14. QED
  <2>1. Moves(net, net', c, n) /\ Moves(echo, echo', c, e) /\ Moves(made, made', c, k)
    BY <1>1, <1>5, Unmoved
  <2>2. QED BY <2>1, <1>13, <1>15, <1>16, OneMoves

(* The counts of a client are numbers, and stay so when they go up.        *)
LEMMA ClientNumbers ==
  ASSUME NEW m \in ClientRecords
  PROVE  /\ m.sockets + 1 \in Nat /\ m.connects + 1 \in Nat /\ m.lookups + 1 \in Nat /\ m.unresolved + 1 \in Nat
         /\ m.retries + 1 \in Nat /\ m.sockets \in Nat /\ m.connects \in Nat /\ m.lookups \in Nat
         /\ m.unresolved \in Nat /\ m.retries \in Nat /\ m.tries \in 0 .. 2 /\ m.served \in Nat
         /\ m.socket \in BOOLEAN /\ m.reused \in BOOLEAN /\ m.whole \in BOOLEAN /\ m.code \in Codes
BY DEF ClientRecords

(* The code of an error is no good code, 200 is.                           *)
LEMMA ErrorIsNotOK == ~CodeIsOK(SocketError) /\ ~CodeIsOK(-1) /\ CodeIsOK(200) /\ SocketError \in Codes
BY DEF CodeIsOK, SocketError, Codes

(* A connection that was just made, and none.                              *)
LEMMA NoConnTyped ==
  /\ NoConn \in NetRecords /\ [NoConn EXCEPT !.up = TRUE] \in NetRecords
  /\ NoConn.up = FALSE /\ NoConn.bytes = <<>> /\ NoConn.end = "open"
  /\ [NoConn EXCEPT !.up = TRUE].up = TRUE /\ [NoConn EXCEPT !.up = TRUE].bytes = <<>>
  /\ [NoConn EXCEPT !.up = TRUE].end = "open"
<1>1. <<>> \in Stream
  BY DEF Stream
<1>2. QED BY <1>1 DEF NoConn, NetRecords, Ends

(* A new socket is counted, and its name resolved again if so asked.       *)
LEMMA ConnectRight ==
  ASSUME ClientsInv, NEW c \in Clients, Connect(c), UNCHANGED <<conf, echo, made>> PROVE ClientsInv'
<1>1. PICK n \in NetRecords, m \in ClientRecords, f \in FastRecords, e \in EchoRecords, k \in MadeRecords :
        /\ n = net[c] /\ m = cl[c] /\ f = fast[c] /\ e = echo[c] /\ k = made[c]
        /\ ClientRight(n, m, f, e, k)
  BY PartsOf
<1>2. /\ conf.kind = "fast" /\ m.pc = "connect" 
      /\ conf' = conf /\ net' = net /\ fast' = fast /\ echo' = echo /\ made' = made
  BY <1>1 DEF Connect, At, ClientRecords
<1>3. PICK m2 :
           m2 = [m EXCEPT !.pc = IF m.sockets > 0 /\ conf.reResolve THEN "resolve" ELSE "dial", !.sockets = m.sockets + 1]
  OBVIOUS
<1>4. /\ m2 \in ClientRecords /\ m2.pc = (IF m.sockets > 0 /\ conf.reResolve THEN "resolve" ELSE "dial")
      /\ m2.sockets = (m.sockets + 1) /\ m2.socket = m.socket /\ m2.reused = m.reused /\ m2.code = m.code
      /\ m2.connects = m.connects /\ m2.lookups = m.lookups /\ m2.unresolved = m.unresolved
      /\ m2.retries = m.retries
      /\ m2.tries = m.tries /\ m2.served = m.served /\ m2.whole = m.whole
  BY <1>3, ClientNumbers DEF ClientRecords, Pcs, Codes
<1>5. Moves(cl, cl', c, m2)
  BY <1>1, <1>3 DEF Moves, ClientsInv, Connect
<1>6. ClientTyped(n, m2, f, e, k)
  BY <1>1, <1>4 DEF ClientRight, ClientTyped
<1>7. Placed(n, m2) /\ TriesRight(m2)
  BY <1>1, <1>2, <1>4 DEF ClientRight, Placed, TriesRight, ClientRecords
<1>8. Explained(m2, k)
  BY <1>1, <1>2, <1>4, ErrorIsNotOK DEF ClientRight, Explained, ClientRecords, MadeRecords
<1>9. CountsRight(m2, f)
  BY <1>1, <1>2, <1>4 DEF ClientRight, FastRight, CountsRight, ClientRecords, Reached
<1>10. FastRight(n, m2, f)
  BY <1>1, <1>2, <1>9, <1>4 DEF ClientRight, FastRight, Leftover
<1>11. ClientRight(n, m2, f, e, k)
  BY <1>2, <1>6, <1>7, <1>8, <1>10 DEF ClientRight, IsEcho
<1>12. QED
  <2>1. /\ Moves(net, net', c, n) /\ Moves(fast, fast', c, f) /\ Moves(echo, echo', c, e)
        /\ Moves(made, made', c, k)
    BY <1>1, <1>2, Unmoved
  <2>2. QED BY <2>1, <1>2, <1>11, <1>5, OneMoves

(* The resolution gave an address: the client dials.                       *)
LEMMA ResolvedWell ==
  ASSUME ClientsInv, NEW c \in Clients, At(c, "resolve"),
         cl' = [cl EXCEPT ![c].pc = "dial", ![c].lookups = @ + 1], UNCHANGED <<conf, net, fast, echo, made>>
  PROVE  ClientsInv'
<1>1. PICK n \in NetRecords, m \in ClientRecords, f \in FastRecords, e \in EchoRecords, k \in MadeRecords :
        /\ n = net[c] /\ m = cl[c] /\ f = fast[c] /\ e = echo[c] /\ k = made[c]
        /\ ClientRight(n, m, f, e, k)
  BY PartsOf
<1>2. /\ conf.kind = "fast" /\ m.pc = "resolve" /\ m.code = SocketError
      /\ conf' = conf /\ net' = net /\ fast' = fast /\ echo' = echo /\ made' = made
  BY <1>1 DEF At, ClientRight, Placed
<1>3. PICK m2 : m2 = [m EXCEPT !.pc = "dial", !.lookups = m.lookups + 1]
  OBVIOUS
<1>4. /\ m2 \in ClientRecords /\ m2.pc = "dial" /\ m2.lookups = (m.lookups + 1) /\ m2.socket = m.socket
      /\ m2.reused = m.reused /\ m2.code = m.code /\ m2.sockets = m.sockets /\ m2.connects = m.connects
      /\ m2.unresolved = m.unresolved /\ m2.retries = m.retries /\ m2.tries = m.tries /\ m2.served = m.served
      /\ m2.whole = m.whole
  BY <1>3, ClientNumbers DEF ClientRecords, Pcs, Codes
<1>5. Moves(cl, cl', c, m2)
  BY <1>1, <1>3 DEF Moves, ClientsInv
<1>6. ClientTyped(n, m2, f, e, k)
  BY <1>1, <1>4 DEF ClientRight, ClientTyped
<1>7. Placed(n, m2) /\ TriesRight(m2)
  BY <1>1, <1>2, <1>4 DEF ClientRight, Placed, TriesRight, ClientRecords
<1>8. Explained(m2, k)
  BY <1>1, <1>2, <1>4, ErrorIsNotOK DEF ClientRight, Explained, ClientRecords, MadeRecords
<1>9. CountsRight(m2, f)
  BY <1>1, <1>2, <1>4 DEF ClientRight, FastRight, CountsRight, ClientRecords, Reached
<1>10. FastRight(n, m2, f)
  BY <1>1, <1>2, <1>9, <1>4 DEF ClientRight, FastRight, Leftover
<1>11. ClientRight(n, m2, f, e, k)
  BY <1>2, <1>6, <1>7, <1>8, <1>10 DEF ClientRight, IsEcho
<1>12. QED
  <2>1. /\ Moves(net, net', c, n) /\ Moves(fast, fast', c, f) /\ Moves(echo, echo', c, e)
        /\ Moves(made, made', c, k)
    BY <1>1, <1>2, Unmoved
  <2>2. QED BY <2>1, <1>2, <1>11, <1>5, OneMoves

(* It failed: the call is over, with no connection.                        *)
LEMMA ResolvedBadly ==
  ASSUME ClientsInv, NEW c \in Clients, At(c, "resolve"),
         cl' = [cl EXCEPT ![c].pc = "done", ![c].lookups = @ + 1, ![c].unresolved = @ + 1],
         UNCHANGED <<conf, net, fast, echo, made>>
  PROVE  ClientsInv'
<1>1. PICK n \in NetRecords, m \in ClientRecords, f \in FastRecords, e \in EchoRecords, k \in MadeRecords :
        /\ n = net[c] /\ m = cl[c] /\ f = fast[c] /\ e = echo[c] /\ k = made[c]
        /\ ClientRight(n, m, f, e, k)
  BY PartsOf
<1>2. /\ conf.kind = "fast" /\ m.pc = "resolve" /\ m.code = SocketError
      /\ conf' = conf /\ net' = net /\ fast' = fast /\ echo' = echo /\ made' = made
  BY <1>1 DEF At, ClientRight, Placed
<1>3. PICK m2 : m2 = [m EXCEPT !.pc = "done", !.lookups = m.lookups + 1, !.unresolved = m.unresolved + 1]
  OBVIOUS
<1>4. /\ m2 \in ClientRecords /\ m2.pc = "done" /\ m2.lookups = (m.lookups + 1)
      /\ m2.unresolved = (m.unresolved + 1)
      /\ m2.socket = m.socket /\ m2.reused = m.reused /\ m2.code = m.code /\ m2.sockets = m.sockets
      /\ m2.connects = m.connects /\ m2.retries = m.retries /\ m2.tries = m.tries /\ m2.served = m.served
      /\ m2.whole = m.whole
  BY <1>3, ClientNumbers DEF ClientRecords, Pcs, Codes
<1>5. Moves(cl, cl', c, m2)
  BY <1>1, <1>3 DEF Moves, ClientsInv
<1>6. ClientTyped(n, m2, f, e, k)
  BY <1>1, <1>4 DEF ClientRight, ClientTyped
<1>7. Placed(n, m2) /\ TriesRight(m2)
  BY <1>1, <1>2, <1>4 DEF ClientRight, Placed, TriesRight, ClientRecords
<1>8. Explained(m2, k)
  BY <1>1, <1>2, <1>4, ErrorIsNotOK DEF ClientRight, Explained, ClientRecords, MadeRecords
<1>9. CountsRight(m2, f)
  BY <1>1, <1>2, <1>4, SMTT(60) DEF ClientRight, FastRight, CountsRight, ClientRecords, Reached
<1>10. FastRight(n, m2, f)
  BY <1>1, <1>2, <1>9, <1>4 DEF ClientRight, FastRight, Leftover
<1>11. ClientRight(n, m2, f, e, k)
  BY <1>2, <1>6, <1>7, <1>8, <1>10 DEF ClientRight, IsEcho
<1>12. QED
  <2>1. /\ Moves(net, net', c, n) /\ Moves(fast, fast', c, f) /\ Moves(echo, echo', c, e)
        /\ Moves(made, made', c, k)
    BY <1>1, <1>2, Unmoved
  <2>2. QED BY <2>1, <1>2, <1>11, <1>5, OneMoves

(* A new connection has nothing to read.                                   *)
LEMMA DialRight ==
  ASSUME ClientsInv, NEW c \in Clients, Dial(c), UNCHANGED <<conf, echo, made>> PROVE ClientsInv'
<1>1. PICK n \in NetRecords, m \in ClientRecords, f \in FastRecords, e \in EchoRecords, k \in MadeRecords :
        /\ n = net[c] /\ m = cl[c] /\ f = fast[c] /\ e = echo[c] /\ k = made[c]
        /\ ClientRight(n, m, f, e, k)
  BY PartsOf
<1>2. /\ conf.kind = "fast" /\ m.pc = "dial"
      /\ conf' = conf /\ echo' = echo /\ made' = made
  BY <1>1 DEF Dial, At
<1>3. PICK n2 : n2 = [NoConn EXCEPT !.up = TRUE]
  OBVIOUS
<1>4. /\ n2 \in NetRecords /\ n2.up = TRUE /\ n2.bytes = <<>> /\ n2.end = "open"
  BY <1>3, NoConnTyped
<1>5. Moves(net, net', c, n2)
  BY <1>1, <1>3 DEF Moves, ClientsInv, Dial, Dialed
<1>6. PICK m2 : m2 = [m EXCEPT !.pc = "write", !.connects = m.connects + 1]
  OBVIOUS
<1>7. /\ m2 \in ClientRecords /\ m2.pc = "write" /\ m2.connects = (m.connects + 1) /\ m2.socket = m.socket
      /\ m2.reused = m.reused /\ m2.code = m.code /\ m2.sockets = m.sockets /\ m2.lookups = m.lookups
      /\ m2.unresolved = m.unresolved /\ m2.retries = m.retries /\ m2.tries = m.tries /\ m2.served = m.served
      /\ m2.whole = m.whole
  BY <1>6, ClientNumbers DEF ClientRecords, Pcs, Codes
<1>8. Moves(cl, cl', c, m2)
  BY <1>1, <1>6 DEF Moves, ClientsInv, Dial, Dialed
<1>9. PICK f2 : f2 = [f EXCEPT !.warned = FALSE, !.rest = FALSE]
  OBVIOUS
<1>10. /\ f2 \in FastRecords /\ f2.warned = FALSE /\ f2.buf = f.buf /\ f2.maxV = f.maxV /\ f2.parsed = f.parsed
       /\ f2.keep = f.keep /\ f2.chunked = f.chunked /\ f2.missed = f.missed /\ f2.reuseCount = f.reuseCount
       /\ f2.connReuse = f.connReuse /\ f2.rest = FALSE
  BY <1>9 DEF FastRecords, NewFast
<1>11. Moves(fast, fast', c, f2)
  BY <1>1, <1>9 DEF Moves, ClientsInv, Dial, Dialed
<1>12. ClientTyped(n2, m2, f2, e, k)
  BY <1>1, <1>4, <1>7, <1>10 DEF ClientRight, ClientTyped
<1>13. Placed(n2, m2) /\ TriesRight(m2)
  BY <1>1, <1>2, <1>4, <1>7, <1>10 DEF ClientRight, Placed, TriesRight, ClientRecords
<1>14. Explained(m2, k)
  BY <1>1, <1>2, <1>4, <1>7, <1>10, ErrorIsNotOK DEF ClientRight, Explained, ClientRecords, MadeRecords
<1>15. CountsRight(m2, f2)
  BY <1>1, <1>2, <1>4, <1>7, <1>10 DEF ClientRight, FastRight, CountsRight, ClientRecords, Reached
<1>16. FastRight(n2, m2, f2)
  BY <1>1, <1>2, <1>15, <1>4, <1>7, <1>10 DEF ClientRight, FastRight, Leftover
<1>17. ClientRight(n2, m2, f2, e, k)
  BY <1>2, <1>12, <1>13, <1>14, <1>16 DEF ClientRight, IsEcho
<1>18. QED
  <2>1. Moves(echo, echo', c, e) /\ Moves(made, made', c, k)
    BY <1>1, <1>2, Unmoved
  <2>2. QED BY <2>1, <1>2, <1>17, <1>5, <1>8, <1>11, OneMoves

(* A connection that is not made ends the call.                            *)
LEMMA DialFailsRight ==
  ASSUME ClientsInv, NEW c \in Clients, DialFails(c), UNCHANGED <<conf, echo, made>> PROVE ClientsInv'
<1>1. PICK n \in NetRecords, m \in ClientRecords, f \in FastRecords, e \in EchoRecords, k \in MadeRecords :
        /\ n = net[c] /\ m = cl[c] /\ f = fast[c] /\ e = echo[c] /\ k = made[c]
        /\ ClientRight(n, m, f, e, k)
  BY PartsOf
<1>2. /\ conf.kind = "fast" /\ m.pc = "dial" /\ m.code = SocketError
      /\ conf' = conf /\ net' = net /\ fast' = fast /\ echo' = echo /\ made' = made
  BY <1>1 DEF DialFails, At, ClientRight, Placed
<1>3. PICK m2 : m2 = [m EXCEPT !.pc = "done", !.connects = m.connects + 1]
  OBVIOUS
<1>4. /\ m2 \in ClientRecords /\ m2.pc = "done" /\ m2.connects = (m.connects + 1) /\ m2.socket = m.socket
      /\ m2.reused = m.reused /\ m2.code = m.code /\ m2.sockets = m.sockets /\ m2.lookups = m.lookups
      /\ m2.unresolved = m.unresolved /\ m2.retries = m.retries /\ m2.tries = m.tries /\ m2.served = m.served
      /\ m2.whole = m.whole
  BY <1>3, ClientNumbers DEF ClientRecords, Pcs, Codes
<1>5. Moves(cl, cl', c, m2)
  BY <1>1, <1>3 DEF Moves, ClientsInv, DialFails
<1>6. ClientTyped(n, m2, f, e, k)
  BY <1>1, <1>4 DEF ClientRight, ClientTyped
<1>7. Placed(n, m2) /\ TriesRight(m2)
  BY <1>1, <1>2, <1>4 DEF ClientRight, Placed, TriesRight, ClientRecords
<1>8. Explained(m2, k)
  BY <1>1, <1>2, <1>4, ErrorIsNotOK DEF ClientRight, Explained, ClientRecords, MadeRecords
<1>9. CountsRight(m2, f)
  BY <1>1, <1>2, <1>4 DEF ClientRight, FastRight, CountsRight, ClientRecords, Reached
<1>10. FastRight(n, m2, f)
  BY <1>1, <1>2, <1>9, <1>4 DEF ClientRight, FastRight, Leftover
<1>11. ClientRight(n, m2, f, e, k)
  BY <1>2, <1>6, <1>7, <1>8, <1>10 DEF ClientRight, IsEcho
<1>12. QED
  <2>1. /\ Moves(net, net', c, n) /\ Moves(fast, fast', c, f) /\ Moves(echo, echo', c, e)
        /\ Moves(made, made', c, k)
    BY <1>1, <1>2, Unmoved
  <2>2. QED BY <2>1, <1>2, <1>11, <1>5, OneMoves

(* A dead connection is closed, and its client begins again.               *)
LEMMA RetriesRight ==
  ASSUME ClientsInv, NEW c \in Clients, At(c, "write") \/ At(c, "read"), Retries(c),
         UNCHANGED <<conf, echo, made>>
  PROVE  ClientsInv'
<1>1. PICK n \in NetRecords, m \in ClientRecords, f \in FastRecords, e \in EchoRecords, k \in MadeRecords :
        /\ n = net[c] /\ m = cl[c] /\ f = fast[c] /\ e = echo[c] /\ k = made[c]
        /\ ClientRight(n, m, f, e, k)
  BY PartsOf
<1>2. /\ m.pc \in {"write", "read"} /\ m.reused
      /\ conf' = conf /\ fast' = fast /\ echo' = echo /\ made' = made
  BY <1>1 DEF Retries, At
<1>3. PICK n2 : n2 = NoConn
  OBVIOUS
<1>4. /\ n2 \in NetRecords /\ n2.up = FALSE /\ n2.bytes = <<>> /\ n2.end = "open"
  BY <1>3, NoConnTyped
<1>5. Moves(net, net', c, n2)
  BY <1>1, <1>3 DEF Moves, ClientsInv, Retries, Closed
<1>6. PICK m2 : m2 = [m EXCEPT !.pc = "again", !.retries = m.retries + 1]
  OBVIOUS
<1>7. /\ m2 \in ClientRecords /\ m2.pc = "again" /\ m2.retries = (m.retries + 1) /\ m2.socket = m.socket
      /\ m2.reused = m.reused /\ m2.code = m.code /\ m2.sockets = m.sockets /\ m2.connects = m.connects
      /\ m2.lookups = m.lookups /\ m2.unresolved = m.unresolved /\ m2.tries = m.tries /\ m2.served = m.served
      /\ m2.whole = m.whole
  BY <1>6, ClientNumbers DEF ClientRecords, Pcs, Codes
<1>8. Moves(cl, cl', c, m2)
  BY <1>1, <1>6 DEF Moves, ClientsInv, Retries, Closed
<1>9. ClientTyped(n2, m2, f, e, k)
  BY <1>1, <1>4, <1>7 DEF ClientRight, ClientTyped
<1>10. Placed(n2, m2) /\ TriesRight(m2)
  BY <1>1, <1>2, <1>4, <1>7 DEF ClientRight, Placed, TriesRight, ClientRecords
<1>11. Explained(m2, k)
  <2>1. IsEcho \/ PlainKept => m.sockets <= 1 + k.failed + m.retries
    BY <1>1 DEF ClientRight, Explained
  <2>2. m.sockets \in Nat /\ k.failed \in Nat /\ m.retries \in Nat
    BY <1>1 DEF ClientRecords, MadeRecords
  <2>3. PICK s \in Nat, x \in Nat, y \in Nat : s = m.sockets /\ x = k.failed /\ y = m.retries
    BY <2>2
  <2>4. m2.sockets = s /\ m2.retries = y + 1
    BY <2>3, <1>7
  <2>5. IsEcho \/ PlainKept => s <= x + (y + 1) /\ s <= 1 + x + (y + 1)
    BY <2>1, <2>3
  <2>6. IsEcho \/ PlainKept => m2.sockets <= k.failed + m2.retries /\ m2.sockets <= 1 + k.failed + m2.retries
    BY <2>3, <2>4, <2>5
  <2>7. QED BY <2>6, <1>7 DEF Explained
<1>12. conf.kind = "fast" => FastRight(n2, m2, f)
  BY <1>1, <1>2, <1>4, <1>7 DEF ClientRight, FastRight, CountsRight, Leftover, Reached, ClientRecords
<1>13. IsEcho => EchoRight(m2, e)
  BY <1>1, <1>2, <1>4, <1>7 DEF ClientRight, EchoRight
<1>14. conf.kind = "std" => StdRight(m2)
  BY <1>1, <1>2, <1>4, <1>7 DEF ClientRight, StdRight
<1>15. ClientRight(n2, m2, f, e, k)
  BY <1>9, <1>10, <1>11, <1>12, <1>13, <1>14 DEF ClientRight
<1>16. QED
  <2>1. Moves(fast, fast', c, f) /\ Moves(echo, echo', c, e) /\ Moves(made, made', c, k)
    BY <1>1, <1>2, Unmoved
  <2>2. QED BY <2>1, <1>2, <1>15, <1>5, <1>8, OneMoves

(* A new connection that fails ends the call.                              *)
LEMMA AbandonsRight ==
  ASSUME ClientsInv, NEW c \in Clients, At(c, "write"), Abandons(c), UNCHANGED <<conf, echo, made>>
  PROVE  ClientsInv'
<1>1. PICK n \in NetRecords, m \in ClientRecords, f \in FastRecords, e \in EchoRecords, k \in MadeRecords :
        /\ n = net[c] /\ m = cl[c] /\ f = fast[c] /\ e = echo[c] /\ k = made[c]
        /\ ClientRight(n, m, f, e, k)
  BY PartsOf
<1>2. /\ m.pc = "write" /\ m.code = SocketError
      /\ conf' = conf /\ net' = net /\ fast' = fast /\ echo' = echo /\ made' = made
  BY <1>1 DEF Abandons, Fails, At, ClientRight, Placed
<1>3. PICK m2 : m2 = [m EXCEPT !.pc = "done", !.code = SocketError]
  OBVIOUS
<1>4. /\ m2 \in ClientRecords /\ m2.pc = "done" /\ m2.code = SocketError /\ m2.socket = m.socket
      /\ m2.reused = m.reused /\ m2.sockets = m.sockets /\ m2.connects = m.connects /\ m2.lookups = m.lookups
      /\ m2.unresolved = m.unresolved /\ m2.retries = m.retries /\ m2.tries = m.tries /\ m2.served = m.served
      /\ m2.whole = m.whole
  BY <1>3, ClientNumbers DEF ClientRecords, Pcs, Codes
<1>5. Moves(cl, cl', c, m2)
  BY <1>1, <1>3 DEF Moves, ClientsInv, Abandons, Fails
<1>6. ClientTyped(n, m2, f, e, k)
  BY <1>1, <1>4 DEF ClientRight, ClientTyped
<1>7. Placed(n, m2) /\ TriesRight(m2)
  BY <1>1, <1>2, <1>4 DEF ClientRight, Placed, TriesRight, ClientRecords
<1>8. Explained(m2, k)
  BY <1>1, <1>2, <1>4, ErrorIsNotOK DEF ClientRight, Explained, ClientRecords, MadeRecords
<1>9. conf.kind = "fast" => FastRight(n, m2, f)
  BY <1>1, <1>2, <1>4 DEF ClientRight, FastRight, CountsRight, Leftover, Reached, ClientRecords
<1>10. IsEcho => EchoRight(m2, e)
  BY <1>1, <1>2, <1>4 DEF ClientRight, EchoRight
<1>11. conf.kind = "std" => StdRight(m2)
  BY <1>1, <1>2, <1>4 DEF ClientRight, StdRight
<1>12. ClientRight(n, m2, f, e, k)
  BY <1>6, <1>7, <1>8, <1>9, <1>10, <1>11 DEF ClientRight
<1>13. QED
  <2>1. /\ Moves(net, net', c, n) /\ Moves(fast, fast', c, f) /\ Moves(echo, echo', c, e)
        /\ Moves(made, made', c, k)
    BY <1>1, <1>2, Unmoved
  <2>2. QED BY <2>1, <1>2, <1>12, <1>5, OneMoves

(* A request that cannot be sent: one more try, or the end of the call.    *)
LEMMA WriteFailsRight ==
  ASSUME ClientsInv, NEW c \in Clients, WriteFails(c), UNCHANGED <<conf, echo, made>> PROVE ClientsInv'
BY RetriesRight, AbandonsRight DEF WriteFails

-----------------------------------------------------------------------------
(* What is read leaves the connection for the buffer, in order.            *)

(* The beginning of a sequence, element by element.                        *)
LEMMA PrefixShape ==
  ASSUME NEW S, NEW s \in Seq(S), NEW i \in 0 .. Len(s)
  PROVE  /\ SubSeq(s, 1, i) \in Seq(S) /\ Len(SubSeq(s, 1, i)) = i
         /\ \A j \in 1 .. i : SubSeq(s, 1, i)[j] = s[j]
<1>1. Len(s) \in Nat /\ 1 \in Int /\ i \in Int
  OBVIOUS
<1>2. \A j \in 1 .. i : s[j] \in S
  BY <1>1
<1>3. /\ SubSeq(s, 1, i) \in Seq(S)
      /\ Len(SubSeq(s, 1, i)) = IF 1 <= i THEN i - 1 + 1 ELSE 0
      /\ \A j \in 1 .. i - 1 + 1 : SubSeq(s, 1, i)[j] = s[1 + j - 1]
  BY <1>1, <1>2, SubSeqProperties
<1>4. i - 1 + 1 = i /\ (\A j \in 1 .. i : 1 + j - 1 = j)
  BY <1>1
<1>5. QED BY <1>1, <1>3, <1>4

(* What follows it, element by element.                                    *)
LEMMA RestShape ==
  ASSUME NEW S, NEW s \in Seq(S), NEW k \in 0 .. Len(s)
  PROVE  /\ SubSeq(s, k + 1, Len(s)) \in Seq(S) /\ Len(SubSeq(s, k + 1, Len(s))) = Len(s) - k
         /\ \A j \in 1 .. Len(s) - k : SubSeq(s, k + 1, Len(s))[j] = s[k + j]
<1>1. PICK l \in Nat : l = Len(s)
  OBVIOUS
<1>2. \A j \in k + 1 .. l : s[j] \in S
  BY <1>1
<1>3. k + 1 \in Int /\ l \in Int /\ k \in 0 .. l
  BY <1>1
<1>4. /\ SubSeq(s, k + 1, l) \in Seq(S)
      /\ Len(SubSeq(s, k + 1, l)) = IF k + 1 <= l THEN l - (k + 1) + 1 ELSE 0
      /\ \A j \in 1 .. l - (k + 1) + 1 : SubSeq(s, k + 1, l)[j] = s[(k + 1) + j - 1]
  BY <1>2, <1>3, SubSeqProperties
<1>5. l - (k + 1) + 1 = l - k /\ (\A j \in 1 .. l - k : (k + 1) + j - 1 = k + j)
  BY <1>3
<1>6. QED BY <1>1, <1>3, <1>4, <1>5

(* What is read of a stream moves from its front to the end of the buffer. *)
LEMMA SplitMoves ==
  ASSUME NEW S, NEW b \in Seq(S), NEW s \in Seq(S), NEW k \in 1 .. Len(s)
  PROVE  /\ (b \o SubSeq(s, 1, k)) \o SubSeq(s, k + 1, Len(s)) = b \o s
         /\ b \o SubSeq(s, 1, k) \in Seq(S) /\ Len(b \o SubSeq(s, 1, k)) = Len(b) + k
         /\ SubSeq(s, k + 1, Len(s)) \in Seq(S)
<1>1. Len(s) \in Nat /\ Len(b) \in Nat /\ k \in 0 .. Len(s)
  OBVIOUS
<1>2. PICK p \in Seq(S) : p = SubSeq(s, 1, k) /\ Len(p) = k
  BY <1>1, PrefixShape
<1>3. PICK r \in Seq(S) : r = SubSeq(s, k + 1, Len(s))
  BY <1>1, RestShape
<1>4. p \o r = s
  <2>1. 1 \in 1 .. Len(s) + 1 /\ k \in 1 - 1 .. Len(s) /\ Len(s) \in k .. Len(s)
    BY <1>1
  <2>2. p \o r = SubSeq(s, 1, Len(s))
    BY <2>1, <1>2, <1>3, ConcatAdjacentSubSeq
  <2>3. QED BY <2>2, SubSeqFull
<1>5. (b \o p) \o r = b \o s
  <2>1. (b \o p) \o r = b \o (p \o r)
    BY ConcatAssociative, SMTT(90)
  <2>2. QED BY <2>1, <1>4
<1>6. b \o p \in Seq(S) /\ Len(b \o p) = Len(b) + k
  BY <1>2, ConcatProperties
<1>7. QED BY <1>2, <1>3, <1>5, <1>6

(* The first element of two sequences joined.                              *)
LEMMA HeadJoined ==
  ASSUME NEW S, NEW s \in Seq(S), NEW t \in Seq(S)
  PROVE  /\ s # <<>> => s \o t # <<>> /\ Head(s \o t) = Head(s) /\ Head(s) = s[1] /\ Len(s) >= 1
         /\ s = <<>> => s \o t = t
         /\ t = <<>> => s \o t = s
         /\ s \o t # <<>> => s # <<>> \/ t # <<>>
<1>1. s = <<>> => s \o t = t
  BY ConcatEmptySeq
<1>2. t = <<>> => s \o t = s
  BY ConcatEmptySeq
<1>3. ASSUME s # <<>> PROVE s \o t # <<>> /\ Head(s \o t) = Head(s) /\ Head(s) = s[1] /\ Len(s) >= 1
  <2>1. Len(s) \in Nat \ {0} /\ Head(s) = s[1]
    BY <1>3
  <2>2. s \o t \in Seq(S) /\ Len(s \o t) = Len(s) + Len(t) /\ Len(t) \in Nat /\ (s \o t)[1] = s[1]
    <3>1. 1 \in 1 .. Len(s)
      BY <2>1
    <3>2. QED BY <3>1, Joined
  <2>3. s \o t # <<>>
    BY <2>1, <2>2
  <2>4. Head(s \o t) = (s \o t)[1]
    BY <2>2, <2>3
  <2>5. QED BY <2>1, <2>2, <2>3, <2>4
<1>4. s \o t # <<>> => s # <<>> \/ t # <<>>
  BY <1>1
<1>5. QED BY <1>1, <1>2, <1>3, <1>4

(* A server sends a beginning of one of its answers, a plain one all of    *)
(* it.                                                                     *)
LEMMA OutcomeFacts ==
  ASSUME conf \in Confs, NEW o \in Outcomes[conf.server]
  PROVE  o.answer \in Answers[conf.server] /\ o.sent \in 0 .. Len(Bytes(o.answer)) /\ o.end \in Ends
<1>1. o \in OutcomesOf(Answers[conf.server])
  BY ConfFacts DEF Outcomes
<1>2. o.answer \in Answers[conf.server] /\ o.sent \in Nat /\ o.sent <= Len(Bytes(o.answer)) /\ o.end \in Ends
  BY <1>1, BufferAssumption DEF OutcomesOf
<1>3. Len(Bytes(o.answer)) \in Nat
  <2>1. Len(Body(o.answer)) \in Nat /\ Len(Bytes(o.answer)) = 4 + Len(Body(o.answer))
    BY <1>2, ConfFacts, BytesShape
  <2>2. QED BY <2>1
<1>4. QED BY <1>2, <1>3

(* The server may send what there is of its answer after what was left of  *)
(* another.                                                                *)
LEMMA SendsRight ==
  ASSUME ClientsInv, NEW c \in Clients, At(c, "write"), conf.kind = "fast", NEW o \in Outcomes[conf.server],
         Sends(c, SubSeq(Bytes(o.answer), 1, o.sent), o.end),
         cl' = [cl EXCEPT ![c].pc = "read", ![c].code = 200, ![c].served = o.answer.code,
                          ![c].whole = IsWhole(o), ![c].tries = @ + 1],
         fast' = [fast EXCEPT ![c].maxV = BufferSize, ![c].parsed = FALSE, ![c].keep = conf.keepAlive,
                         ![c].chunked = FALSE, ![c].missed = FALSE, ![c].rest = net[c].bytes # <<>>],
         UNCHANGED <<conf, echo, made>>
  PROVE  ClientsInv'
<1>1. PICK n \in NetRecords, m \in ClientRecords, f \in FastRecords, e \in EchoRecords, k \in MadeRecords :
        /\ n = net[c] /\ m = cl[c] /\ f = fast[c] /\ e = echo[c] /\ k = made[c]
        /\ ClientRight(n, m, f, e, k)
  BY PartsOf
<1>2. /\ conf.kind = "fast" /\ m.pc = "write" /\ m.socket = FALSE
      /\ conf' = conf /\ echo' = echo /\ made' = made
  BY <1>1 DEF At, ClientRight, Placed, ClientRecords
<1>3. PICK a \in Answers[conf.server], i \in 0 .. Len(Bytes(o.answer)), x \in Ends, w \in BOOLEAN, y \in Nat :
        a = o.answer /\ y = a.code /\ i = o.sent /\ x = o.end /\ w = IsWhole(o)
  BY OutcomeFacts, ConfFacts, AnswerFacts DEF ClientsInv, IsWhole
<1>4. Bytes(a) \in Seq(Tokens) /\ Len(Bytes(a)) \in Nat /\ a.code \in Nat /\ conf.server \in DOMAIN Answers
  BY ConfFacts, BytesShape, AnswerFacts DEF ClientsInv
<1>5. PICK s \in Seq(Tokens) : s = SubSeq(Bytes(a), 1, i) /\ Len(s) = i
  BY <1>3, <1>4, PrefixShape
<1>6. Stream = Seq(Tokens) /\ n.bytes \in Seq(Tokens)
  BY <1>2 DEF NetRecords, Stream
<1>7. PICK b \in Seq(Tokens) : b = n.bytes \o s
  BY <1>6, <1>5, ConcatProperties
<1>8. m.tries + 1 \in 0 .. 2 /\ 200 \in Codes /\ BufferSize \in Nat /\ conf.keepAlive \in BOOLEAN
  BY <1>1, <1>2, <1>4, ConfFacts, BufferAssumption, SMTT(60) DEF ClientRight, TriesRight, ClientsInv, ClientRecords, Codes
<1>9. PICK n2 : n2 = [n EXCEPT !.bytes = b, !.end = x]
  OBVIOUS
<1>10. /\ n2 \in NetRecords /\ n2.bytes = b /\ n2.end = x /\ n2.up = n.up
  BY <1>9, <1>6 DEF NetRecords, Ends, NoConn
<1>11. Moves(net, net', c, n2)
  BY <1>1, <1>9, <1>3, <1>5, <1>7 DEF Moves, ClientsInv, Sends
<1>12. PICK m2 : m2 = [m EXCEPT !.pc = "read", !.code = 200, !.served = y, !.whole = w, !.tries = m.tries + 1]
  OBVIOUS
<1>13. /\ m2 \in ClientRecords /\ m2.pc = "read" /\ m2.code = 200 /\ m2.tries = (m.tries + 1) /\ m2.served = y
       /\ m2.whole = w /\ m2.socket = m.socket /\ m2.reused = m.reused /\ m2.sockets = m.sockets
       /\ m2.connects = m.connects /\ m2.lookups = m.lookups /\ m2.unresolved = m.unresolved
       /\ m2.retries = m.retries
  <2>1. PICK m1 : m1 = [m EXCEPT !.served = y, !.whole = w]
    OBVIOUS
  <2>2. m1 \in ClientRecords /\ m1.tries = m.tries
    BY <2>1 DEF ClientRecords
  <2>3. m2 = [m1 EXCEPT !.pc = "read", !.code = 200, !.tries = m.tries + 1]
    BY <2>1, <1>12, ZenonT(60) DEF ClientRecords
  <2>4. m2 \in ClientRecords
    BY <2>2, <2>3, <1>8, ZenonT(60) DEF ClientRecords, Pcs
  <2>5. QED BY <2>4, <1>12 DEF ClientRecords
<1>14. Moves(cl, cl', c, m2)
  BY <1>1, <1>12, <1>3, <1>5, <1>7 DEF Moves, ClientsInv, Sends
<1>26. PICK q \in BOOLEAN : q = (n.bytes # <<>>)
  OBVIOUS
<1>15. PICK f2 :
            f2 = [f EXCEPT !.maxV = BufferSize, !.parsed = FALSE, !.keep = conf.keepAlive, !.chunked = FALSE, !.missed = FALSE,
                      !.rest = q]
  OBVIOUS
<1>16. /\ f2 \in FastRecords /\ f2.maxV = BufferSize /\ f2.parsed = FALSE /\ f2.keep = conf.keepAlive
       /\ f2.chunked = FALSE /\ f2.missed = FALSE /\ f2.buf = f.buf /\ f2.reuseCount = f.reuseCount
       /\ f2.connReuse = f.connReuse /\ f2.warned = f.warned /\ f2.rest = q
  BY <1>15, <1>8 DEF FastRecords, NewFast
<1>17. Moves(fast, fast', c, f2)
  BY <1>1, <1>15, <1>26 DEF Moves, ClientsInv
<1>18. ClientTyped(n2, m2, f2, e, k)
  BY <1>1, <1>10, <1>13, <1>16 DEF ClientRight, ClientTyped
<1>19. Placed(n2, m2) /\ TriesRight(m2)
  BY <1>1, <1>2, <1>10, <1>13, <1>16, SMTT(30) DEF ClientRight, Placed, TriesRight, ClientRecords
<1>20. Explained(m2, k)
  BY <1>1, <1>2, <1>10, <1>13, <1>16, ErrorIsNotOK DEF ClientRight, Explained, ClientRecords, MadeRecords
<1>21. conf.kind = "fast" => FastRight(n2, m2, f2)
  <2> SUFFICES FastRight(n2, m2, f2)
    OBVIOUS
  <2>1. /\ CountsRight(m, f) /\ Leftover(n, f) /\ f.buf = <<>> /\ m.socket = FALSE
        /\ PlainKept => ~f.warned
    BY <1>1, <1>2 DEF ClientRight, FastRight, Placed, ClientRecords
  <2>2. CountsRight(m2, f2)
    BY <2>1, <1>2, <1>13, <1>16 DEF CountsRight
  <2>3. f2.buf \o n2.bytes = n2.bytes /\ Len(f2.buf) = 0
    BY <2>1, <1>10, <1>16, ConcatEmptySeq
  <2>4. ASSUME n.bytes = <<>> PROVE n2.bytes = <<>> \/ IsAnswer(a, n2, m2, f2)
    <3>1. b = s
      BY <2>4, <1>7, ConcatEmptySeq
    <3>2. s # <<>> => IsAnswer(a, n2, m2, f2)
      BY <3>1, <2>3, <1>3, <1>4, <1>5, <1>10, <1>13, <1>16 DEF IsAnswer
    <3>3. QED BY <3>1, <3>2, <1>10
  <2>5. f2.rest => f2.warned
    BY <2>1, <1>16, <1>26 DEF Leftover
  <2>9. Reading(n2, m2, f2)
    <3>1. CASE f2.rest
      BY <3>1, <1>13 DEF Reading
    <3>2. CASE ~f2.rest
      <4>1. n.bytes = <<>>
        BY <3>2, <1>16, <1>26
      <4>2. n2.bytes = <<>> \/ IsAnswer(a, n2, m2, f2)
        BY <4>1, <2>4
      <4>3. QED BY <4>2, <2>1, <2>3, <1>13, <1>16 DEF Reading, ReadsAnswer, CodeOwn
    <3>3. QED BY <3>1, <3>2
  <2>10. QED BY <2>1, <2>2, <2>5, <2>9, <1>13, <1>16 DEF FastRight, PlainKept
<1>22. IsEcho => EchoRight(m2, e)
  BY <1>2 DEF IsEcho
<1>23. conf.kind = "std" => StdRight(m2)
  BY <1>2
<1>24. ClientRight(n2, m2, f2, e, k)
  BY <1>18, <1>19, <1>20, <1>21, <1>22, <1>23 DEF ClientRight
<1>25. QED
  <2>1. Moves(echo, echo', c, e) /\ Moves(made, made', c, k)
    BY <1>1, <1>2, Unmoved
  <2>2. QED BY <2>1, <1>2, <1>24, <1>11, <1>14, <1>17, OneMoves

(* A request to a server that closed: there is no answer.                  *)
LEMMA UnheardRight ==
  ASSUME ClientsInv, NEW c \in Clients, At(c, "write"), conf.kind = "fast", Unheard(c),
         cl' = [cl EXCEPT ![c].pc = "read", ![c].code = 200, ![c].served = 0, ![c].whole = FALSE,
                          ![c].tries = @ + 1],
         fast' = [fast EXCEPT ![c].maxV = BufferSize, ![c].parsed = FALSE, ![c].keep = conf.keepAlive,
                         ![c].chunked = FALSE, ![c].missed = FALSE, ![c].rest = net[c].bytes # <<>>],
         UNCHANGED <<conf, echo, made>>
  PROVE  ClientsInv'
<1>1. PICK n \in NetRecords, m \in ClientRecords, f \in FastRecords, e \in EchoRecords, k \in MadeRecords :
        /\ n = net[c] /\ m = cl[c] /\ f = fast[c] /\ e = echo[c] /\ k = made[c]
        /\ ClientRight(n, m, f, e, k)
  BY PartsOf
<1>2. /\ conf.kind = "fast" /\ m.pc = "write" /\ m.socket = FALSE
      /\ conf' = conf /\ net' = net /\ echo' = echo /\ made' = made
  BY <1>1 DEF At, ClientRight, Placed, ClientRecords, Unheard
<1>3. m.tries + 1 \in 0 .. 2 /\ 0 \in Nat /\ 200 \in Codes /\ BufferSize \in Nat /\ conf.keepAlive \in BOOLEAN
  BY <1>1, <1>2, ConfFacts, BufferAssumption DEF ClientRight, TriesRight, ClientsInv, ClientRecords, Codes
<1>4. Stream = Seq(Tokens) /\ n.bytes \in Seq(Tokens)
  BY <1>2 DEF NetRecords, Stream
<1>5. PICK m2 :
           m2 = [m EXCEPT !.pc = "read", !.code = 200, !.served = 0, !.whole = FALSE, !.tries = m.tries + 1]
  OBVIOUS
<1>6. /\ m2 \in ClientRecords /\ m2.pc = "read" /\ m2.code = 200 /\ m2.tries = (m.tries + 1) /\ m2.served = 0
      /\ m2.whole = FALSE /\ m2.socket = m.socket /\ m2.reused = m.reused /\ m2.sockets = m.sockets
      /\ m2.connects = m.connects /\ m2.lookups = m.lookups /\ m2.unresolved = m.unresolved
      /\ m2.retries = m.retries
  <2>1. m2 \in ClientRecords
    <3>1. PICK t \in 0 .. 2 : t = m.tries + 1
      BY <1>3
    <3>2. m2 = [m EXCEPT !.pc = "read", !.code = 200, !.served = 0, !.whole = FALSE, !.tries = t]
      BY <1>5, <3>1
    <3>3. 200 \in Codes /\ 0 \in Nat
      BY <1>3
    <3>4. QED BY <3>2, <3>3, ZenonT(60) DEF ClientRecords, Pcs
  <2>2. /\ m2.pc = "read" /\ m2.code = 200 /\ m2.tries = (m.tries + 1) /\ m2.served = 0
        /\ m2.whole = FALSE /\ m2.socket = m.socket /\ m2.reused = m.reused /\ m2.sockets = m.sockets
        /\ m2.connects = m.connects /\ m2.lookups = m.lookups /\ m2.unresolved = m.unresolved
        /\ m2.retries = m.retries
    BY <1>5 DEF ClientRecords
  <2>3. QED BY <2>1, <2>2
<1>7. Moves(cl, cl', c, m2)
  BY <1>1, <1>5 DEF Moves, ClientsInv
<1>19. PICK q \in BOOLEAN : q = (n.bytes # <<>>)
  OBVIOUS
<1>8. PICK f2 :
           f2 = [f EXCEPT !.maxV = BufferSize, !.parsed = FALSE, !.keep = conf.keepAlive, !.chunked = FALSE, !.missed = FALSE,
                      !.rest = q]
  OBVIOUS
<1>9. /\ f2 \in FastRecords /\ f2.maxV = BufferSize /\ f2.parsed = FALSE /\ f2.keep = conf.keepAlive
      /\ f2.chunked = FALSE /\ f2.missed = FALSE /\ f2.buf = f.buf /\ f2.reuseCount = f.reuseCount
      /\ f2.connReuse = f.connReuse /\ f2.warned = f.warned /\ f2.rest = q
  BY <1>8, <1>3 DEF FastRecords, NewFast
<1>10. Moves(fast, fast', c, f2)
  BY <1>1, <1>8, <1>19 DEF Moves, ClientsInv
<1>11. ClientTyped(n, m2, f2, e, k)
  BY <1>1, <1>6, <1>9 DEF ClientRight, ClientTyped
<1>12. Placed(n, m2) /\ TriesRight(m2)
  BY <1>1, <1>2, <1>6, <1>9 DEF ClientRight, Placed, TriesRight, ClientRecords
<1>13. Explained(m2, k)
  BY <1>1, <1>2, <1>6, <1>9, ErrorIsNotOK DEF ClientRight, Explained, ClientRecords, MadeRecords
<1>14. conf.kind = "fast" => FastRight(n, m2, f2)
  <2> SUFFICES FastRight(n, m2, f2)
    OBVIOUS
  <2>1. /\ CountsRight(m, f) /\ Leftover(n, f) /\ f.buf = <<>> /\ m.socket = FALSE
        /\ PlainKept => ~f.warned
    BY <1>1, <1>2 DEF ClientRight, FastRight, Placed, ClientRecords
  <2>2. CountsRight(m2, f2)
    BY <2>1, <1>2, <1>6, <1>9 DEF CountsRight
  <2>3. f2.buf \o n.bytes = n.bytes /\ Len(f2.buf) = 0
    BY <2>1, <1>4, <1>9, ConcatEmptySeq
  <2>8. f2.rest => f2.warned
    BY <2>1, <1>9, <1>19 DEF Leftover
  <2>9. Reading(n, m2, f2)
    <3>1. ~f2.rest => n.bytes = <<>>
      BY <1>9, <1>19
    <3>2. QED BY <3>1, <2>1, <2>3, <1>6, <1>9 DEF Reading, ReadsAnswer, CodeOwn
  <2>10. QED BY <2>1, <2>2, <2>8, <2>9, <1>6, <1>9 DEF FastRight, PlainKept
<1>15. IsEcho => EchoRight(m2, e)
  BY <1>2 DEF IsEcho
<1>16. conf.kind = "std" => StdRight(m2)
  BY <1>2
<1>17. ClientRight(n, m2, f2, e, k)
  BY <1>11, <1>12, <1>13, <1>14, <1>15, <1>16 DEF ClientRight
<1>18. QED
  <2>1. Moves(net, net', c, n) /\ Moves(echo, echo', c, e) /\ Moves(made, made', c, k)
    BY <1>1, <1>2, Unmoved
  <2>2. QED BY <2>1, <1>2, <1>17, <1>7, <1>10, OneMoves

(* The request is sent, and the reading begins.                            *)
LEMMA WriteRight ==
  ASSUME ClientsInv, NEW c \in Clients, Write(c), UNCHANGED <<conf, echo, made>> PROVE ClientsInv'
BY SendsRight, UnheardRight DEF Write

-----------------------------------------------------------------------------
(* What FastClient has of an answer, in its buffer and on its connection.  *)

(* The answer read and to be read is the same after a read.                *)
LEMMA AnswerMoves ==
  ASSUME NEW a, NEW n, NEW m, NEW f, NEW n2, NEW m2, NEW f2, IsAnswer(a, n, m, f),
         f2.buf \o n2.bytes = f.buf \o n.bytes, m2.served = m.served,
         f2.parsed /\ f2.keep /\ ~f2.warned =>
           IF f2.chunked THEN a.framing = "chunked" /\ f2.maxV \in ChunkEnds(a) ELSE f2.maxV = Len(Bytes(a))
  PROVE  IsAnswer(a, n2, m2, f2)
BY DEF IsAnswer

(* While what is read begins with the rest of another answer, little is    *)
(* known of it, but that there was a warning.                              *)
LEMMA RestIsRight ==
  ASSUME NEW n, NEW m, NEW f, NEW n2, NEW m2, NEW f2, FastRight(n, m, f), f.rest, f2.rest,
         f.warned => f2.warned, CountsRight(m2, f2), m2.pc \in {"read", "headers", "body", "end"},
         m2.pc \in {"headers", "body"} => f2.buf # <<>>,
         m2.pc = "headers" => ~conf.http10 /\ ~f2.parsed,
         m2.pc = "end" => m2.code = SocketError \/ f2.buf # <<>>
  PROVE  FastRight(n2, m2, f2)
BY DEF FastRight, Reading, Leftover

(* A buffer of two tokens holds the code of its answer.                    *)
LEMMA AnswerBegins ==
  ASSUME NEW a, NEW n, NEW m, NEW f, IsAnswer(a, n, m, f)
  PROVE  /\ Len(f.buf \o n.bytes) <= Len(Bytes(a))
         /\ f.buf \o n.bytes = SubSeq(Bytes(a), 1, Len(f.buf \o n.bytes))
         /\ f.buf \o n.bytes # <<>> /\ m.served = a.code
BY DEF IsAnswer

(* The buffer holds a beginning of its answer.                             *)
LEMMA AnswerBuffer ==
  ASSUME NEW sort \in DOMAIN Answers, NEW a \in Answers[sort], NEW b \in Seq(Tokens), NEW r \in Seq(Tokens),
         Len(b \o r) <= Len(Bytes(a)), b \o r = SubSeq(Bytes(a), 1, Len(b \o r))
  PROVE  /\ Len(b) + Len(r) <= Len(Bytes(a))
         /\ \A i \in 1 .. Len(b) : b[i] = Bytes(a)[i]
<1>2. PICK t \in Seq(Tokens) : t = Bytes(a)
  BY BytesShape
<1>3. b \o r \in Seq(Tokens) /\ Len(b \o r) = Len(b) + Len(r)
  BY Joined
<1>4. (\A i \in 1 .. Len(b) : (b \o r)[i] = b[i]) /\ (\A i \in 1 .. Len(r) : (b \o r)[Len(b) + i] = r[i])
  BY Joined
<1>5. PICK u : u = b \o r
  OBVIOUS
<1>6. Len(b) \in Nat /\ Len(r) \in Nat /\ Len(t) \in Nat
  OBVIOUS
<1>7. /\ Len(u) \in Nat /\ Len(u) = Len(b) + Len(r) /\ Len(u) <= Len(t)
      /\ \A i \in 1 .. Len(u) : u[i] = t[i]
  <2>2. Len(u) <= Len(t) /\ u = SubSeq(t, 1, Len(u))
    BY <1>2, <1>5
  <2>3. Len(u) = Len(b) + Len(r)
    BY <1>3, <1>5
  <2>4. PICK l \in 0 .. Len(t) : l = Len(u)
    BY <2>2, <2>3, <1>6
  <2>5. \A i \in 1 .. l : SubSeq(t, 1, l)[i] = t[i]
    BY PrefixShape
  <2>6. \A i \in 1 .. l : u[i] = t[i]
    BY <2>2, <2>4, <2>5
  <2>7. QED BY <2>2, <2>3, <2>4, <2>6
<1>8. \A i \in 1 .. Len(b) : b[i] = t[i]
  <2> SUFFICES ASSUME NEW i \in 1 .. Len(b) PROVE b[i] = t[i]
    OBVIOUS
  <2>1. i \in 1 .. Len(u)
    BY <1>6, <1>7
  <2>2. QED BY <2>1, <1>4, <1>5, <1>7
<1>9. QED BY <1>2, <1>7, <1>8

(* The size of a chunk is looked for where the one before it ends.         *)
LEMMA NextSize ==
  ASSUME NEW b \in Seq(Tokens), NEW i \in Nat, NEW x, x = ParseChunkSize(SubSeq(b, i + 1, Len(b)))
  PROVE  /\ x \in Nat \cup {-1}
         /\ x # -1 => i + 1 \in 1 .. Len(b) /\ b[i + 1][1] = "size" /\ x = b[i + 1][2]
<1>1. PICK l \in Nat : l = Len(b)
  OBVIOUS
<1>2. CASE ~(i < l)
  <2>1. SubSeq(b, i + 1, l) = <<>>
    <3>1. i + 1 \in Int /\ l \in Int /\ l < i + 1
      BY <1>2
    <3>2. QED BY <3>1, SubSeqEmpty
  <2>2. QED BY <2>1, <1>1 DEF ParseChunkSize
<1>3. CASE i < l
  <2>1. i \in 0 .. Len(b) /\ 1 \in 1 .. Len(b) - i /\ i + 1 \in 1 .. Len(b)
    BY <1>1, <1>3
  <2>2. PICK r \in Seq(Tokens) : r = SubSeq(b, i + 1, Len(b)) /\ r[1] = b[i + 1]
    <3>1. /\ SubSeq(b, i + 1, Len(b)) \in Seq(Tokens)
          /\ \A j \in 1 .. Len(b) - i : SubSeq(b, i + 1, Len(b))[j] = b[i + j]
      BY <2>1, RestShape
    <3>2. QED BY <2>1, <3>1
  <2>3. b[i + 1] \in Tokens
    BY <2>1
  <2>4. b[i + 1][1] = "size" => b[i + 1][2] \in Nat
    BY <2>3 DEF Tokens
  <2>5. x = IF r # <<>> /\ r[1][1] = "size" THEN r[1][2] ELSE -1
    BY <2>2 DEF ParseChunkSize
  <2>6. QED BY <2>1, <2>2, <2>4, <2>5
<1>4. QED BY <1>2, <1>3

(* A read moves some of it.                                                *)
LEMMA ReadRight ==
  ASSUME ClientsInv, NEW c \in Clients, Read(c), UNCHANGED <<conf, echo, made>> PROVE ClientsInv'
<1>1. PICK n \in NetRecords, m \in ClientRecords, f \in FastRecords, e \in EchoRecords, k \in MadeRecords :
        /\ n = net[c] /\ m = cl[c] /\ f = fast[c] /\ e = echo[c] /\ k = made[c]
        /\ ClientRight(n, m, f, e, k)
  BY PartsOf
<1>2. /\ conf.kind = "fast" /\ m.pc = "read" /\ m.socket = FALSE /\ conf' = conf /\ echo' = echo /\ made' = made
      /\ n.bytes \in Seq(Tokens) /\ f.buf \in Seq(Tokens) /\ Stream = Seq(Tokens)
  BY <1>1 DEF At, Read, ClientRight, Placed, ClientRecords, NetRecords, FastRecords, Stream
<1>3. PICK h \in Seq(Tokens), g \in Seq(Tokens) : h = f.buf /\ g = n.bytes /\ Len(h) \in Nat /\ Len(g) \in Nat
  BY <1>2
<1>4. PICK i \in 1 .. Len(g), u \in BOOLEAN :
        /\ i <= BufferSize - Len(h)
        /\ ~f.rest => u = (Len(h \o SubSeq(g, 1, i)) >= 2)
        /\ net' = [net EXCEPT ![c].bytes = SubSeq(@, i + 1, Len(@))]
        /\ fast' = [fast EXCEPT ![c].buf = h \o SubSeq(g, 1, i)]
        /\ cl' = [cl EXCEPT ![c].pc = IF ~f.parsed /\ ~conf.http10 /\ u THEN "headers" ELSE "body"]
  <2>1. PICK i \in 1 .. Space(c) :
          /\ i <= Len(net[c].bytes)
          /\ Takes(c, i)
          /\ LET buf == fast[c].buf \o SubSeq(net[c].bytes, 1, i)
             IN \E enough \in Enough(fast[c], buf) :
                  /\ fast' = [fast EXCEPT ![c].buf = buf]
                  /\ GoesTo(c, IF ~fast[c].parsed /\ ~conf.http10 /\ enough THEN "headers" ELSE "body")
    BY DEF Read
  <2>2. Space(c) = BufferSize - Len(h) /\ fast[c].buf = h /\ net[c].bytes = g /\ fast[c] = f
    BY <1>1, <1>3 DEF Space
  <2>5. PICK u : /\ u \in Enough(f, h \o SubSeq(g, 1, i))
                 /\ fast' = [fast EXCEPT ![c].buf = h \o SubSeq(g, 1, i)]
                 /\ GoesTo(c, IF ~f.parsed /\ ~conf.http10 /\ u THEN "headers" ELSE "body")
    BY <2>1, <2>2
  <2>3. i \in 1 .. Len(g) /\ i <= BufferSize - Len(h)
    BY <2>1, <2>2, <1>3, BufferAssumption
  <2>6. u \in BOOLEAN /\ (~f.rest => u = (Len(h \o SubSeq(g, 1, i)) >= 2))
    <3>1. PICK q \in BOOLEAN : q = (Len(h \o SubSeq(g, 1, i)) >= 2)
      <4>1. PICK l \in Nat : l = Len(h \o SubSeq(g, 1, i))
        BY <1>3, <2>3, SplitMoves
      <4>2. (l >= 2) \in BOOLEAN
        OBVIOUS
      <4>3. QED BY <4>1, <4>2, Zenon
    <3>2. Enough(f, h \o SubSeq(g, 1, i)) = IF f.rest THEN BOOLEAN ELSE {q}
      BY <3>1 DEF Enough
    <3>3. u \in IF f.rest THEN BOOLEAN ELSE {q}
      BY <2>5, <3>2
    <3>4. u \in BOOLEAN /\ (~f.rest => u = q)
      BY <3>3, Zenon
    <3>5. QED BY <3>1, <3>4
  <2>4. QED BY <2>1, <2>2, <2>3, <2>5, <2>6 DEF Takes, GoesTo
<1>5. PICK b \in Seq(Tokens) : b = h \o SubSeq(g, 1, i) /\ Len(b) = Len(h) + i
  <2>1. h \o SubSeq(g, 1, i) \in Seq(Tokens) /\ Len(h \o SubSeq(g, 1, i)) = Len(h) + i
    BY SplitMoves
  <2>2. QED BY <2>1
<1>6. PICK r \in Seq(Tokens) : r = SubSeq(g, i + 1, Len(g)) /\ b \o r = h \o g
  BY <1>5, SplitMoves, ZenonT(60)
<1>7. PICK p \in {"headers", "body"} :
           p = IF ~f.parsed /\ ~conf.http10 /\ u THEN "headers" ELSE "body"
  OBVIOUS
<1>8. Len(b) \in Nat /\ Len(b) >= 1 /\ Len(b) > Len(f.buf) /\ Len(b) <= BufferSize /\ Len(f.buf) \in Nat
  BY <1>3, <1>4, <1>5, BufferAssumption
<1>9. PICK n2 : n2 = [n EXCEPT !.bytes = r]
  OBVIOUS
<1>10. /\ n2 \in NetRecords /\ n2.bytes = r /\ n2.up = n.up /\ n2.end = n.end
  BY <1>9, <1>2 DEF NetRecords, Ends, NoConn
<1>11. Moves(net, net', c, n2)
  BY <1>1, <1>9, <1>3, <1>4, <1>5, <1>6, <1>7 DEF Moves, ClientsInv
<1>12. PICK m2 : m2 = [m EXCEPT !.pc = p]
  OBVIOUS
<1>13. /\ m2 \in ClientRecords /\ m2.pc = p /\ m2.socket = m.socket /\ m2.reused = m.reused /\ m2.code = m.code
       /\ m2.sockets = m.sockets /\ m2.connects = m.connects /\ m2.lookups = m.lookups
       /\ m2.unresolved = m.unresolved
       /\ m2.retries = m.retries /\ m2.tries = m.tries /\ m2.served = m.served /\ m2.whole = m.whole
  BY <1>12, ClientNumbers DEF ClientRecords, Pcs, Codes
<1>14. Moves(cl, cl', c, m2)
  BY <1>1, <1>12, <1>3, <1>4, <1>5, <1>6, <1>7 DEF Moves, ClientsInv
<1>15. PICK f2 : f2 = [f EXCEPT !.buf = b]
  OBVIOUS
<1>16. /\ f2 \in FastRecords /\ f2.buf = b /\ f2.maxV = f.maxV /\ f2.parsed = f.parsed /\ f2.keep = f.keep
       /\ f2.chunked = f.chunked /\ f2.missed = f.missed /\ f2.reuseCount = f.reuseCount
       /\ f2.connReuse = f.connReuse
       /\ f2.warned = f.warned /\ f2.rest = f.rest
  BY <1>15 DEF FastRecords, NewFast
<1>17. Moves(fast, fast', c, f2)
  BY <1>1, <1>15, <1>3, <1>4, <1>5, <1>6, <1>7 DEF Moves, ClientsInv
<1>18. ClientTyped(n2, m2, f2, e, k)
  BY <1>1, <1>10, <1>13, <1>16, <1>8 DEF ClientRight, ClientTyped
<1>19. Placed(n2, m2) /\ TriesRight(m2)
  BY <1>1, <1>2, <1>10, <1>13, <1>16 DEF ClientRight, Placed, TriesRight, ClientRecords
<1>20. Explained(m2, k)
  BY <1>1, <1>2, <1>10, <1>13, <1>16, ErrorIsNotOK DEF ClientRight, Explained, ClientRecords, MadeRecords
<1>21. conf.kind = "fast" => FastRight(n2, m2, f2)
  <2> SUFFICES FastRight(n2, m2, f2)
    OBVIOUS
  <2>1. CountsRight(m, f) /\ Reading(n, m, f) /\ (PlainKept => ~f.warned /\ f.keep)
    BY <1>1, <1>2 DEF ClientRight, FastRight
  <2>2. CountsRight(m2, f2)
    BY <2>1, <1>2, <1>13, <1>16 DEF CountsRight, Reached
  <2> SUFFICES ASSUME ~f.rest PROVE FastRight(n2, m2, f2)
    BY <2>1, <2>2, <1>1, <1>2, <1>7, <1>8, <1>13, <1>16, RestIsRight DEF ClientRight
  <2>3. f2.buf \o n2.bytes = f.buf \o n.bytes /\ n.bytes # <<>> /\ f2.buf # <<>>
    <3>1. f2.buf = b /\ n2.bytes = r /\ b \o r = h \o g
      BY <1>6, <1>10, <1>16
    <3>2. g # <<>> /\ b # <<>>
      BY <1>3, <1>4, <1>8
    <3>3. QED BY <3>1, <3>2, <1>3
  <2>4. \A a \in Answers[conf.server] : IsAnswer(a, n, m, f) => IsAnswer(a, n2, m2, f2)
    <3> SUFFICES ASSUME NEW a \in Answers[conf.server], IsAnswer(a, n, m, f) PROVE IsAnswer(a, n2, m2, f2)
      OBVIOUS
    <3>1. f2.parsed /\ f2.keep /\ ~f2.warned =>
            IF f2.chunked THEN a.framing = "chunked" /\ f2.maxV \in ChunkEnds(a) ELSE f2.maxV = Len(Bytes(a))
      BY <1>16 DEF IsAnswer
    <3>2. QED BY <2>3, <3>1, <1>13, AnswerMoves
  <2>5. ReadsAnswer(n, m, f) /\ u = (Len(b) >= 2)
    BY <2>1, <1>4, <1>5 DEF Reading
  <2>6. \E a \in Answers[conf.server] : IsAnswer(a, n, m, f)
    BY <2>3, <2>5 DEF ReadsAnswer
  <2>7. \E a \in Answers[conf.server] : IsAnswer(a, n2, m2, f2)
    BY <2>4, <2>6
  <2>12. (IF f.parsed THEN Len(f.buf) >= 2 ELSE ~f.chunked /\ f.maxV = BufferSize) /\ CodeOwn(m, f)
    BY <2>5, <1>2, Zenon DEF ReadsAnswer
  <2>13. IF m2.pc = "headers" THEN ~f.parsed /\ ~conf.http10 /\ u ELSE f.parsed \/ conf.http10 \/ ~u
    BY <1>7, <1>13
  <2>14. u <=> Len(b) >= 2
    BY <2>5
  <2>8. /\ IF f2.parsed THEN Len(f2.buf) >= 2 ELSE ~f2.chunked /\ f2.maxV = BufferSize
        /\ m2.pc = "headers" => Len(f2.buf) >= 2 /\ ~conf.http10 /\ ~f2.parsed
    BY <2>12, <2>13, <2>14, <1>8, <1>16
  <2>9. m2.pc # "headers" => CodeOwn(m2, f2)
    BY <2>12, <2>13, <2>14, <1>8, <1>13, <1>16 DEF CodeOwn
  <2>10. Reading(n2, m2, f2)
    BY <2>3, <2>7, <2>8, <2>9 DEF Reading, ReadsAnswer
  <2>11. QED BY <2>1, <2>2, <2>10, <1>2, <1>13, <1>16, <1>7 DEF FastRight
<1>22. IsEcho => EchoRight(m2, e)
  BY <1>2 DEF IsEcho
<1>23. conf.kind = "std" => StdRight(m2)
  BY <1>2
<1>24. ClientRight(n2, m2, f2, e, k)
  BY <1>18, <1>19, <1>20, <1>21, <1>22, <1>23 DEF ClientRight
<1>25. QED
  <2>1. Moves(echo, echo', c, e) /\ Moves(made, made', c, k)
    BY <1>1, <1>2, Unmoved
  <2>2. QED BY <2>1, <1>2, <1>24, <1>11, <1>14, <1>17, OneMoves

(* A read into a full buffer changes nothing.                              *)
LEMMA ReadsNothingRight ==
  ASSUME ClientsInv, NEW c \in Clients, ReadsNothing(c), UNCHANGED <<conf, echo, made>> PROVE ClientsInv'
<1>1. PICK n \in NetRecords, m \in ClientRecords, f \in FastRecords, e \in EchoRecords, k \in MadeRecords :
        /\ n = net[c] /\ m = cl[c] /\ f = fast[c] /\ e = echo[c] /\ k = made[c]
        /\ ClientRight(n, m, f, e, k)
  BY PartsOf
<1>2. /\ conf.kind = "fast" /\ m.pc = "read" /\ Len(f.buf) = BufferSize
      /\ conf' = conf /\ net' = net /\ fast' = fast /\ echo' = echo /\ made' = made
  BY <1>1, BufferAssumption DEF At, ReadsNothing, Space, FastRecords
<1>3. PICK m2 : m2 = [m EXCEPT !.pc = "body"]
  OBVIOUS
<1>4. /\ m2 \in ClientRecords /\ m2.pc = "body" /\ m2.socket = m.socket /\ m2.reused = m.reused
      /\ m2.code = m.code
      /\ m2.sockets = m.sockets /\ m2.connects = m.connects /\ m2.lookups = m.lookups
      /\ m2.unresolved = m.unresolved
      /\ m2.retries = m.retries /\ m2.tries = m.tries /\ m2.served = m.served /\ m2.whole = m.whole
  BY <1>3, ClientNumbers DEF ClientRecords, Pcs, Codes
<1>5. Moves(cl, cl', c, m2)
  BY <1>1, <1>3 DEF Moves, ClientsInv, ReadsNothing, GoesTo
<1>6. ClientTyped(n, m2, f, e, k)
  BY <1>1, <1>4 DEF ClientRight, ClientTyped
<1>7. Placed(n, m2) /\ TriesRight(m2)
  BY <1>1, <1>2, <1>4 DEF ClientRight, Placed, TriesRight, ClientRecords
<1>8. Explained(m2, k)
  BY <1>1, <1>2, <1>4, ErrorIsNotOK DEF ClientRight, Explained, ClientRecords, MadeRecords
<1>9. conf.kind = "fast" => FastRight(n, m2, f)
  <2> SUFFICES FastRight(n, m2, f)
    OBVIOUS
  <2>1. /\ CountsRight(m, f) /\ Reading(n, m, f) /\ (PlainKept => ~f.warned /\ f.keep)
        /\ (m.socket => Leftover(n, f))
    BY <1>1, <1>2 DEF ClientRight, FastRight
  <2>2. CountsRight(m2, f)
    BY <2>1, <1>2, <1>4 DEF CountsRight
  <2> SUFFICES ASSUME ~f.rest PROVE FastRight(n, m2, f)
    BY <2>1, <2>2, <1>1, <1>2, <1>4, BufferAssumption, RestIsRight DEF ClientRight
  <2>3. f.buf # <<>>
    BY <1>2, BufferAssumption
  <2>4. \A a \in Answers[conf.server] : IsAnswer(a, n, m, f) => IsAnswer(a, n, m2, f)
    BY <1>4 DEF IsAnswer
  <2>5. Reading(n, m2, f)
    BY <2>1, <2>3, <2>4, <1>2, <1>4 DEF Reading, ReadsAnswer, CodeOwn
  <2>6. QED BY <2>1, <2>2, <2>5, <1>2, <1>4 DEF FastRight
<1>10. IsEcho => EchoRight(m2, e)
  BY <1>2 DEF IsEcho
<1>11. conf.kind = "std" => StdRight(m2)
  BY <1>2
<1>12. ClientRight(n, m2, f, e, k)
  BY <1>6, <1>7, <1>8, <1>9, <1>10, <1>11 DEF ClientRight
<1>13. QED
  <2>1. /\ Moves(net, net', c, n) /\ Moves(fast, fast', c, f) /\ Moves(echo, echo', c, e)
        /\ Moves(made, made', c, k)
    BY <1>1, <1>2, Unmoved
  <2>2. QED BY <2>1, <1>2, <1>12, <1>5, OneMoves

(* The end of the stream ends the answer.                                  *)
LEMMA ReadEndsRight ==
  ASSUME ClientsInv, NEW c \in Clients, At(c, "read"), conf.kind = "fast", net[c].bytes = <<>>,
         fast[c].buf # <<>>, GoesTo(c, "end"),
         UNCHANGED <<conf, net, fast, echo, made>>
  PROVE  ClientsInv'
<1>1. PICK n \in NetRecords, m \in ClientRecords, f \in FastRecords, e \in EchoRecords, k \in MadeRecords :
        /\ n = net[c] /\ m = cl[c] /\ f = fast[c] /\ e = echo[c] /\ k = made[c]
        /\ ClientRight(n, m, f, e, k)
  BY PartsOf
<1>2. /\ conf.kind = "fast" /\ m.pc = "read" /\ n.bytes = <<>> /\ f.buf # <<>>
      /\ conf' = conf /\ net' = net /\ fast' = fast /\ echo' = echo /\ made' = made
  BY <1>1 DEF At
<1>3. PICK m2 : m2 = [m EXCEPT !.pc = "end"]
  OBVIOUS
<1>4. /\ m2 \in ClientRecords /\ m2.pc = "end" /\ m2.socket = m.socket /\ m2.reused = m.reused
      /\ m2.code = m.code
      /\ m2.sockets = m.sockets /\ m2.connects = m.connects /\ m2.lookups = m.lookups
      /\ m2.unresolved = m.unresolved
      /\ m2.retries = m.retries /\ m2.tries = m.tries /\ m2.served = m.served /\ m2.whole = m.whole
  BY <1>3, ClientNumbers DEF ClientRecords, Pcs, Codes
<1>5. Moves(cl, cl', c, m2)
  BY <1>1, <1>3 DEF Moves, ClientsInv, GoesTo
<1>6. ClientTyped(n, m2, f, e, k)
  BY <1>1, <1>4 DEF ClientRight, ClientTyped
<1>7. Placed(n, m2) /\ TriesRight(m2)
  BY <1>1, <1>2, <1>4 DEF ClientRight, Placed, TriesRight, ClientRecords
<1>8. Explained(m2, k)
  BY <1>1, <1>2, <1>4, ErrorIsNotOK DEF ClientRight, Explained, ClientRecords, MadeRecords
<1>9. conf.kind = "fast" => FastRight(n, m2, f)
  <2> SUFFICES FastRight(n, m2, f)
    OBVIOUS
  <2>1. /\ CountsRight(m, f) /\ Reading(n, m, f) /\ (PlainKept => ~f.warned /\ f.keep)
        /\ (m.socket => Leftover(n, f))
    BY <1>1, <1>2 DEF ClientRight, FastRight
  <2>2. CountsRight(m2, f)
    BY <2>1, <1>2, <1>4 DEF CountsRight
  <2> SUFFICES ASSUME ~f.rest PROVE FastRight(n, m2, f)
    BY <2>1, <2>2, <1>1, <1>2, <1>4, RestIsRight DEF ClientRight
  <2>3. Leftover(n, f) /\ (m.code = m.served \/ conf.http10 \/ Len(f.buf) < 2)
    BY <2>1, <1>2 DEF Leftover, Reading, ReadsAnswer, CodeOwn
  <2>4. QED BY <2>1, <2>2, <2>3, <1>2, <1>4 DEF FastRight, CodeOwn
<1>10. IsEcho => EchoRight(m2, e)
  BY <1>2 DEF IsEcho
<1>11. conf.kind = "std" => StdRight(m2)
  BY <1>2
<1>12. ClientRight(n, m2, f, e, k)
  BY <1>6, <1>7, <1>8, <1>9, <1>10, <1>11 DEF ClientRight
<1>13. QED
  <2>1. /\ Moves(net, net', c, n) /\ Moves(fast, fast', c, f) /\ Moves(echo, echo', c, e)
        /\ Moves(made, made', c, k)
    BY <1>1, <1>2, Unmoved
  <2>2. QED BY <2>1, <1>2, <1>12, <1>5, OneMoves

(* A reset or the deadline ends it with an error.                          *)
LEMMA ReadErrsRight ==
  ASSUME ClientsInv, NEW c \in Clients, At(c, "read"), conf.kind = "fast", net[c].bytes = <<>>,
         cl' = [cl EXCEPT ![c].pc = "end", ![c].code = SocketError],
         UNCHANGED <<conf, net, fast, echo, made>>
  PROVE  ClientsInv'
<1>1. PICK n \in NetRecords, m \in ClientRecords, f \in FastRecords, e \in EchoRecords, k \in MadeRecords :
        /\ n = net[c] /\ m = cl[c] /\ f = fast[c] /\ e = echo[c] /\ k = made[c]
        /\ ClientRight(n, m, f, e, k)
  BY PartsOf
<1>2. /\ conf.kind = "fast" /\ m.pc = "read" /\ n.bytes = <<>>
      /\ conf' = conf /\ net' = net /\ fast' = fast /\ echo' = echo /\ made' = made
  BY <1>1 DEF At
<1>3. PICK m2 : m2 = [m EXCEPT !.pc = "end", !.code = SocketError]
  OBVIOUS
<1>4. /\ m2 \in ClientRecords /\ m2.pc = "end" /\ m2.code = SocketError /\ m2.socket = m.socket
      /\ m2.reused = m.reused /\ m2.sockets = m.sockets /\ m2.connects = m.connects /\ m2.lookups = m.lookups
      /\ m2.unresolved = m.unresolved /\ m2.retries = m.retries /\ m2.tries = m.tries /\ m2.served = m.served
      /\ m2.whole = m.whole
  BY <1>3, ClientNumbers DEF ClientRecords, Pcs, Codes
<1>5. Moves(cl, cl', c, m2)
  BY <1>1, <1>3 DEF Moves, ClientsInv
<1>6. ClientTyped(n, m2, f, e, k)
  BY <1>1, <1>4 DEF ClientRight, ClientTyped
<1>7. Placed(n, m2) /\ TriesRight(m2)
  BY <1>1, <1>2, <1>4 DEF ClientRight, Placed, TriesRight, ClientRecords
<1>8. Explained(m2, k)
  BY <1>1, <1>2, <1>4, ErrorIsNotOK DEF ClientRight, Explained, ClientRecords, MadeRecords
<1>9. conf.kind = "fast" => FastRight(n, m2, f)
  <2> SUFFICES FastRight(n, m2, f)
    OBVIOUS
  <2>1. /\ CountsRight(m, f) /\ Reading(n, m, f) /\ (PlainKept => ~f.warned /\ f.keep)
        /\ (m.socket => Leftover(n, f))
    BY <1>1, <1>2 DEF ClientRight, FastRight
  <2>2. CountsRight(m2, f)
    BY <2>1, <1>2, <1>4 DEF CountsRight
  <2> SUFFICES ASSUME ~f.rest PROVE FastRight(n, m2, f)
    BY <2>1, <2>2, <1>1, <1>2, <1>4, RestIsRight DEF ClientRight
  <2>3. Leftover(n, f) /\ (m.code = m.served \/ conf.http10 \/ Len(f.buf) < 2)
    BY <2>1, <1>2 DEF Leftover, Reading, ReadsAnswer, CodeOwn
  <2>4. QED BY <2>1, <2>2, <2>3, <1>2, <1>4 DEF FastRight, CodeOwn
<1>10. IsEcho => EchoRight(m2, e)
  BY <1>2 DEF IsEcho
<1>11. conf.kind = "std" => StdRight(m2)
  BY <1>2
<1>12. ClientRight(n, m2, f, e, k)
  BY <1>6, <1>7, <1>8, <1>9, <1>10, <1>11 DEF ClientRight
<1>13. QED
  <2>1. /\ Moves(net, net', c, n) /\ Moves(fast, fast', c, f) /\ Moves(echo, echo', c, e)
        /\ Moves(made, made', c, k)
    BY <1>1, <1>2, Unmoved
  <2>2. QED BY <2>1, <1>2, <1>12, <1>5, OneMoves

(* A read that fails: one more try, or the end of the answer.              *)
LEMMA ReadFailsRight ==
  ASSUME ClientsInv, NEW c \in Clients, ReadFails(c), UNCHANGED <<conf, echo, made>> PROVE ClientsInv'
<1>1. At(c, "read") /\ conf.kind = "fast" /\ net[c].bytes = <<>>
  BY DEF ReadFails
<1>2. CASE cl[c].reused /\ fast[c].buf = <<>>
  BY <1>1, <1>2, RetriesRight DEF ReadFails
<1>3. CASE ~(cl[c].reused /\ fast[c].buf = <<>>)
  BY <1>1, <1>3, ReadEndsRight, ReadErrsRight DEF ReadFails
<1>4. QED BY <1>2, <1>3

(* What a plain server answers fits into the buffer.                       *)
LEMMA PlainFacts ==
  ASSUME conf \in Confs, PlainKept, NEW a \in Answers[conf.server]
  PROVE  /\ a.framing = "length" /\ a.close = FALSE /\ Len(Bytes(a)) < BufferSize
         /\ Len(Bytes(a)) = HeaderLen + a.parts[1]
<1>1. conf.server = "plain" /\ "plain" \in DOMAIN Answers
  BY ConfFacts DEF PlainKept
<1>2. a.framing = "length" /\ a.close = FALSE /\ Len(Bytes(a)) < BufferSize
  BY <1>1, AnswersAssumption
<1>3. Len(Bytes(a)) = 4 + Len(Body(a)) /\ Len(Body(a)) = a.parts[1]
  BY <1>1, <1>2, BytesShape, BodyShape
<1>4. QED BY <1>2, <1>3 DEF HeaderLen

(* The code that is parsed is that of the answer, unless another one comes *)
(* first.                                                                  *)
LEMMA StatusRight ==
  ASSUME conf \in Confs, NEW n, NEW m, NEW f, n.bytes \in Seq(Tokens), f.buf \in Seq(Tokens),
         Reading(n, m, f), ~f.rest => Len(f.buf) >= 2, NEW x \in StatusCodes(f)
  PROVE  /\ x \in Codes
         /\ ~f.rest => x = m.served /\ \E a \in Answers[conf.server] : IsAnswer(a, n, m, f)
<1>1. CASE f.rest
  BY <1>1, RestAssumption DEF StatusCodes, Codes, SocketError
<1>2. CASE ~f.rest
  <2>1. PICK b \in Seq(Tokens), r \in Seq(Tokens) : b = f.buf /\ r = n.bytes
    OBVIOUS
  <2>2. b # <<>> /\ 2 \in 1 .. Len(b)
    BY <2>1, <1>2
  <2>3. PICK a \in Answers[conf.server] : IsAnswer(a, n, m, f)
    BY <2>1, <2>2, <1>2 DEF Reading, ReadsAnswer
  <2>4. conf.server \in DOMAIN Answers /\ a.code \in Nat /\ m.served = a.code
    BY <2>3, ConfFacts, AnswerFacts DEF IsAnswer
  <2>5. \A i \in 1 .. Len(b) : b[i] = Bytes(a)[i]
    <3>1. Len(b \o r) <= Len(Bytes(a)) /\ b \o r = SubSeq(Bytes(a), 1, Len(b \o r))
      BY <2>1, <2>3, AnswerBegins
    <3>2. QED BY <2>4, <3>1, AnswerBuffer
  <2>6. b[2] = <<"code", a.code>>
    BY <2>2, <2>4, <2>5, BytesShape
  <2>7. x = a.code
    BY <2>1, <2>6, <1>2 DEF StatusCodes
  <2>8. QED BY <2>3, <2>4, <2>7 DEF Codes
<1>3. QED BY <1>1, <1>2

(* With the headers in the buffer, it is known which answer it is.         *)
LEMMA HeadersRight ==
  ASSUME conf \in Confs, NEW n, NEW m, NEW f, n.bytes \in Seq(Tokens), f.buf \in Seq(Tokens),
         Reading(n, m, f), ~f.rest, TRUE \in HasHeaders(f)
  PROVE  f.buf[HeaderLen - 1][2] \in Answers[conf.server] /\ IsAnswer(f.buf[HeaderLen - 1][2], n, m, f)
<1>1. PICK b \in Seq(Tokens) : b = f.buf /\ Len(b) >= 4 /\ Len(b) \in Nat
  <2>1. Len(f.buf) >= HeaderLen /\ ~f.missed
    BY Zenon DEF HasHeaders
  <2>2. QED BY <2>1 DEF HeaderLen
<1>2. PICK a \in Answers[conf.server] : IsAnswer(a, n, m, f)
  <2>1. Len(f.buf) >= 2 /\ f.buf # <<>>
    BY <1>1
  <2>2. QED BY <2>1 DEF Reading, ReadsAnswer
<1>3. conf.server \in DOMAIN Answers
  BY ConfFacts
<1>4. \A i \in 1 .. Len(b) : b[i] = Bytes(a)[i]
  <2>1. PICK r \in Seq(Tokens) : r = n.bytes
    OBVIOUS
  <2>2. Len(b \o r) <= Len(Bytes(a)) /\ b \o r = SubSeq(Bytes(a), 1, Len(b \o r))
    BY <2>1, <1>1, <1>2, AnswerBegins
  <2>3. QED BY <2>2, <1>3, AnswerBuffer
<1>5. b[3] = <<"head", a>>
  <2>1. 3 \in 1 .. Len(b)
    BY <1>1
  <2>2. QED BY <2>1, <1>3, <1>4, BytesShape
<1>6. f.buf[HeaderLen - 1][2] = a
  BY <1>1, <1>5 DEF HeaderLen
<1>7. QED BY <1>2, <1>6

(* A code that is not good, or is no number, ends the reading.             *)
LEMMA StatusBadRight ==
  ASSUME ClientsInv, NEW c \in Clients, At(c, "headers"), NEW x \in StatusCodes(fast[c]), ~CodeIsOK(x),
         NEW q \in BOOLEAN,
         cl' = [cl EXCEPT ![c].code = x, ![c].pc = "end"],
         fast' = [fast EXCEPT ![c].parsed = FALSE, ![c].missed = q],
         UNCHANGED <<conf, net, echo, made>>
  PROVE  ClientsInv'
<1>1. PICK n \in NetRecords, m \in ClientRecords, f \in FastRecords, e \in EchoRecords, k \in MadeRecords :
        /\ n = net[c] /\ m = cl[c] /\ f = fast[c] /\ e = echo[c] /\ k = made[c]
        /\ ClientRight(n, m, f, e, k)
  BY PartsOf
<1>2. /\ conf.kind = "fast" /\ m.pc = "headers" /\ m.socket = FALSE /\ conf \in Confs
      /\ conf' = conf /\ net' = net /\ echo' = echo /\ made' = made
      /\ n.bytes \in Seq(Tokens) /\ f.buf \in Seq(Tokens) /\ Len(f.buf) \in Nat
  <2>1. At(c, m.pc) /\ Placed(n, m) /\ conf \in Confs /\ m.socket \in BOOLEAN
    BY <1>1 DEF At, ClientRight, ClientRecords, ClientsInv
  <2>2. conf.kind = "fast" /\ m.socket = FALSE
    BY <2>1, <1>1 DEF At, Placed
  <2>3. n.bytes \in Stream /\ f.buf \in Seq(Tokens)
    BY DEF NetRecords, FastRecords
  <2>4. QED BY <2>1, <2>2, <2>3, <1>1 DEF At, Stream
<1>3. Reading(n, m, f) /\ f.buf # <<>> /\ (~f.rest => Len(f.buf) >= 2)
  BY <1>1, <1>2 DEF ClientRight, FastRight, Reading, ReadsAnswer
<1>4. /\ x \in Codes
      /\ ~f.rest => x = m.served /\ \E a \in Answers[conf.server] : IsAnswer(a, n, m, f)
  BY <1>1, <1>2, <1>3, StatusRight
<1>5. PICK m2 : m2 = [m EXCEPT !.code = x, !.pc = "end"]
  OBVIOUS
<1>6. /\ m2 \in ClientRecords /\ m2.pc = "end" /\ m2.code = x /\ m2.socket = m.socket /\ m2.reused = m.reused
      /\ m2.sockets = m.sockets /\ m2.connects = m.connects /\ m2.lookups = m.lookups
      /\ m2.unresolved = m.unresolved
      /\ m2.retries = m.retries /\ m2.tries = m.tries /\ m2.served = m.served /\ m2.whole = m.whole
  BY <1>5, <1>4, ClientNumbers DEF ClientRecords, Pcs, Codes
<1>7. Moves(cl, cl', c, m2)
  BY <1>1, <1>5, <1>4 DEF Moves, ClientsInv
<1>8. PICK f2 : f2 = [f EXCEPT !.parsed = FALSE, !.missed = q]
  OBVIOUS
<1>9. /\ f2 \in FastRecords /\ f2.parsed = FALSE /\ f2.missed = q /\ f2.buf = f.buf /\ f2.maxV = f.maxV
      /\ f2.keep = f.keep /\ f2.chunked = f.chunked /\ f2.reuseCount = f.reuseCount
      /\ f2.connReuse = f.connReuse
      /\ f2.warned = f.warned /\ f2.rest = f.rest
  BY <1>8, <1>2 DEF FastRecords, NewFast
<1>10. Moves(fast, fast', c, f2)
  BY <1>1, <1>8, <1>4 DEF Moves, ClientsInv
<1>11. ClientTyped(n, m2, f2, e, k)
  BY <1>1, <1>6, <1>9 DEF ClientRight, ClientTyped
<1>12. Placed(n, m2) /\ TriesRight(m2)
  BY <1>1, <1>2, <1>6, <1>9 DEF ClientRight, Placed, TriesRight, ClientRecords
<1>13. Explained(m2, k)
  BY <1>1, <1>2, <1>6, <1>9, ErrorIsNotOK DEF ClientRight, Explained, ClientRecords, MadeRecords
<1>14. conf.kind = "fast" => FastRight(n, m2, f2)
  <2> SUFFICES FastRight(n, m2, f2)
    OBVIOUS
  <2>1. CountsRight(m, f) /\ Reading(n, m, f) /\ (PlainKept => ~f.warned /\ f.keep)
    BY <1>1, <1>2 DEF ClientRight, FastRight
  <2>2. CountsRight(m2, f2)
    BY <2>1, <1>2, <1>6, <1>9 DEF CountsRight, Reached
  <2> SUFFICES ASSUME ~f.rest PROVE FastRight(n, m2, f2)
    BY <2>1, <2>2, <1>1, <1>2, <1>3, <1>6, <1>9, RestIsRight DEF ClientRight
  <2>3. f.buf # <<>>
    BY <1>2, <1>3
  <2>19. /\ ~CodeIsOK(m2.code) /\ f2.buf # <<>> /\ (m2.code = SocketError \/ m2.code = m2.served)
         /\ f2.keep = f.keep
    BY <2>3, <1>4, <1>6, <1>9
  <2>20. QED BY <2>1, <2>2, <2>19, <1>2, <1>6, <1>9 DEF FastRight, CodeOwn
<1>15. IsEcho => EchoRight(m2, e)
  BY <1>2 DEF IsEcho
<1>16. conf.kind = "std" => StdRight(m2)
  BY <1>2
<1>17. ClientRight(n, m2, f2, e, k)
  BY <1>11, <1>12, <1>13, <1>14, <1>15, <1>16 DEF ClientRight
<1>18. QED
  <2>1. Moves(net, net', c, n) /\ Moves(echo, echo', c, e) /\ Moves(made, made', c, k)
    BY <1>1, <1>2, Unmoved
  <2>2. QED BY <2>1, <1>2, <1>17, <1>7, <1>10, OneMoves

(* A good code, and no end of the headers yet: the reading goes on.        *)
LEMMA StatusOnlyRight ==
  ASSUME ClientsInv, NEW c \in Clients, At(c, "headers"), NEW x \in StatusCodes(fast[c]), CodeIsOK(x),
         NEW q \in BOOLEAN, ~fast[c].keep,
         cl' = [cl EXCEPT ![c].code = x, ![c].pc = "body"],
         fast' = [fast EXCEPT ![c].parsed = TRUE, ![c].missed = q],
         UNCHANGED <<conf, net, echo, made>>
  PROVE  ClientsInv'
<1>1. PICK n \in NetRecords, m \in ClientRecords, f \in FastRecords, e \in EchoRecords, k \in MadeRecords :
        /\ n = net[c] /\ m = cl[c] /\ f = fast[c] /\ e = echo[c] /\ k = made[c]
        /\ ClientRight(n, m, f, e, k)
  BY PartsOf
<1>2. /\ conf.kind = "fast" /\ m.pc = "headers" /\ m.socket = FALSE /\ conf \in Confs
      /\ conf' = conf /\ net' = net /\ echo' = echo /\ made' = made
      /\ n.bytes \in Seq(Tokens) /\ f.buf \in Seq(Tokens) /\ Len(f.buf) \in Nat
  <2>1. At(c, m.pc) /\ Placed(n, m) /\ conf \in Confs /\ m.socket \in BOOLEAN
    BY <1>1 DEF At, ClientRight, ClientRecords, ClientsInv
  <2>2. conf.kind = "fast" /\ m.socket = FALSE
    BY <2>1, <1>1 DEF At, Placed
  <2>3. n.bytes \in Stream /\ f.buf \in Seq(Tokens)
    BY DEF NetRecords, FastRecords
  <2>4. QED BY <2>1, <2>2, <2>3, <1>1 DEF At, Stream
<1>3. Reading(n, m, f) /\ f.buf # <<>> /\ (~f.rest => Len(f.buf) >= 2)
  BY <1>1, <1>2 DEF ClientRight, FastRight, Reading, ReadsAnswer
<1>4. /\ x \in Codes
      /\ ~f.rest => x = m.served /\ \E a \in Answers[conf.server] : IsAnswer(a, n, m, f)
  BY <1>1, <1>2, <1>3, StatusRight
<1>5. PICK m2 : m2 = [m EXCEPT !.code = x, !.pc = "body"]
  OBVIOUS
<1>6. /\ m2 \in ClientRecords /\ m2.pc = "body" /\ m2.code = x /\ m2.socket = m.socket /\ m2.reused = m.reused
      /\ m2.sockets = m.sockets /\ m2.connects = m.connects /\ m2.lookups = m.lookups
      /\ m2.unresolved = m.unresolved
      /\ m2.retries = m.retries /\ m2.tries = m.tries /\ m2.served = m.served /\ m2.whole = m.whole
  BY <1>5, <1>4, ClientNumbers DEF ClientRecords, Pcs, Codes
<1>7. Moves(cl, cl', c, m2)
  BY <1>1, <1>5, <1>4 DEF Moves, ClientsInv
<1>8. PICK f2 : f2 = [f EXCEPT !.parsed = TRUE, !.missed = q]
  OBVIOUS
<1>9. /\ f2 \in FastRecords /\ f2.parsed = TRUE /\ f2.missed = q /\ f2.buf = f.buf /\ f2.maxV = f.maxV
      /\ f2.keep = f.keep /\ f2.chunked = f.chunked /\ f2.reuseCount = f.reuseCount
      /\ f2.connReuse = f.connReuse
      /\ f2.warned = f.warned /\ f2.rest = f.rest
  BY <1>8, <1>2 DEF FastRecords, NewFast
<1>10. Moves(fast, fast', c, f2)
  BY <1>1, <1>8, <1>4 DEF Moves, ClientsInv
<1>11. ClientTyped(n, m2, f2, e, k)
  BY <1>1, <1>6, <1>9 DEF ClientRight, ClientTyped
<1>12. Placed(n, m2) /\ TriesRight(m2)
  BY <1>1, <1>2, <1>6, <1>9 DEF ClientRight, Placed, TriesRight, ClientRecords
<1>13. Explained(m2, k)
  BY <1>1, <1>2, <1>6, <1>9, ErrorIsNotOK DEF ClientRight, Explained, ClientRecords, MadeRecords
<1>14. conf.kind = "fast" => FastRight(n, m2, f2)
  <2> SUFFICES FastRight(n, m2, f2)
    OBVIOUS
  <2>1. CountsRight(m, f) /\ Reading(n, m, f) /\ (PlainKept => ~f.warned /\ f.keep)
    BY <1>1, <1>2 DEF ClientRight, FastRight
  <2>2. CountsRight(m2, f2)
    BY <2>1, <1>2, <1>6, <1>9 DEF CountsRight, Reached
  <2> SUFFICES ASSUME ~f.rest PROVE FastRight(n, m2, f2)
    BY <2>1, <2>2, <1>1, <1>2, <1>3, <1>6, <1>9, RestIsRight DEF ClientRight
  <2>3. PICK a \in Answers[conf.server] : IsAnswer(a, n, m, f)
    BY <1>4
  <2>4. ~(f2.parsed /\ f2.keep)
    BY <1>1, <1>9
  <2>5. IsAnswer(a, n, m2, f2)
    BY <2>3, <2>4, <1>6, <1>9, AnswerMoves
  <2>6. f.buf # <<>>
    BY <1>2, <1>3
  <2>7. CodeOwn(m2, f2)
    BY <1>4, <1>6 DEF CodeOwn
  <2>19. Reading(n, m2, f2)
    BY <2>1, <2>5, <2>6, <2>7, <1>2, <1>3, <1>6, <1>9 DEF Reading, ReadsAnswer
  <2>20. QED BY <2>1, <2>2, <2>19, <1>2, <1>6, <1>9 DEF FastRight
<1>15. IsEcho => EchoRight(m2, e)
  BY <1>2 DEF IsEcho
<1>16. conf.kind = "std" => StdRight(m2)
  BY <1>2
<1>17. ClientRight(n, m2, f2, e, k)
  BY <1>11, <1>12, <1>13, <1>14, <1>15, <1>16 DEF ClientRight
<1>18. QED
  <2>1. Moves(net, net', c, n) /\ Moves(echo, echo', c, e) /\ Moves(made, made', c, k)
    BY <1>1, <1>2, Unmoved
  <2>2. QED BY <2>1, <1>2, <1>17, <1>7, <1>10, OneMoves

(* A good code and all the headers, of a connection not to be kept.        *)
LEMMA StatusFirstRight ==
  ASSUME ClientsInv, NEW c \in Clients, At(c, "headers"), NEW x \in StatusCodes(fast[c]), CodeIsOK(x),
         NEW q \in BOOLEAN,
         cl' = [cl EXCEPT ![c].code = x, ![c].pc = "body"],
         fast' = [fast EXCEPT ![c].parsed = FALSE, ![c].missed = q],
         UNCHANGED <<conf, net, echo, made>>
  PROVE  ClientsInv'
<1>1. PICK n \in NetRecords, m \in ClientRecords, f \in FastRecords, e \in EchoRecords, k \in MadeRecords :
        /\ n = net[c] /\ m = cl[c] /\ f = fast[c] /\ e = echo[c] /\ k = made[c]
        /\ ClientRight(n, m, f, e, k)
  BY PartsOf
<1>2. /\ conf.kind = "fast" /\ m.pc = "headers" /\ m.socket = FALSE /\ conf \in Confs
      /\ conf' = conf /\ net' = net /\ echo' = echo /\ made' = made
      /\ n.bytes \in Seq(Tokens) /\ f.buf \in Seq(Tokens) /\ Len(f.buf) \in Nat
  <2>1. At(c, m.pc) /\ Placed(n, m) /\ conf \in Confs /\ m.socket \in BOOLEAN
    BY <1>1 DEF At, ClientRight, ClientRecords, ClientsInv
  <2>2. conf.kind = "fast" /\ m.socket = FALSE
    BY <2>1, <1>1 DEF At, Placed
  <2>3. n.bytes \in Stream /\ f.buf \in Seq(Tokens)
    BY DEF NetRecords, FastRecords
  <2>4. QED BY <2>1, <2>2, <2>3, <1>1 DEF At, Stream
<1>3. Reading(n, m, f) /\ f.buf # <<>> /\ (~f.rest => Len(f.buf) >= 2)
  BY <1>1, <1>2 DEF ClientRight, FastRight, Reading, ReadsAnswer
<1>4. /\ x \in Codes
      /\ ~f.rest => x = m.served /\ \E a \in Answers[conf.server] : IsAnswer(a, n, m, f)
  BY <1>1, <1>2, <1>3, StatusRight
<1>5. PICK m2 : m2 = [m EXCEPT !.code = x, !.pc = "body"]
  OBVIOUS
<1>6. /\ m2 \in ClientRecords /\ m2.pc = "body" /\ m2.code = x /\ m2.socket = m.socket /\ m2.reused = m.reused
      /\ m2.sockets = m.sockets /\ m2.connects = m.connects /\ m2.lookups = m.lookups
      /\ m2.unresolved = m.unresolved
      /\ m2.retries = m.retries /\ m2.tries = m.tries /\ m2.served = m.served /\ m2.whole = m.whole
  BY <1>5, <1>4, ClientNumbers DEF ClientRecords, Pcs, Codes
<1>7. Moves(cl, cl', c, m2)
  BY <1>1, <1>5, <1>4 DEF Moves, ClientsInv
<1>8. PICK f2 : f2 = [f EXCEPT !.parsed = FALSE, !.missed = q]
  OBVIOUS
<1>9. /\ f2 \in FastRecords /\ f2.parsed = FALSE /\ f2.missed = q /\ f2.buf = f.buf /\ f2.maxV = f.maxV
      /\ f2.keep = f.keep /\ f2.chunked = f.chunked /\ f2.reuseCount = f.reuseCount
      /\ f2.connReuse = f.connReuse
      /\ f2.warned = f.warned /\ f2.rest = f.rest
  BY <1>8, <1>2 DEF FastRecords, NewFast
<1>10. Moves(fast, fast', c, f2)
  BY <1>1, <1>8, <1>4 DEF Moves, ClientsInv
<1>11. ClientTyped(n, m2, f2, e, k)
  BY <1>1, <1>6, <1>9 DEF ClientRight, ClientTyped
<1>12. Placed(n, m2) /\ TriesRight(m2)
  BY <1>1, <1>2, <1>6, <1>9 DEF ClientRight, Placed, TriesRight, ClientRecords
<1>13. Explained(m2, k)
  BY <1>1, <1>2, <1>6, <1>9, ErrorIsNotOK DEF ClientRight, Explained, ClientRecords, MadeRecords
<1>14. conf.kind = "fast" => FastRight(n, m2, f2)
  <2> SUFFICES FastRight(n, m2, f2)
    OBVIOUS
  <2>1. CountsRight(m, f) /\ Reading(n, m, f) /\ (PlainKept => ~f.warned /\ f.keep)
    BY <1>1, <1>2 DEF ClientRight, FastRight
  <2>2. CountsRight(m2, f2)
    BY <2>1, <1>2, <1>6, <1>9 DEF CountsRight, Reached
  <2> SUFFICES ASSUME ~f.rest PROVE FastRight(n, m2, f2)
    BY <2>1, <2>2, <1>1, <1>2, <1>3, <1>6, <1>9, RestIsRight DEF ClientRight
  <2>3. PICK a \in Answers[conf.server] : IsAnswer(a, n, m, f)
    BY <1>4
  <2>4. ~(f2.parsed /\ f2.keep)
    BY <1>1, <1>9
  <2>5. IsAnswer(a, n, m2, f2)
    BY <2>3, <2>4, <1>6, <1>9, AnswerMoves
  <2>6. f.buf # <<>>
    BY <1>2, <1>3
  <2>7. CodeOwn(m2, f2)
    BY <1>4, <1>6 DEF CodeOwn
  <2>19. Reading(n, m2, f2)
    BY <2>1, <2>5, <2>6, <2>7, <1>2, <1>3, <1>6, <1>9 DEF Reading, ReadsAnswer
  <2>20. QED BY <2>1, <2>2, <2>19, <1>2, <1>6, <1>9 DEF FastRight
<1>15. IsEcho => EchoRight(m2, e)
  BY <1>2 DEF IsEcho
<1>16. conf.kind = "std" => StdRight(m2)
  BY <1>2
<1>17. ClientRight(n, m2, f2, e, k)
  BY <1>11, <1>12, <1>13, <1>14, <1>15, <1>16 DEF ClientRight
<1>18. QED
  <2>1. Moves(net, net', c, n) /\ Moves(echo, echo', c, e) /\ Moves(made, made', c, k)
    BY <1>1, <1>2, Unmoved
  <2>2. QED BY <2>1, <1>2, <1>17, <1>7, <1>10, OneMoves

(* The code that is parsed is that of this answer.                         *)
LEMMA ParseStatusRight ==
  ASSUME ClientsInv, NEW c \in Clients, ParseStatus(c), UNCHANGED <<conf, echo, made>> PROVE ClientsInv'
<1>1. PICK x \in StatusCodes(fast[c]), h \in HasHeaders(fast[c]), q \in BOOLEAN :
        /\ q = (Len(fast[c].buf) >= HeaderLen - 1)
        /\ ~CodeIsOK(x) \/ ~h \/ ~fast[c].keep
        /\ cl' = [cl EXCEPT ![c].code = x, ![c].pc = IF CodeIsOK(x) THEN "body" ELSE "end"]
        /\ fast' = [fast EXCEPT ![c].parsed = CodeIsOK(x) /\ h, ![c].missed = q]
  <2>1. PICK q \in BOOLEAN : q = (Len(fast[c].buf) >= HeaderLen - 1)
    <3>1. PICK l \in Nat : l = Len(fast[c].buf)
      BY PartsOf DEF FastRecords
    <3>2. (l >= HeaderLen - 1) \in BOOLEAN
      BY DEF HeaderLen
    <3>3. QED BY <3>1, <3>2, Zenon
  <2>2. QED BY <2>1 DEF ParseStatus
<1>2. At(c, "headers") /\ UNCHANGED <<conf, net, echo, made>>
  BY DEF ParseStatus
<1>3. CASE ~CodeIsOK(x)
  <2>1. (CodeIsOK(x) /\ h) = FALSE
    BY <1>3
  <2>2. QED BY <2>1, <1>1, <1>2, <1>3, StatusBadRight
<1>4. CASE CodeIsOK(x) /\ h
  <2>1. (CodeIsOK(x) /\ h) = TRUE
    BY <1>4
  <2>2. QED BY <2>1, <1>1, <1>2, <1>4, StatusOnlyRight
<1>5. CASE CodeIsOK(x) /\ ~h
  <2>1. (CodeIsOK(x) /\ h) = FALSE
    BY <1>5
  <2>2. QED BY <2>1, <1>1, <1>2, <1>5, StatusFirstRight
<1>6. QED BY <1>3, <1>4, <1>5

(* The headers say where the answer ends, or its first chunk.              *)
LEMMA LengthRight ==
  ASSUME ClientsInv, NEW c \in Clients, At(c, "headers"), NEW a \in Answers[conf.server],
         ~fast[c].rest, IsAnswer(a, net[c], cl[c], fast[c]),
         fast[c].keep, NEW need \in Nat,
         ~(conf.checkClose /\ a.close) /\ need <= BufferSize =>
           need = Len(Bytes(a)),
         PlainKept => need <= BufferSize,
         cl' = [cl EXCEPT ![c].code = a.code, ![c].pc = "body"],
         fast' = [fast EXCEPT ![c] = Framed(fast[c], a.close, need, FALSE)], UNCHANGED <<conf, net, echo, made>>
  PROVE  ClientsInv'
<1>1. PICK n \in NetRecords, m \in ClientRecords, f \in FastRecords, e \in EchoRecords, k \in MadeRecords :
        /\ n = net[c] /\ m = cl[c] /\ f = fast[c] /\ e = echo[c] /\ k = made[c]
        /\ ClientRight(n, m, f, e, k)
  BY PartsOf
<1>2. /\ conf.kind = "fast" /\ m.pc = "headers" /\ m.socket = FALSE /\ conf \in Confs
      /\ conf' = conf /\ net' = net /\ echo' = echo /\ made' = made
      /\ n.bytes \in Seq(Tokens) /\ f.buf \in Seq(Tokens) /\ Len(f.buf) \in Nat /\ ~f.rest
  <2>1. At(c, m.pc) /\ Placed(n, m) /\ conf \in Confs /\ m.socket \in BOOLEAN
    BY <1>1 DEF At, ClientRight, ClientRecords, ClientsInv
  <2>2. conf.kind = "fast" /\ m.socket = FALSE
    BY <2>1, <1>1 DEF At, Placed
  <2>3. n.bytes \in Stream /\ f.buf \in Seq(Tokens)
    BY DEF NetRecords, FastRecords
  <2>4. QED BY <2>1, <2>2, <2>3, <1>1 DEF At, Stream
<1>3. PICK y \in Codes : y = a.code /\ y = m.served
  <2>1. a.code \in Nat
    BY <1>2, ConfFacts, AnswerFacts
  <2>2. m.served = a.code
    BY <1>1, AnswerBegins
  <2>3. QED BY <2>1, <2>2 DEF Codes
<1>4. PICK m2 : m2 = [m EXCEPT !.code = y, !.pc = "body"]
  OBVIOUS
<1>5. /\ m2 \in ClientRecords /\ m2.pc = "body" /\ m2.code = y /\ m2.socket = m.socket /\ m2.reused = m.reused
      /\ m2.sockets = m.sockets /\ m2.connects = m.connects /\ m2.lookups = m.lookups
      /\ m2.unresolved = m.unresolved
      /\ m2.retries = m.retries /\ m2.tries = m.tries /\ m2.served = m.served /\ m2.whole = m.whole
  BY <1>4, <1>3, ClientNumbers DEF ClientRecords, Pcs, Codes
<1>6. Moves(cl, cl', c, m2)
  BY <1>1, <1>4, <1>3 DEF Moves, ClientsInv
<1>7. PICK f2 : f2 = Framed(f, a.close, need, FALSE)
  OBVIOUS
<1>8. /\ f2 \in FastRecords
      /\ f2.maxV = (IF (conf.checkClose /\ a.close) \/ need > BufferSize THEN BufferSize ELSE need)
      /\ f2.parsed = TRUE /\ f2.keep = (~(conf.checkClose /\ a.close)) /\ f2.chunked = FALSE
      /\ f2.warned = (f.warned \/ need > BufferSize) /\ f2.buf = f.buf /\ f2.missed = f.missed /\ f2.rest = f.rest
      /\ f2.reuseCount = f.reuseCount /\ f2.connReuse = f.connReuse
  <2>1. PICK q \in BOOLEAN, w \in BOOLEAN, v \in Nat :
          /\ q = (~(conf.checkClose /\ a.close)) /\ w = (f.warned \/ need > BufferSize)
          /\ v = IF (conf.checkClose /\ a.close) \/ need > BufferSize THEN BufferSize ELSE need
    BY BufferAssumption
  <2>2. f2 = [f EXCEPT !.parsed = TRUE, !.chunked = FALSE, !.keep = q, !.warned = w, !.maxV = v]
    BY <2>1, <1>7 DEF Framed
  <2>3. PICK f1 : f1 = [f EXCEPT !.parsed = TRUE, !.maxV = v]
    OBVIOUS
  <2>4. f1 \in FastRecords
    BY <2>3 DEF FastRecords
  <2>5. f2 = [f1 EXCEPT !.chunked = FALSE, !.keep = q, !.warned = w]
    BY <2>2, <2>3 DEF FastRecords
  <2>6. f2 \in FastRecords
    BY <2>4, <2>5 DEF FastRecords
  <2>7. /\ f2.parsed = TRUE /\ f2.chunked = FALSE /\ f2.keep = q /\ f2.warned = w /\ f2.maxV = v
        /\ f2.buf = f.buf /\ f2.missed = f.missed /\ f2.reuseCount = f.reuseCount /\ f2.connReuse = f.connReuse
        /\ f2.rest = f.rest
    BY <2>2 DEF FastRecords
  <2>8. QED BY <2>1, <2>6, <2>7
<1>9. Moves(fast, fast', c, f2)
  BY <1>1, <1>7, <1>3 DEF Moves, ClientsInv
<1>10. ClientTyped(n, m2, f2, e, k)
  BY <1>1, <1>5, <1>8 DEF ClientRight, ClientTyped
<1>11. Placed(n, m2) /\ TriesRight(m2)
  BY <1>1, <1>2, <1>5, <1>8 DEF ClientRight, Placed, TriesRight, ClientRecords
<1>12. Explained(m2, k)
  BY <1>1, <1>2, <1>5, <1>8, ErrorIsNotOK DEF ClientRight, Explained, ClientRecords, MadeRecords
<1>13. conf.kind = "fast" => FastRight(n, m2, f2)
  <2> SUFFICES FastRight(n, m2, f2)
    OBVIOUS
  <2>1. CountsRight(m, f) /\ Reading(n, m, f) /\ (PlainKept => ~f.warned /\ f.keep)
    BY <1>1, <1>2 DEF ClientRight, FastRight
  <2>2. CountsRight(m2, f2)
    BY <2>1, <1>2, <1>5, <1>8 DEF CountsRight, Reached
  <2>3. IsAnswer(a, n, m2, f2)
    <3>1. f2.parsed /\ f2.keep /\ ~f2.warned =>
            IF f2.chunked THEN a.framing = "chunked" /\ f2.maxV \in ChunkEnds(a) ELSE f2.maxV = Len(Bytes(a))
      <4> SUFFICES ASSUME f2.keep, ~f2.warned
                   PROVE  IF f2.chunked THEN a.framing = "chunked" /\ f2.maxV \in ChunkEnds(a) ELSE f2.maxV = Len(Bytes(a))
        OBVIOUS
      <4>1. ~(conf.checkClose /\ a.close) /\ ~(need > BufferSize)
        BY <1>8
      <4>2. f2.maxV = need /\ need <= BufferSize
        BY <4>1, <1>8, BufferAssumption
      <4>3. QED BY <4>1, <4>2, <1>8
    <3>2. QED BY <3>1, <1>1, <1>5, <1>8, AnswerMoves
  <2>4. f2.buf # <<>> /\ Len(f2.buf) >= 2
    BY <2>1, <1>2, <1>8 DEF Reading, ReadsAnswer
  <2>5. CodeOwn(m2, f2)
    BY <1>3, <1>5 DEF CodeOwn
  <2>6. PlainKept => ~f2.warned /\ f2.keep
    <3>1. PlainKept => a.close = FALSE
      BY <1>2, PlainFacts
    <3>2. PlainKept => ~(need > BufferSize)
      BY BufferAssumption
    <3>3. QED BY <3>1, <3>2, <2>1, <1>8
  <2>19. Reading(n, m2, f2)
    BY <2>3, <2>4, <2>5, <1>5, <1>8 DEF Reading, ReadsAnswer
  <2>20. QED BY <2>1, <2>2, <2>6, <2>19, <1>2, <1>5, <1>8 DEF FastRight
<1>14. IsEcho => EchoRight(m2, e)
  BY <1>2 DEF IsEcho
<1>15. conf.kind = "std" => StdRight(m2)
  BY <1>2
<1>16. ClientRight(n, m2, f2, e, k)
  BY <1>10, <1>11, <1>12, <1>13, <1>14, <1>15 DEF ClientRight
<1>17. QED
  <2>1. Moves(net, net', c, n) /\ Moves(echo, echo', c, e) /\ Moves(made, made', c, k)
    BY <1>1, <1>2, Unmoved
  <2>2. QED BY <2>1, <1>2, <1>16, <1>6, <1>9, OneMoves

(* The headers say where the answer ends, or its first chunk.              *)
LEMMA ChunkedRight ==
  ASSUME ClientsInv, NEW c \in Clients, At(c, "headers"), NEW a \in Answers[conf.server],
         ~fast[c].rest, IsAnswer(a, net[c], cl[c], fast[c]),
         fast[c].keep, NEW need \in Nat,
         ~(conf.checkClose /\ a.close) /\ need <= BufferSize =>
           a.framing = "chunked" /\ need \in ChunkEnds(a),
         PlainKept => need <= BufferSize,
         cl' = [cl EXCEPT ![c].code = a.code, ![c].pc = "body"],
         fast' = [fast EXCEPT ![c] = Framed(fast[c], a.close, need, TRUE)], UNCHANGED <<conf, net, echo, made>>
  PROVE  ClientsInv'
<1>1. PICK n \in NetRecords, m \in ClientRecords, f \in FastRecords, e \in EchoRecords, k \in MadeRecords :
        /\ n = net[c] /\ m = cl[c] /\ f = fast[c] /\ e = echo[c] /\ k = made[c]
        /\ ClientRight(n, m, f, e, k)
  BY PartsOf
<1>2. /\ conf.kind = "fast" /\ m.pc = "headers" /\ m.socket = FALSE /\ conf \in Confs
      /\ conf' = conf /\ net' = net /\ echo' = echo /\ made' = made
      /\ n.bytes \in Seq(Tokens) /\ f.buf \in Seq(Tokens) /\ Len(f.buf) \in Nat /\ ~f.rest
  <2>1. At(c, m.pc) /\ Placed(n, m) /\ conf \in Confs /\ m.socket \in BOOLEAN
    BY <1>1 DEF At, ClientRight, ClientRecords, ClientsInv
  <2>2. conf.kind = "fast" /\ m.socket = FALSE
    BY <2>1, <1>1 DEF At, Placed
  <2>3. n.bytes \in Stream /\ f.buf \in Seq(Tokens)
    BY DEF NetRecords, FastRecords
  <2>4. QED BY <2>1, <2>2, <2>3, <1>1 DEF At, Stream
<1>3. PICK y \in Codes : y = a.code /\ y = m.served
  <2>1. a.code \in Nat
    BY <1>2, ConfFacts, AnswerFacts
  <2>2. m.served = a.code
    BY <1>1, AnswerBegins
  <2>3. QED BY <2>1, <2>2 DEF Codes
<1>4. PICK m2 : m2 = [m EXCEPT !.code = y, !.pc = "body"]
  OBVIOUS
<1>5. /\ m2 \in ClientRecords /\ m2.pc = "body" /\ m2.code = y /\ m2.socket = m.socket /\ m2.reused = m.reused
      /\ m2.sockets = m.sockets /\ m2.connects = m.connects /\ m2.lookups = m.lookups
      /\ m2.unresolved = m.unresolved
      /\ m2.retries = m.retries /\ m2.tries = m.tries /\ m2.served = m.served /\ m2.whole = m.whole
  BY <1>4, <1>3, ClientNumbers DEF ClientRecords, Pcs, Codes
<1>6. Moves(cl, cl', c, m2)
  BY <1>1, <1>4, <1>3 DEF Moves, ClientsInv
<1>7. PICK f2 : f2 = Framed(f, a.close, need, TRUE)
  OBVIOUS
<1>8. /\ f2 \in FastRecords
      /\ f2.maxV = (IF (conf.checkClose /\ a.close) \/ need > BufferSize THEN BufferSize ELSE need)
      /\ f2.parsed = TRUE /\ f2.keep = (~(conf.checkClose /\ a.close)) /\ f2.chunked = TRUE
      /\ f2.warned = (f.warned \/ need > BufferSize) /\ f2.buf = f.buf /\ f2.missed = f.missed /\ f2.rest = f.rest
      /\ f2.reuseCount = f.reuseCount /\ f2.connReuse = f.connReuse
  <2>1. PICK q \in BOOLEAN, w \in BOOLEAN, v \in Nat :
          /\ q = (~(conf.checkClose /\ a.close)) /\ w = (f.warned \/ need > BufferSize)
          /\ v = IF (conf.checkClose /\ a.close) \/ need > BufferSize THEN BufferSize ELSE need
    BY BufferAssumption
  <2>2. f2 = [f EXCEPT !.parsed = TRUE, !.chunked = TRUE, !.keep = q, !.warned = w, !.maxV = v]
    BY <2>1, <1>7 DEF Framed
  <2>3. PICK f1 : f1 = [f EXCEPT !.parsed = TRUE, !.maxV = v]
    OBVIOUS
  <2>4. f1 \in FastRecords
    BY <2>3 DEF FastRecords
  <2>5. f2 = [f1 EXCEPT !.chunked = TRUE, !.keep = q, !.warned = w]
    BY <2>2, <2>3 DEF FastRecords
  <2>6. f2 \in FastRecords
    BY <2>4, <2>5 DEF FastRecords
  <2>7. /\ f2.parsed = TRUE /\ f2.chunked = TRUE /\ f2.keep = q /\ f2.warned = w /\ f2.maxV = v
        /\ f2.buf = f.buf /\ f2.missed = f.missed /\ f2.reuseCount = f.reuseCount /\ f2.connReuse = f.connReuse
        /\ f2.rest = f.rest
    BY <2>2 DEF FastRecords
  <2>8. QED BY <2>1, <2>6, <2>7
<1>9. Moves(fast, fast', c, f2)
  BY <1>1, <1>7, <1>3 DEF Moves, ClientsInv
<1>10. ClientTyped(n, m2, f2, e, k)
  BY <1>1, <1>5, <1>8 DEF ClientRight, ClientTyped
<1>11. Placed(n, m2) /\ TriesRight(m2)
  BY <1>1, <1>2, <1>5, <1>8 DEF ClientRight, Placed, TriesRight, ClientRecords
<1>12. Explained(m2, k)
  BY <1>1, <1>2, <1>5, <1>8, ErrorIsNotOK DEF ClientRight, Explained, ClientRecords, MadeRecords
<1>13. conf.kind = "fast" => FastRight(n, m2, f2)
  <2> SUFFICES FastRight(n, m2, f2)
    OBVIOUS
  <2>1. CountsRight(m, f) /\ Reading(n, m, f) /\ (PlainKept => ~f.warned /\ f.keep)
    BY <1>1, <1>2 DEF ClientRight, FastRight
  <2>2. CountsRight(m2, f2)
    BY <2>1, <1>2, <1>5, <1>8 DEF CountsRight, Reached
  <2>3. IsAnswer(a, n, m2, f2)
    <3>1. f2.parsed /\ f2.keep /\ ~f2.warned =>
            IF f2.chunked THEN a.framing = "chunked" /\ f2.maxV \in ChunkEnds(a) ELSE f2.maxV = Len(Bytes(a))
      <4> SUFFICES ASSUME f2.keep, ~f2.warned
                   PROVE  IF f2.chunked THEN a.framing = "chunked" /\ f2.maxV \in ChunkEnds(a) ELSE f2.maxV = Len(Bytes(a))
        OBVIOUS
      <4>1. ~(conf.checkClose /\ a.close) /\ ~(need > BufferSize)
        BY <1>8
      <4>2. f2.maxV = need /\ need <= BufferSize
        BY <4>1, <1>8, BufferAssumption
      <4>3. QED BY <4>1, <4>2, <1>8
    <3>2. QED BY <3>1, <1>1, <1>5, <1>8, AnswerMoves
  <2>4. f2.buf # <<>> /\ Len(f2.buf) >= 2
    BY <2>1, <1>2, <1>8 DEF Reading, ReadsAnswer
  <2>5. CodeOwn(m2, f2)
    BY <1>3, <1>5 DEF CodeOwn
  <2>6. PlainKept => ~f2.warned /\ f2.keep
    <3>1. PlainKept => a.close = FALSE
      BY <1>2, PlainFacts
    <3>2. PlainKept => ~(need > BufferSize)
      BY BufferAssumption
    <3>3. QED BY <3>1, <3>2, <2>1, <1>8
  <2>19. Reading(n, m2, f2)
    BY <2>3, <2>4, <2>5, <1>5, <1>8 DEF Reading, ReadsAnswer
  <2>20. QED BY <2>1, <2>2, <2>6, <2>19, <1>2, <1>5, <1>8 DEF FastRight
<1>14. IsEcho => EchoRight(m2, e)
  BY <1>2 DEF IsEcho
<1>15. conf.kind = "std" => StdRight(m2)
  BY <1>2
<1>16. ClientRight(n, m2, f2, e, k)
  BY <1>10, <1>11, <1>12, <1>13, <1>14, <1>15 DEF ClientRight
<1>17. QED
  <2>1. Moves(net, net', c, n) /\ Moves(echo, echo', c, e) /\ Moves(made, made', c, k)
    BY <1>1, <1>2, Unmoved
  <2>2. QED BY <2>1, <1>2, <1>16, <1>6, <1>9, OneMoves

(* The headers of an answer in chunks, without the first one.              *)
LEMMA NoSizeRight ==
  ASSUME ClientsInv, NEW c \in Clients, At(c, "headers"), NEW a \in Answers[conf.server],
         ~fast[c].rest, IsAnswer(a, net[c], cl[c], fast[c]),
         a.framing = "chunked", cl' = [cl EXCEPT ![c].code = a.code, ![c].pc = "read"],
         fast' = [fast EXCEPT ![c].parsed = TRUE, ![c].chunked = TRUE, ![c].maxV = HeaderLen],
         UNCHANGED <<conf, net, echo, made>>
  PROVE  ClientsInv'
<1>1. PICK n \in NetRecords, m \in ClientRecords, f \in FastRecords, e \in EchoRecords, k \in MadeRecords :
        /\ n = net[c] /\ m = cl[c] /\ f = fast[c] /\ e = echo[c] /\ k = made[c]
        /\ ClientRight(n, m, f, e, k)
  BY PartsOf
<1>2. /\ conf.kind = "fast" /\ m.pc = "headers" /\ m.socket = FALSE /\ conf \in Confs
      /\ conf' = conf /\ net' = net /\ echo' = echo /\ made' = made
      /\ n.bytes \in Seq(Tokens) /\ f.buf \in Seq(Tokens) /\ Len(f.buf) \in Nat /\ ~f.rest
  <2>1. At(c, m.pc) /\ Placed(n, m) /\ conf \in Confs /\ m.socket \in BOOLEAN
    BY <1>1 DEF At, ClientRight, ClientRecords, ClientsInv
  <2>2. conf.kind = "fast" /\ m.socket = FALSE
    BY <2>1, <1>1 DEF At, Placed
  <2>3. n.bytes \in Stream /\ f.buf \in Seq(Tokens)
    BY DEF NetRecords, FastRecords
  <2>4. QED BY <2>1, <2>2, <2>3, <1>1 DEF At, Stream
<1>3. PICK y \in Codes : y = a.code /\ y = m.served
  <2>1. a.code \in Nat
    BY <1>2, ConfFacts, AnswerFacts
  <2>2. m.served = a.code
    BY <1>1, AnswerBegins
  <2>3. QED BY <2>1, <2>2 DEF Codes
<1>4. HeaderLen \in Nat /\ HeaderLen \in ChunkEnds(a)
  BY DEF HeaderLen, ChunkEnds
<1>5. PICK m2 : m2 = [m EXCEPT !.code = y, !.pc = "read"]
  OBVIOUS
<1>6. /\ m2 \in ClientRecords /\ m2.pc = "read" /\ m2.code = y /\ m2.socket = m.socket /\ m2.reused = m.reused
      /\ m2.sockets = m.sockets /\ m2.connects = m.connects /\ m2.lookups = m.lookups
      /\ m2.unresolved = m.unresolved
      /\ m2.retries = m.retries /\ m2.tries = m.tries /\ m2.served = m.served /\ m2.whole = m.whole
  BY <1>5, <1>3, ClientNumbers DEF ClientRecords, Pcs, Codes
<1>7. Moves(cl, cl', c, m2)
  BY <1>1, <1>5, <1>3 DEF Moves, ClientsInv
<1>8. PICK f2 : f2 = [f EXCEPT !.parsed = TRUE, !.chunked = TRUE, !.maxV = HeaderLen]
  OBVIOUS
<1>9. /\ f2 \in FastRecords /\ f2.maxV = HeaderLen /\ f2.parsed = TRUE /\ f2.chunked = TRUE /\ f2.buf = f.buf
      /\ f2.keep = f.keep /\ f2.missed = f.missed /\ f2.reuseCount = f.reuseCount /\ f2.connReuse = f.connReuse
      /\ f2.warned = f.warned /\ f2.rest = f.rest
  BY <1>8, <1>4 DEF FastRecords, NewFast
<1>10. Moves(fast, fast', c, f2)
  BY <1>1, <1>8, <1>3 DEF Moves, ClientsInv
<1>11. ClientTyped(n, m2, f2, e, k)
  BY <1>1, <1>6, <1>9 DEF ClientRight, ClientTyped
<1>12. Placed(n, m2) /\ TriesRight(m2)
  BY <1>1, <1>2, <1>6, <1>9 DEF ClientRight, Placed, TriesRight, ClientRecords
<1>13. Explained(m2, k)
  BY <1>1, <1>2, <1>6, <1>9, ErrorIsNotOK DEF ClientRight, Explained, ClientRecords, MadeRecords
<1>14. conf.kind = "fast" => FastRight(n, m2, f2)
  <2> SUFFICES FastRight(n, m2, f2)
    OBVIOUS
  <2>1. CountsRight(m, f) /\ Reading(n, m, f) /\ (PlainKept => ~f.warned /\ f.keep)
    BY <1>1, <1>2 DEF ClientRight, FastRight
  <2>2. CountsRight(m2, f2)
    BY <2>1, <1>2, <1>6, <1>9 DEF CountsRight, Reached
  <2>3. IsAnswer(a, n, m2, f2)
    <3>1. f2.buf \o n.bytes = f.buf \o n.bytes
      BY <1>9
    <3>2. IF f2.chunked THEN a.framing = "chunked" /\ f2.maxV \in ChunkEnds(a) ELSE f2.maxV = Len(Bytes(a))
      BY <1>4, <1>9
    <3>3. QED BY <1>1, <1>6, <3>1, <3>2, AnswerMoves
  <2>4. f2.buf # <<>> /\ Len(f2.buf) >= 2
    BY <2>1, <1>2, <1>9 DEF Reading, ReadsAnswer
  <2>5. CodeOwn(m2, f2)
    BY <1>3, <1>6 DEF CodeOwn
  <2>19. Reading(n, m2, f2)
    BY <2>3, <2>4, <2>5, <1>6, <1>9 DEF Reading, ReadsAnswer
  <2>20. QED BY <2>1, <2>2, <2>19, <1>2, <1>6, <1>9 DEF FastRight
<1>15. IsEcho => EchoRight(m2, e)
  BY <1>2 DEF IsEcho
<1>16. conf.kind = "std" => StdRight(m2)
  BY <1>2
<1>17. ClientRight(n, m2, f2, e, k)
  BY <1>11, <1>12, <1>13, <1>14, <1>15, <1>16 DEF ClientRight
<1>18. QED
  <2>1. Moves(net, net', c, n) /\ Moves(echo, echo', c, e) /\ Moves(made, made', c, k)
    BY <1>1, <1>2, Unmoved
  <2>2. QED BY <2>1, <1>2, <1>17, <1>7, <1>10, OneMoves

(* The headers of an answer of no known length: the connection is not      *)
(* kept.                                                                   *)
LEMMA NoLengthRight ==
  ASSUME ClientsInv, NEW c \in Clients, At(c, "headers"), NEW a \in Answers[conf.server],
         ~fast[c].rest, IsAnswer(a, net[c], cl[c], fast[c]),
         a.framing \in {"none", "bad"}, cl' = [cl EXCEPT ![c].code = a.code, ![c].pc = "end"],
         fast' = [fast EXCEPT ![c].parsed = TRUE, ![c].keep = FALSE], UNCHANGED <<conf, net, echo, made>>
  PROVE  ClientsInv'
<1>1. PICK n \in NetRecords, m \in ClientRecords, f \in FastRecords, e \in EchoRecords, k \in MadeRecords :
        /\ n = net[c] /\ m = cl[c] /\ f = fast[c] /\ e = echo[c] /\ k = made[c]
        /\ ClientRight(n, m, f, e, k)
  BY PartsOf
<1>2. /\ conf.kind = "fast" /\ m.pc = "headers" /\ m.socket = FALSE /\ conf \in Confs
      /\ conf' = conf /\ net' = net /\ echo' = echo /\ made' = made
      /\ n.bytes \in Seq(Tokens) /\ f.buf \in Seq(Tokens) /\ Len(f.buf) \in Nat /\ ~f.rest
  <2>1. At(c, m.pc) /\ Placed(n, m) /\ conf \in Confs /\ m.socket \in BOOLEAN
    BY <1>1 DEF At, ClientRight, ClientRecords, ClientsInv
  <2>2. conf.kind = "fast" /\ m.socket = FALSE
    BY <2>1, <1>1 DEF At, Placed
  <2>3. n.bytes \in Stream /\ f.buf \in Seq(Tokens)
    BY DEF NetRecords, FastRecords
  <2>4. QED BY <2>1, <2>2, <2>3, <1>1 DEF At, Stream
<1>3. PICK y \in Codes : y = a.code /\ y = m.served
  <2>1. a.code \in Nat
    BY <1>2, ConfFacts, AnswerFacts
  <2>2. m.served = a.code
    BY <1>1, AnswerBegins
  <2>3. QED BY <2>1, <2>2 DEF Codes
<1>4. PICK m2 : m2 = [m EXCEPT !.code = y, !.pc = "end"]
  OBVIOUS
<1>5. /\ m2 \in ClientRecords /\ m2.pc = "end" /\ m2.code = y /\ m2.socket = m.socket /\ m2.reused = m.reused
      /\ m2.sockets = m.sockets /\ m2.connects = m.connects /\ m2.lookups = m.lookups
      /\ m2.unresolved = m.unresolved
      /\ m2.retries = m.retries /\ m2.tries = m.tries /\ m2.served = m.served /\ m2.whole = m.whole
  BY <1>4, <1>3, ClientNumbers DEF ClientRecords, Pcs, Codes
<1>6. Moves(cl, cl', c, m2)
  BY <1>1, <1>4, <1>3 DEF Moves, ClientsInv
<1>7. PICK f2 : f2 = [f EXCEPT !.parsed = TRUE, !.keep = FALSE]
  OBVIOUS
<1>8. /\ f2 \in FastRecords /\ f2.parsed = TRUE /\ f2.keep = FALSE /\ f2.buf = f.buf /\ f2.maxV = f.maxV
      /\ f2.chunked = f.chunked /\ f2.missed = f.missed /\ f2.reuseCount = f.reuseCount
      /\ f2.connReuse = f.connReuse
      /\ f2.warned = f.warned /\ f2.rest = f.rest
  BY <1>7 DEF FastRecords, NewFast
<1>9. Moves(fast, fast', c, f2)
  BY <1>1, <1>7, <1>3 DEF Moves, ClientsInv
<1>10. ClientTyped(n, m2, f2, e, k)
  BY <1>1, <1>5, <1>8 DEF ClientRight, ClientTyped
<1>11. Placed(n, m2) /\ TriesRight(m2)
  BY <1>1, <1>2, <1>5, <1>8 DEF ClientRight, Placed, TriesRight, ClientRecords
<1>12. Explained(m2, k)
  BY <1>1, <1>2, <1>5, <1>8, ErrorIsNotOK DEF ClientRight, Explained, ClientRecords, MadeRecords
<1>13. conf.kind = "fast" => FastRight(n, m2, f2)
  <2> SUFFICES FastRight(n, m2, f2)
    OBVIOUS
  <2>1. CountsRight(m, f) /\ Reading(n, m, f) /\ (PlainKept => ~f.warned /\ f.keep)
    BY <1>1, <1>2 DEF ClientRight, FastRight
  <2>2. CountsRight(m2, f2)
    BY <2>1, <1>2, <1>5, <1>8 DEF CountsRight, Reached
  <2>3. ~PlainKept
    BY <1>1, <1>2, PlainFacts
  <2>4. f2.buf # <<>>
    BY <2>1, <1>2, <1>8 DEF Reading, ReadsAnswer
  <2>19. CodeOwn(m2, f2)
    BY <1>3, <1>5 DEF CodeOwn
  <2>20. QED BY <2>1, <2>2, <2>3, <2>4, <2>19, <1>2, <1>5, <1>8 DEF FastRight
<1>14. IsEcho => EchoRight(m2, e)
  BY <1>2 DEF IsEcho
<1>15. conf.kind = "std" => StdRight(m2)
  BY <1>2
<1>16. ClientRight(n, m2, f2, e, k)
  BY <1>10, <1>11, <1>12, <1>13, <1>14, <1>15 DEF ClientRight
<1>17. QED
  <2>1. Moves(net, net', c, n) /\ Moves(echo, echo', c, e) /\ Moves(made, made', c, k)
    BY <1>1, <1>2, Unmoved
  <2>2. QED BY <2>1, <1>2, <1>16, <1>6, <1>9, OneMoves

(* Where the answer ends is found from its own headers.                    *)
LEMMA ParseHeadersRight ==
  ASSUME ClientsInv, NEW c \in Clients, ParseHeaders(c), UNCHANGED <<conf, echo, made>> PROVE ClientsInv'
<1>1. PICK n \in NetRecords, m \in ClientRecords, f \in FastRecords, e \in EchoRecords, k \in MadeRecords :
        /\ n = net[c] /\ m = cl[c] /\ f = fast[c] /\ e = echo[c] /\ k = made[c]
        /\ ClientRight(n, m, f, e, k)
  BY PartsOf
<1>2. /\ conf.kind = "fast" /\ conf \in Confs /\ n.bytes \in Seq(Tokens) /\ f.buf \in Seq(Tokens)
      /\ Reading(n, m, f) /\ At(c, "headers")
  BY <1>1 DEF ParseHeaders, At, ClientRight, Placed, FastRight, NetRecords, FastRecords, Stream, ClientsInv
<1>3. ~f.rest /\ ~fast[c].rest /\ TRUE \in HasHeaders(f) /\ fast[c].keep /\ UNCHANGED <<conf, net, echo, made>>
  BY <1>1 DEF ParseHeaders
<1>4. PICK a : a = f.buf[HeaderLen - 1][2]
  OBVIOUS
<1>5. a \in Answers[conf.server] /\ IsAnswer(a, net[c], cl[c], fast[c])
  BY <1>1, <1>2, <1>3, <1>4, HeadersRight
<1>6. PICK s \in DOMAIN Answers : s = conf.server
  BY <1>2, ConfFacts
<1>7. PICK p1 \in Nat : p1 = a.parts[1]
  BY <1>5, <1>6, AnswerFacts
<1>8. PICK b \in Seq(Tokens), r \in Seq(Tokens) : b = f.buf /\ r = n.bytes
  BY <1>2
<1>9. PICK size : size = ParseChunkSize(SubSeq(b, HeaderLen + 1, Len(b)))
  OBVIOUS
<1>10. size # -1 => 5 \in 1 .. Len(b) /\ size = b[5][2] /\ size \in Nat
  <2>1. PICK i \in Nat : i = HeaderLen
    BY DEF HeaderLen
  <2>2. size = ParseChunkSize(SubSeq(b, i + 1, Len(b))) /\ i + 1 = 5
    BY <2>1, <1>9 DEF HeaderLen
  <2>3. /\ size \in Nat \cup {-1}
        /\ size # -1 => i + 1 \in 1 .. Len(b) /\ b[i + 1][1] = "size" /\ size = b[i + 1][2]
    <3>1. size = ParseChunkSize(SubSeq(b, i + 1, Len(b)))
      BY <2>2
    <3>2. QED BY <3>1, NextSize
  <2>4. QED BY <2>2, <2>3
<1>11. a.framing = "chunked" /\ size # -1 => size = p1
  <2> SUFFICES ASSUME a.framing = "chunked", size # -1 PROVE size = p1
    OBVIOUS
  <2>1. Len(b \o r) <= Len(Bytes(a)) /\ b \o r = SubSeq(Bytes(a), 1, Len(b \o r))
    <3>1. IsAnswer(a, n, m, f)
      BY <1>1, <1>5
    <3>2. QED BY <3>1, <1>8, AnswerBegins
  <2>2. \A i \in 1 .. Len(b) : b[i] = Bytes(a)[i]
    BY <2>1, <1>5, <1>6, AnswerBuffer
  <2>3. b[5] = Bytes(a)[5]
    BY <2>2, <1>10
  <2>4. Len(Body(a)) >= 1 /\ Len(Body(a)) \in Nat /\ Body(a)[1] = <<"size", p1>>
    <3>1. Len(a.parts) \in {1, 2} /\ (Len(a.parts) = 2 => a.parts[2] \in Nat) /\ Len(Body(a)) \in Nat
      BY <1>5, <1>6, AnswerFacts, BytesShape
    <3>2. QED BY <3>1, <1>5, <1>6, <1>7, BodyShape, SMTT(90)
  <2>5. Bytes(a)[5] = <<"size", p1>>
    <3>1. 1 \in 1 .. Len(Body(a)) /\ 4 + 1 = 5
      BY <2>4
    <3>2. Bytes(a)[4 + 1] = Body(a)[1]
      BY <3>1, <1>5, <1>6, BytesShape
    <3>3. QED BY <3>1, <3>2, <2>4
  <2>6. QED BY <2>3, <2>5, <1>10
<1>12. PlainKept => a.framing = "length" /\ HeaderLen + p1 = Len(Bytes(a)) /\ HeaderLen + p1 <= BufferSize
  <2> SUFFICES ASSUME PlainKept PROVE a.framing = "length" /\ HeaderLen + p1 = Len(Bytes(a)) /\ HeaderLen + p1 <= BufferSize
    OBVIOUS
  <2>1. a.framing = "length" /\ Len(Bytes(a)) < BufferSize /\ Len(Bytes(a)) = HeaderLen + p1
    BY <1>2, <1>5, <1>7, PlainFacts
  <2>2. QED BY <2>1, BufferAssumption DEF HeaderLen
<1>13. a.framing = "length" => HeaderLen + p1 = Len(Bytes(a))
  <2> SUFFICES ASSUME a.framing = "length" PROVE HeaderLen + p1 = Len(Bytes(a))
    OBVIOUS
  <2>1. Len(Bytes(a)) = 4 + Len(Body(a)) /\ Len(Body(a)) = a.parts[1]
    BY <1>5, <1>6, BytesShape, BodyShape
  <2>2. QED BY <2>1, <1>7 DEF HeaderLen
<1>14. CASE /\ a.framing = "length"
            /\ fast' = [fast EXCEPT ![c] = Framed(fast[c], a.close, HeaderLen + a.parts[1], FALSE)]
            /\ cl' = [cl EXCEPT ![c].code = a.code, ![c].pc = "body"]
  <2>1. PICK need \in Nat : need = HeaderLen + p1
    BY DEF HeaderLen
  <2>2. fast' = [fast EXCEPT ![c] = Framed(fast[c], a.close, need, FALSE)]
    BY <2>1, <1>7, <1>14
  <2>3. need = Len(Bytes(a)) /\ (PlainKept => need <= BufferSize)
    BY <2>1, <1>12, <1>13, <1>14
  <2>4. QED BY <2>2, <2>3, <1>2, <1>3, <1>5, <1>14, LengthRight
<1>15. CASE /\ a.framing = "chunked"
            /\ fast' = [fast EXCEPT ![c].parsed = TRUE, ![c].chunked = TRUE, ![c].maxV = HeaderLen]
            /\ cl' = [cl EXCEPT ![c].code = a.code, ![c].pc = "read"]
  BY <1>2, <1>3, <1>5, <1>15, NoSizeRight
<1>16. CASE /\ a.framing = "chunked" /\ size # -1
            /\ fast' = [fast EXCEPT ![c] = Framed(fast[c], a.close, HeaderLen + 1 + size + 1, TRUE)]
            /\ cl' = [cl EXCEPT ![c].code = a.code, ![c].pc = "body"]
  <2>1. PICK need \in Nat : need = HeaderLen + 1 + size + 1
    BY <1>10, <1>16 DEF HeaderLen
  <2>2. fast' = [fast EXCEPT ![c] = Framed(fast[c], a.close, need, TRUE)]
    BY <2>1, <1>16
  <2>3. need \in ChunkEnds(a)
    <3>1. need = HeaderLen + p1 + 2
      BY <2>1, <1>11, <1>16 DEF HeaderLen
    <3>2. QED BY <3>1, <1>7 DEF ChunkEnds
  <2>4. a.framing = "chunked" /\ ~PlainKept
    BY <1>12, <1>16
  <2>5. QED BY <2>2, <2>3, <2>4, <1>2, <1>3, <1>5, <1>16, ChunkedRight
<1>17. CASE /\ a.framing \in {"none", "bad"}
            /\ fast' = [fast EXCEPT ![c].parsed = TRUE, ![c].keep = FALSE]
            /\ cl' = [cl EXCEPT ![c].code = a.code, ![c].pc = "end"]
  BY <1>2, <1>3, <1>5, <1>17, NoLengthRight
<1>18. QED
  <2>1. /\ a = fast[c].buf[HeaderLen - 1][2]
        /\ size = ParseChunkSize(SubSeq(fast[c].buf, HeaderLen + 1, Len(fast[c].buf)))
    BY <1>1, <1>4, <1>8, <1>9
  <2>2. QED BY <2>1, <1>14, <1>15, <1>16, <1>17 DEF ParseHeaders

(* Whatever is found in what begins with the rest of another answer.       *)
LEMMA RestMoves ==
  ASSUME ClientsInv, NEW c \in Clients, At(c, "headers"), fast[c].rest,
         NEW x \in Codes, NEW p \in {"read", "body", "end"}, NEW f2 \in FastRecords,
         cl' = [cl EXCEPT ![c].code = x, ![c].pc = p], Moves(fast, fast', c, f2),
         f2.rest, f2.buf = fast[c].buf, fast[c].warned => f2.warned,
         f2.reuseCount = fast[c].reuseCount, f2.connReuse = fast[c].connReuse,
         UNCHANGED <<conf, net, echo, made>>
  PROVE  ClientsInv'
<1>1. PICK n \in NetRecords, m \in ClientRecords, f \in FastRecords, e \in EchoRecords, k \in MadeRecords :
        /\ n = net[c] /\ m = cl[c] /\ f = fast[c] /\ e = echo[c] /\ k = made[c]
        /\ ClientRight(n, m, f, e, k)
  BY PartsOf
<1>2. /\ conf.kind = "fast" /\ m.pc = "headers" /\ m.socket = FALSE /\ f.rest /\ f.buf # <<>>
      /\ conf' = conf /\ net' = net /\ echo' = echo /\ made' = made
  <2>1. m.pc = "headers" /\ Placed(n, m) /\ m.socket \in BOOLEAN
    BY <1>1 DEF At, ClientRight, ClientRecords
  <2>2. conf.kind = "fast" /\ m.socket = FALSE
    BY <2>1 DEF Placed
  <2>3. QED BY <2>1, <2>2, <1>1 DEF ClientRight, FastRight, Reading
<1>3. PICK m2 : m2 = [m EXCEPT !.code = x, !.pc = p]
  OBVIOUS
<1>4. /\ m2 \in ClientRecords /\ m2.pc = p /\ m2.code = x /\ m2.socket = m.socket /\ m2.reused = m.reused
      /\ m2.sockets = m.sockets /\ m2.connects = m.connects /\ m2.lookups = m.lookups
      /\ m2.unresolved = m.unresolved
      /\ m2.retries = m.retries /\ m2.tries = m.tries /\ m2.served = m.served /\ m2.whole = m.whole
  BY <1>3, ClientNumbers DEF ClientRecords, Pcs, Codes
<1>5. Moves(cl, cl', c, m2)
  BY <1>1, <1>3 DEF Moves, ClientsInv
<1>6. /\ f2.buf = f.buf /\ (f.warned => f2.warned) /\ f2.reuseCount = f.reuseCount
      /\ f2.connReuse = f.connReuse
  BY <1>1
<1>7. ClientTyped(n, m2, f2, e, k)
  BY <1>1, <1>4, <1>6 DEF ClientRight, ClientTyped
<1>8. Placed(n, m2) /\ TriesRight(m2)
  BY <1>1, <1>2, <1>4 DEF ClientRight, Placed, TriesRight, ClientRecords
<1>9. Explained(m2, k)
  BY <1>1, <1>2, <1>4, ErrorIsNotOK DEF ClientRight, Explained, ClientRecords, MadeRecords
<1>10. FastRight(n, m, f) /\ CountsRight(m, f)
  BY <1>1, <1>2 DEF ClientRight, FastRight
<1>11. CountsRight(m2, f2)
  BY <1>10, <1>2, <1>4, <1>6 DEF CountsRight, Reached
<1>12. FastRight(n, m2, f2)
  BY <1>2, <1>4, <1>6, <1>10, <1>11, RestIsRight
<1>13. ~IsEcho /\ conf.kind # "std"
  BY <1>2 DEF IsEcho
<1>14. ClientRight(n, m2, f2, e, k)
  BY <1>7, <1>8, <1>9, <1>12, <1>13 DEF ClientRight
<1>15. QED
  <2>1. Moves(net, net', c, n) /\ Moves(echo, echo', c, e) /\ Moves(made, made', c, k)
    BY <1>1, <1>2, Unmoved
  <2>2. QED BY <2>1, <1>2, <1>5, <1>14, OneMoves

(* So its headers, and a length or a chunk, are looked for anywhere.       *)
LEMMA ParseRestRight ==
  ASSUME ClientsInv, NEW c \in Clients, ParseRest(c), UNCHANGED <<conf, echo, made>> PROVE ClientsInv'
<1>1. PICK f \in FastRecords : f = fast[c]
  BY PartsOf
<1>2. PICK x \in Codes, need \in Nat, close \in BOOLEAN, chunked \in BOOLEAN :
        \/ /\ fast' = [fast EXCEPT ![c] = Framed(fast[c], close, need, chunked)]
           /\ cl' = [cl EXCEPT ![c].code = x, ![c].pc = "body"]
        \/ /\ fast' = [fast EXCEPT ![c].parsed = TRUE, ![c].chunked = TRUE, ![c].maxV = need]
           /\ cl' = [cl EXCEPT ![c].code = x, ![c].pc = "read"]
        \/ /\ fast' = [fast EXCEPT ![c].parsed = TRUE, ![c].keep = FALSE]
           /\ cl' = [cl EXCEPT ![c].code = x, ![c].pc = "end"]
  <2>1. RestCodes \subseteq Codes /\ RestSizes \subseteq Nat
    BY RestAssumption DEF Codes, SocketError
  <2>2. QED BY <2>1 DEF ParseRest
<1>3. At(c, "headers") /\ fast[c].rest /\ UNCHANGED <<conf, net, echo, made>> /\ DOMAIN fast = Clients
  BY DEF ParseRest, ClientsInv
<1>4. CASE /\ fast' = [fast EXCEPT ![c] = Framed(fast[c], close, need, chunked)]
           /\ cl' = [cl EXCEPT ![c].code = x, ![c].pc = "body"]
  <2>1. PICK q \in BOOLEAN, w \in BOOLEAN, v \in Nat :
          /\ q = (~(conf.checkClose /\ close)) /\ w = (f.warned \/ need > BufferSize)
          /\ v = IF (conf.checkClose /\ close) \/ need > BufferSize THEN BufferSize ELSE need
    BY BufferAssumption
  <2>2. PICK f1 : f1 = [f EXCEPT !.parsed = TRUE, !.chunked = chunked, !.maxV = v]
    OBVIOUS
  <2>3. PICK f2 : f2 = [f1 EXCEPT !.keep = q, !.warned = w]
    OBVIOUS
  <2>4. f1 \in FastRecords /\ f2 \in FastRecords
    BY <2>2, <2>3 DEF FastRecords
  <2>5. f2 = Framed(f, close, need, chunked)
    BY <2>1, <2>2, <2>3 DEF Framed, FastRecords
  <2>6. /\ f2.rest = f.rest /\ f2.buf = f.buf /\ (f.warned => f2.warned) /\ f2.reuseCount = f.reuseCount
        /\ f2.connReuse = f.connReuse
    BY <2>1, <2>2, <2>3 DEF FastRecords
  <2>7. Moves(fast, fast', c, f2)
    BY <2>5, <1>1, <1>3, <1>4 DEF Moves
  <2>8. QED BY <2>4, <2>6, <2>7, <1>1, <1>3, <1>4, RestMoves
<1>5. CASE /\ fast' = [fast EXCEPT ![c].parsed = TRUE, ![c].chunked = TRUE, ![c].maxV = need]
           /\ cl' = [cl EXCEPT ![c].code = x, ![c].pc = "read"]
  <2>1. PICK f2 : f2 = [f EXCEPT !.parsed = TRUE, !.chunked = TRUE, !.maxV = need]
    OBVIOUS
  <2>2. /\ f2 \in FastRecords /\ f2.rest = f.rest /\ f2.buf = f.buf /\ f2.warned = f.warned
        /\ f2.reuseCount = f.reuseCount /\ f2.connReuse = f.connReuse
    BY <2>1 DEF FastRecords
  <2>3. Moves(fast, fast', c, f2)
    BY <2>1, <1>1, <1>3, <1>5 DEF Moves
  <2>4. QED BY <2>2, <2>3, <1>1, <1>3, <1>5, RestMoves
<1>6. CASE /\ fast' = [fast EXCEPT ![c].parsed = TRUE, ![c].keep = FALSE]
           /\ cl' = [cl EXCEPT ![c].code = x, ![c].pc = "end"]
  <2>1. PICK f2 : f2 = [f EXCEPT !.parsed = TRUE, !.keep = FALSE]
    OBVIOUS
  <2>2. /\ f2 \in FastRecords /\ f2.rest = f.rest /\ f2.buf = f.buf /\ f2.warned = f.warned
        /\ f2.reuseCount = f.reuseCount /\ f2.connReuse = f.connReuse
    BY <2>1 DEF FastRecords
  <2>3. Moves(fast, fast', c, f2)
    BY <2>1, <1>1, <1>3, <1>6 DEF Moves
  <2>4. QED BY <2>2, <2>3, <1>1, <1>3, <1>6, RestMoves
<1>7. QED BY <1>2, <1>4, <1>5, <1>6

(* With the headers parsed, it is known what is left of the answer.        *)
LEMMA BodyRead ==
  ASSUME conf \in Confs, NEW n, NEW m, NEW f, NEW b \in Seq(Tokens), NEW r \in Seq(Tokens), b = f.buf,
         r = n.bytes,
         Reading(n, m, f), b # <<>>, ~f.rest
  PROVE  \E a \in Answers[conf.server] :
           /\ IsAnswer(a, n, m, f) /\ Len(b) + Len(r) <= Len(Bytes(a))
           /\ \A i \in 1 .. Len(b) : b[i] = Bytes(a)[i]
<1>1. PICK a \in Answers[conf.server] : IsAnswer(a, n, m, f)
  BY DEF Reading, ReadsAnswer
<1>2. Len(b \o r) <= Len(Bytes(a)) /\ b \o r = SubSeq(Bytes(a), 1, Len(b \o r))
  BY <1>1, AnswerBegins
<1>3. /\ Len(b) + Len(r) <= Len(Bytes(a))
      /\ \A i \in 1 .. Len(b) : b[i] = Bytes(a)[i]
  BY <1>2, ConfFacts, AnswerBuffer, ZenonT(60)
<1>4. QED BY <1>1, <1>3

(* There is more to read.                                                  *)
LEMMA MoreRight ==
  ASSUME ClientsInv, NEW c \in Clients, At(c, "body"), GoesTo(c, "read"),
         UNCHANGED <<conf, net, fast, echo, made>>
  PROVE  ClientsInv'
<1>1. PICK n \in NetRecords, m \in ClientRecords, f \in FastRecords, e \in EchoRecords, k \in MadeRecords :
        /\ n = net[c] /\ m = cl[c] /\ f = fast[c] /\ e = echo[c] /\ k = made[c]
        /\ ClientRight(n, m, f, e, k)
  BY PartsOf
<1>2. /\ conf.kind = "fast" /\ m.pc = "body" /\ m.socket = FALSE /\ conf \in Confs
      /\ conf' = conf /\ net' = net /\ echo' = echo /\ made' = made
      /\ n.bytes \in Seq(Tokens) /\ f.buf \in Seq(Tokens) /\ Len(f.buf) \in Nat /\ fast' = fast
  <2>1. At(c, m.pc) /\ Placed(n, m) /\ conf \in Confs /\ m.socket \in BOOLEAN
    BY <1>1 DEF At, ClientRight, ClientRecords, ClientsInv
  <2>2. conf.kind = "fast" /\ m.socket = FALSE
    BY <2>1, <1>1 DEF At, Placed
  <2>3. n.bytes \in Stream /\ f.buf \in Seq(Tokens)
    BY DEF NetRecords, FastRecords
  <2>4. QED BY <2>1, <2>2, <2>3, <1>1 DEF At, Stream
<1>3. PICK m2 : m2 = [m EXCEPT !.pc = "read"]
  OBVIOUS
<1>4. /\ m2 \in ClientRecords /\ m2.pc = "read" /\ m2.socket = m.socket /\ m2.reused = m.reused
      /\ m2.code = m.code
      /\ m2.sockets = m.sockets /\ m2.connects = m.connects /\ m2.lookups = m.lookups
      /\ m2.unresolved = m.unresolved
      /\ m2.retries = m.retries /\ m2.tries = m.tries /\ m2.served = m.served /\ m2.whole = m.whole
  BY <1>3, ClientNumbers DEF ClientRecords, Pcs, Codes
<1>5. Moves(cl, cl', c, m2)
  BY <1>1, <1>3 DEF Moves, ClientsInv, GoesTo
<1>6. ClientTyped(n, m2, f, e, k)
  BY <1>1, <1>4 DEF ClientRight, ClientTyped
<1>7. Placed(n, m2) /\ TriesRight(m2)
  BY <1>1, <1>2, <1>4 DEF ClientRight, Placed, TriesRight, ClientRecords
<1>8. Explained(m2, k)
  BY <1>1, <1>2, <1>4, ErrorIsNotOK DEF ClientRight, Explained, ClientRecords, MadeRecords
<1>9. conf.kind = "fast" => FastRight(n, m2, f)
  <2> SUFFICES FastRight(n, m2, f)
    OBVIOUS
  <2>1. CountsRight(m, f) /\ Reading(n, m, f) /\ (PlainKept => ~f.warned /\ f.keep)
    BY <1>1, <1>2 DEF ClientRight, FastRight
  <2>2. CountsRight(m2, f)
    BY <2>1, <1>2, <1>4 DEF CountsRight, Reached
  <2> SUFFICES ASSUME ~f.rest PROVE FastRight(n, m2, f)
    BY <2>1, <2>2, <1>1, <1>2, <1>4, RestIsRight DEF ClientRight
  <2>3. \A a \in Answers[conf.server] : IsAnswer(a, n, m, f) => IsAnswer(a, n, m2, f)
    BY <1>4 DEF IsAnswer
  <2>19. Reading(n, m2, f)
    BY <2>1, <2>3, <1>2, <1>4 DEF Reading, ReadsAnswer, CodeOwn
  <2>20. QED BY <2>1, <2>2, <2>19, <1>2, <1>4 DEF FastRight
<1>10. IsEcho => EchoRight(m2, e)
  BY <1>2 DEF IsEcho
<1>11. conf.kind = "std" => StdRight(m2)
  BY <1>2
<1>12. ClientRight(n, m2, f, e, k)
  BY <1>6, <1>7, <1>8, <1>9, <1>10, <1>11 DEF ClientRight
<1>13. QED
  <2>1. /\ Moves(net, net', c, n) /\ Moves(fast, fast', c, f) /\ Moves(echo, echo', c, e)
        /\ Moves(made, made', c, k)
    BY <1>1, <1>2, Unmoved
  <2>2. QED BY <2>1, <1>2, <1>12, <1>5, OneMoves

(* There is as much as was to be read.                                     *)
LEMMA TakenRight ==
  ASSUME ClientsInv, NEW c \in Clients, At(c, "body"), Len(fast[c].buf) >= fast[c].maxV, ~fast[c].chunked,
         GoesTo(c, "end"),
         fast' = [fast EXCEPT ![c].keep = @ /\ fast[c].parsed], UNCHANGED <<conf, net, echo, made>>
  PROVE  ClientsInv'
<1>1. PICK n \in NetRecords, m \in ClientRecords, f \in FastRecords, e \in EchoRecords, k \in MadeRecords :
        /\ n = net[c] /\ m = cl[c] /\ f = fast[c] /\ e = echo[c] /\ k = made[c]
        /\ ClientRight(n, m, f, e, k)
  BY PartsOf
<1>2. /\ conf.kind = "fast" /\ m.pc = "body" /\ m.socket = FALSE /\ conf \in Confs
      /\ conf' = conf /\ net' = net /\ echo' = echo /\ made' = made
      /\ n.bytes \in Seq(Tokens) /\ f.buf \in Seq(Tokens) /\ Len(f.buf) \in Nat
  <2>1. At(c, m.pc) /\ Placed(n, m) /\ conf \in Confs /\ m.socket \in BOOLEAN
    BY <1>1 DEF At, ClientRight, ClientRecords, ClientsInv
  <2>2. conf.kind = "fast" /\ m.socket = FALSE
    BY <2>1, <1>1 DEF At, Placed
  <2>3. n.bytes \in Stream /\ f.buf \in Seq(Tokens)
    BY DEF NetRecords, FastRecords
  <2>4. QED BY <2>1, <2>2, <2>3, <1>1 DEF At, Stream
<1>3. Reading(n, m, f) /\ f.buf # <<>> /\ (~f.rest => CodeOwn(m, f) /\ ReadsAnswer(n, m, f)) /\ f.maxV \in Nat
  BY <1>1, <1>2 DEF ClientRight, FastRight, Reading, ReadsAnswer, FastRecords
<1>4. PICK b \in Seq(Tokens), r \in Seq(Tokens) : b = f.buf /\ r = n.bytes /\ Len(b) \in Nat /\ Len(r) \in Nat
  BY <1>2
<1>5. PICK q \in BOOLEAN : q = (f.keep /\ f.parsed)
  OBVIOUS
<1>6. PICK m2 : m2 = [m EXCEPT !.pc = "end"]
  OBVIOUS
<1>7. /\ m2 \in ClientRecords /\ m2.pc = "end" /\ m2.socket = m.socket /\ m2.reused = m.reused
      /\ m2.code = m.code
      /\ m2.sockets = m.sockets /\ m2.connects = m.connects /\ m2.lookups = m.lookups
      /\ m2.unresolved = m.unresolved
      /\ m2.retries = m.retries /\ m2.tries = m.tries /\ m2.served = m.served /\ m2.whole = m.whole
  BY <1>6, ClientNumbers DEF ClientRecords, Pcs, Codes
<1>8. Moves(cl, cl', c, m2)
  BY <1>1, <1>6, <1>5 DEF Moves, ClientsInv, GoesTo
<1>9. PICK f2 : f2 = [f EXCEPT !.keep = q]
  OBVIOUS
<1>10. /\ f2 \in FastRecords /\ f2.keep = q /\ f2.buf = f.buf /\ f2.maxV = f.maxV /\ f2.parsed = f.parsed
       /\ f2.chunked = f.chunked /\ f2.missed = f.missed /\ f2.reuseCount = f.reuseCount
       /\ f2.connReuse = f.connReuse
       /\ f2.warned = f.warned /\ f2.rest = f.rest
  BY <1>9 DEF FastRecords, NewFast
<1>11. Moves(fast, fast', c, f2)
  BY <1>1, <1>9, <1>5 DEF Moves, ClientsInv, GoesTo
<1>12. ClientTyped(n, m2, f2, e, k)
  BY <1>1, <1>7, <1>10 DEF ClientRight, ClientTyped
<1>13. Placed(n, m2) /\ TriesRight(m2)
  BY <1>1, <1>2, <1>7, <1>10 DEF ClientRight, Placed, TriesRight, ClientRecords
<1>14. Explained(m2, k)
  BY <1>1, <1>2, <1>7, <1>10, ErrorIsNotOK DEF ClientRight, Explained, ClientRecords, MadeRecords
<1>15. conf.kind = "fast" => FastRight(n, m2, f2)
  <2> SUFFICES FastRight(n, m2, f2)
    OBVIOUS
  <2>1. CountsRight(m, f) /\ Reading(n, m, f) /\ (PlainKept => ~f.warned /\ f.keep)
    BY <1>1, <1>2 DEF ClientRight, FastRight
  <2>2. CountsRight(m2, f2)
    BY <2>1, <1>2, <1>7, <1>10 DEF CountsRight, Reached
  <2> SUFFICES ASSUME ~f.rest PROVE FastRight(n, m2, f2)
    BY <2>1, <2>2, <1>1, <1>2, <1>3, <1>7, <1>10, RestIsRight DEF ClientRight
  <2>3. Len(b) >= f.maxV /\ ~f.chunked
    BY <1>1, <1>4
  <2>4. PlainKept => f.parsed
    <3> SUFFICES ASSUME PlainKept, ~f.parsed PROVE FALSE
      BY <1>1 DEF FastRecords
    <3>1. PICK a \in Answers[conf.server] : Len(b) + Len(r) <= Len(Bytes(a))
      BY <2>1, <1>2, <1>3, <1>4, BodyRead
    <3>2. f.maxV = BufferSize /\ Len(Bytes(a)) < BufferSize
      BY <1>2, <1>3, PlainFacts DEF Reading, ReadsAnswer
    <3>3. PICK l \in Nat, lb \in Nat, lr \in Nat, v \in Nat :
               l = Len(Bytes(a)) /\ lb = Len(b) /\ lr = Len(r) /\ v = f.maxV
      <4>1. Len(Bytes(a)) \in Nat
        BY <1>2, ConfFacts, BytesShape
      <4>2. QED BY <4>1, <1>4, <1>3
    <3>4. lb >= v /\ lb + lr <= l /\ l < v
      BY <2>3, <3>1, <3>2, <3>3
    <3>5. QED BY <3>4
  <2>5. f2.keep => Leftover(n, f2)
    <3> SUFFICES ASSUME f.parsed, f.keep, r # <<>> PROVE f.warned
      BY <1>4, <1>5, <1>10 DEF Leftover
    <3>1. PICK a \in Answers[conf.server] :
            /\ IsAnswer(a, n, m, f) /\ Len(b) + Len(r) <= Len(Bytes(a))
      BY <1>2, <1>3, <1>4, BodyRead, ZenonT(60)
    <3>2. ~f.warned => f.maxV = Len(Bytes(a))
      BY <2>3, <3>1 DEF IsAnswer
    <3>3. PICK l \in Nat, lb \in Nat, lr \in Nat, v \in Nat :
               l = Len(Bytes(a)) /\ lb = Len(b) /\ lr = Len(r) /\ v = f.maxV /\ lr > 0
      <4>1. Len(Bytes(a)) \in Nat
        BY <1>2, ConfFacts, BytesShape
      <4>2. Len(r) > 0
        BY <1>4
      <4>3. QED BY <4>1, <4>2, <1>4, <1>3
    <3>4. f.warned
      <4>1. lb >= v /\ lb + lr <= l
        BY <2>3, <3>1, <3>3
      <4>2. v # l
        BY <4>1, <3>3
      <4>3. QED BY <4>2, <3>2, <3>3
    <3>5. QED BY <3>1, <3>4
  <2>6. PlainKept => f2.keep
    BY <2>1, <2>4, <1>5, <1>10
  <2>7. f2.buf # <<>> /\ CodeOwn(m2, f2)
    BY <1>3, <1>7, <1>10 DEF CodeOwn
  <2>20. QED BY <2>1, <2>2, <2>5, <2>6, <2>7, <1>2, <1>7, <1>10 DEF FastRight
<1>16. IsEcho => EchoRight(m2, e)
  BY <1>2 DEF IsEcho
<1>17. conf.kind = "std" => StdRight(m2)
  BY <1>2
<1>18. ClientRight(n, m2, f2, e, k)
  BY <1>12, <1>13, <1>14, <1>15, <1>16, <1>17 DEF ClientRight
<1>19. QED
  <2>1. Moves(net, net', c, n) /\ Moves(echo, echo', c, e) /\ Moves(made, made', c, k)
    BY <1>1, <1>2, Unmoved
  <2>2. QED BY <2>1, <1>2, <1>18, <1>8, <1>11, OneMoves

(* The last chunk: all was read, or there is a warning.                    *)
LEMMA LastChunkRight ==
  ASSUME ClientsInv, NEW c \in Clients, At(c, "body"), fast[c].chunked, GoesTo(c, "end"),
         0 \in NextSizes(fast[c]),
         fast' = [fast EXCEPT ![c].warned = @ \/ ~(Len(fast[c].buf) = fast[c].maxV + 2
                                                /\ fast[c].buf[Len(fast[c].buf)][1] = "crlf")],
         UNCHANGED <<conf, net, echo, made>>
  PROVE  ClientsInv'
<1>1. PICK n \in NetRecords, m \in ClientRecords, f \in FastRecords, e \in EchoRecords, k \in MadeRecords :
        /\ n = net[c] /\ m = cl[c] /\ f = fast[c] /\ e = echo[c] /\ k = made[c]
        /\ ClientRight(n, m, f, e, k)
  BY PartsOf
<1>2. /\ conf.kind = "fast" /\ m.pc = "body" /\ m.socket = FALSE /\ conf \in Confs
      /\ conf' = conf /\ net' = net /\ echo' = echo /\ made' = made
      /\ n.bytes \in Seq(Tokens) /\ f.buf \in Seq(Tokens) /\ Len(f.buf) \in Nat
  <2>1. At(c, m.pc) /\ Placed(n, m) /\ conf \in Confs /\ m.socket \in BOOLEAN
    BY <1>1 DEF At, ClientRight, ClientRecords, ClientsInv
  <2>2. conf.kind = "fast" /\ m.socket = FALSE
    BY <2>1, <1>1 DEF At, Placed
  <2>3. n.bytes \in Stream /\ f.buf \in Seq(Tokens)
    BY DEF NetRecords, FastRecords
  <2>4. QED BY <2>1, <2>2, <2>3, <1>1 DEF At, Stream
<1>3. Reading(n, m, f) /\ f.buf # <<>> /\ (~f.rest => CodeOwn(m, f) /\ ReadsAnswer(n, m, f)) /\ f.maxV \in Nat
  BY <1>1, <1>2 DEF ClientRight, FastRight, Reading, ReadsAnswer, FastRecords
<1>4. PICK b \in Seq(Tokens), r \in Seq(Tokens) : b = f.buf /\ r = n.bytes /\ Len(b) \in Nat /\ Len(r) \in Nat
  BY <1>2
<1>5. ASSUME ~f.rest PROVE f.maxV + 1 \in 1 .. Len(b) /\ b[f.maxV + 1][2] = 0
  <2>1. PICK v \in Nat : v = f.maxV
    BY <1>3
  <2>2. PICK y : y = ParseChunkSize(SubSeq(b, v + 1, Len(b))) /\ y = 0 /\ y # -1
    BY <2>1, <1>1, <1>4, <1>5 DEF NextSizes
  <2>3. y \in Nat \cup {-1} /\ (y # -1 => v + 1 \in 1 .. Len(b) /\ b[v + 1][1] = "size" /\ y = b[v + 1][2])
    BY <2>2, NextSize
  <2>4. QED BY <2>1, <2>2, <2>3
<1>6. PICK w \in BOOLEAN : w = (f.warned \/ ~(Len(b) = f.maxV + 2 /\ b[Len(b)][1] = "crlf"))
  OBVIOUS
<1>7. PICK m2 : m2 = [m EXCEPT !.pc = "end"]
  OBVIOUS
<1>8. /\ m2 \in ClientRecords /\ m2.pc = "end" /\ m2.socket = m.socket /\ m2.reused = m.reused
      /\ m2.code = m.code
      /\ m2.sockets = m.sockets /\ m2.connects = m.connects /\ m2.lookups = m.lookups
      /\ m2.unresolved = m.unresolved
      /\ m2.retries = m.retries /\ m2.tries = m.tries /\ m2.served = m.served /\ m2.whole = m.whole
  BY <1>7, ClientNumbers DEF ClientRecords, Pcs, Codes
<1>9. Moves(cl, cl', c, m2)
  BY <1>1, <1>7, <1>4, <1>6 DEF Moves, ClientsInv, GoesTo
<1>10. PICK f2 : f2 = [f EXCEPT !.warned = w]
  OBVIOUS
<1>11. /\ f2 \in FastRecords /\ f2.warned = w /\ f2.buf = f.buf /\ f2.maxV = f.maxV /\ f2.parsed = f.parsed
       /\ f2.keep = f.keep /\ f2.chunked = f.chunked /\ f2.missed = f.missed /\ f2.reuseCount = f.reuseCount
       /\ f2.connReuse = f.connReuse /\ f2.rest = f.rest
  BY <1>10 DEF FastRecords, NewFast
<1>12. Moves(fast, fast', c, f2)
  BY <1>1, <1>10, <1>4, <1>6 DEF Moves, ClientsInv, GoesTo
<1>13. ClientTyped(n, m2, f2, e, k)
  BY <1>1, <1>8, <1>11 DEF ClientRight, ClientTyped
<1>14. Placed(n, m2) /\ TriesRight(m2)
  BY <1>1, <1>2, <1>8, <1>11 DEF ClientRight, Placed, TriesRight, ClientRecords
<1>15. Explained(m2, k)
  BY <1>1, <1>2, <1>8, <1>11, ErrorIsNotOK DEF ClientRight, Explained, ClientRecords, MadeRecords
<1>16. conf.kind = "fast" => FastRight(n, m2, f2)
  <2> SUFFICES FastRight(n, m2, f2)
    OBVIOUS
  <2>1. CountsRight(m, f) /\ Reading(n, m, f) /\ (PlainKept => ~f.warned /\ f.keep)
    BY <1>1, <1>2 DEF ClientRight, FastRight
  <2>2. CountsRight(m2, f2)
    BY <2>1, <1>2, <1>8, <1>11 DEF CountsRight, Reached
  <2> SUFFICES ASSUME ~f.rest PROVE FastRight(n, m2, f2)
    <3> SUFFICES ASSUME f.rest PROVE FastRight(n, m2, f2)
      OBVIOUS
    <3>1. FastRight(n, m, f) /\ f2.rest /\ f2.buf = f.buf /\ f.buf # <<>> /\ (f.warned => f2.warned)
      BY <1>1, <1>2, <1>3, <1>6, <1>11 DEF ClientRight
    <3>2. m2.pc \in {"read", "body", "end"}
      BY <1>8
    <3>3. QED BY <2>2, <3>1, <3>2, RestIsRight
  <2>3. f.parsed /\ ~PlainKept
    <3>1. f.parsed /\ f.chunked
      BY <1>1, <1>3 DEF Reading, ReadsAnswer
    <3>2. PICK a \in Answers[conf.server] : IsAnswer(a, n, m, f)
      BY <3>1, <1>2, <1>3, <1>4, BodyRead
    <3>3. ~PlainKept
      BY <3>1, <3>2, <2>1, <1>2, PlainFacts DEF IsAnswer
    <3>4. QED BY <3>1, <3>3
  <2>4. PICK a \in Answers[conf.server] :
          /\ IsAnswer(a, n, m, f) /\ Len(b) + Len(r) <= Len(Bytes(a))
          /\ \A i \in 1 .. Len(b) : b[i] = Bytes(a)[i]
    <3>1. Reading(n, m, f) /\ b # <<>>
      BY <1>3, <1>4
    <3>2. PICK a \in Answers[conf.server] : IsAnswer(a, n, m, f)
      BY <3>1, <1>2, <1>4, BodyRead
    <3>3. Len(b \o r) <= Len(Bytes(a)) /\ b \o r = SubSeq(Bytes(a), 1, Len(b \o r))
      BY <3>2, <1>4, AnswerBegins
    <3>4. /\ Len(b) + Len(r) <= Len(Bytes(a))
          /\ \A i \in 1 .. Len(b) : b[i] = Bytes(a)[i]
      BY <3>3, <1>2, <1>4, ConfFacts, AnswerBuffer, ZenonT(60)
    <3>5. QED BY <3>2, <3>4, Zenon
  <2>5. f.keep /\ ~f.warned =>
          /\ a.framing = "chunked" /\ f.maxV \in ChunkEnds(a)
          /\ Len(Bytes(a)) = f.maxV + 2
    <3> SUFFICES ASSUME f.keep, ~f.warned
                 PROVE  /\ a.framing = "chunked" /\ f.maxV \in ChunkEnds(a)
                        /\ Len(Bytes(a)) = f.maxV + 2
      OBVIOUS
    <3>1. a.framing = "chunked" /\ f.maxV \in ChunkEnds(a)
      BY <2>3, <2>4, <1>1 DEF IsAnswer
    <3>2. PICK v \in ChunkEnds(a) : v = f.maxV
      BY <3>1
    <3>3. PICK y \in Nat : /\ Bytes(a)[v + 1] = <<"size", y>>
                           /\ y = 0 => Len(Bytes(a)) = v + 2
                           /\ y > 0 => v + 1 + y + 1 \in ChunkEnds(a)
      <4>1. conf.server \in DOMAIN Answers
        BY <1>2, ConfFacts
      <4>2. QED BY <3>1, <4>1, NextChunk
    <3>4. b[f.maxV + 1] = Bytes(a)[f.maxV + 1]
      BY <2>4, <1>5
    <3>5. y = 0
      BY <3>2, <3>3, <3>4, <1>5
    <3>6. QED BY <3>1, <3>2, <3>3, <3>5
  <2>6. f2.keep => Leftover(n, f2)
    <3> SUFFICES ASSUME f.keep, r # <<>> PROVE w
      BY <1>4, <1>11 DEF Leftover
    <3>1. Len(r) > 0
      BY <1>1, <1>4
    <3>2. ~w => ~f.warned /\ Len(b) = f.maxV + 2
      BY <1>6
    <3>3. PICK l \in Nat, lb \in Nat, lr \in Nat, v \in Nat :
               l = Len(Bytes(a)) /\ lb = Len(b) /\ lr = Len(r) /\ v = f.maxV
      <4>1. Len(Bytes(a)) \in Nat
        BY <1>2, ConfFacts, BytesShape
      <4>2. QED BY <4>1, <1>4, <1>3
    <3>5. ~w => l = v + 2 /\ lb = v + 2
      BY <2>5, <3>1, <3>2, <3>3
    <3>6. lb + lr <= l /\ lr > 0
      BY <2>4, <3>1, <3>3
    <3>7. w
      BY <3>5, <3>6
    <3>8. QED BY <3>7, <2>4
  <2>7. f2.buf # <<>> /\ CodeOwn(m2, f2)
    BY <1>3, <1>8, <1>11 DEF CodeOwn
  <2>20. QED BY <2>1, <2>2, <2>3, <2>6, <2>7, <1>2, <1>8, <1>11 DEF FastRight
<1>17. IsEcho => EchoRight(m2, e)
  BY <1>2 DEF IsEcho
<1>18. conf.kind = "std" => StdRight(m2)
  BY <1>2
<1>19. ClientRight(n, m2, f2, e, k)
  BY <1>13, <1>14, <1>15, <1>16, <1>17, <1>18 DEF ClientRight
<1>20. QED
  <2>1. Moves(net, net', c, n) /\ Moves(echo, echo', c, e) /\ Moves(made, made', c, k)
    BY <1>1, <1>2, Unmoved
  <2>2. QED BY <2>1, <1>2, <1>19, <1>9, <1>12, OneMoves

(* One more chunk: the answer ends after it, or beyond the buffer.         *)
LEMMA NextChunkRight ==
  ASSUME ClientsInv, NEW c \in Clients, At(c, "body"), fast[c].chunked, NEW max \in Nat,
         NEW x \in NextSizes(fast[c]), x \in Nat, x > 0, max = fast[c].maxV + 1 + x + 1,
         fast' = [fast EXCEPT ![c].maxV = max, ![c].warned = @ \/ max > BufferSize],
         GoesTo(c, IF max > BufferSize THEN "end" ELSE IF max <= Len(fast[c].buf) THEN "body" ELSE "read"),
         UNCHANGED <<conf, net, echo, made>>
  PROVE  ClientsInv'
<1>1. PICK n \in NetRecords, m \in ClientRecords, f \in FastRecords, e \in EchoRecords, k \in MadeRecords :
        /\ n = net[c] /\ m = cl[c] /\ f = fast[c] /\ e = echo[c] /\ k = made[c]
        /\ ClientRight(n, m, f, e, k)
  BY PartsOf
<1>2. /\ conf.kind = "fast" /\ m.pc = "body" /\ m.socket = FALSE /\ conf \in Confs
      /\ conf' = conf /\ net' = net /\ echo' = echo /\ made' = made
      /\ n.bytes \in Seq(Tokens) /\ f.buf \in Seq(Tokens) /\ Len(f.buf) \in Nat
  <2>1. At(c, m.pc) /\ Placed(n, m) /\ conf \in Confs /\ m.socket \in BOOLEAN
    BY <1>1 DEF At, ClientRight, ClientRecords, ClientsInv
  <2>2. conf.kind = "fast" /\ m.socket = FALSE
    BY <2>1, <1>1 DEF At, Placed
  <2>3. n.bytes \in Stream /\ f.buf \in Seq(Tokens)
    BY DEF NetRecords, FastRecords
  <2>4. QED BY <2>1, <2>2, <2>3, <1>1 DEF At, Stream
<1>3. Reading(n, m, f) /\ f.buf # <<>> /\ (~f.rest => CodeOwn(m, f) /\ ReadsAnswer(n, m, f)) /\ f.maxV \in Nat
  BY <1>1, <1>2 DEF ClientRight, FastRight, Reading, ReadsAnswer, FastRecords
<1>4. PICK b \in Seq(Tokens), r \in Seq(Tokens) : b = f.buf /\ r = n.bytes /\ Len(b) \in Nat /\ Len(r) \in Nat
  BY <1>2
<1>5. ASSUME ~f.rest PROVE f.maxV + 1 \in 1 .. Len(b) /\ b[f.maxV + 1][2] = x
  <2>1. PICK v \in Nat : v = f.maxV
    BY <1>3
  <2>2. PICK y : y = ParseChunkSize(SubSeq(b, v + 1, Len(b))) /\ y = x /\ y # -1
    BY <2>1, <1>1, <1>4, <1>5 DEF NextSizes
  <2>3. y \in Nat \cup {-1} /\ (y # -1 => v + 1 \in 1 .. Len(b) /\ b[v + 1][1] = "size" /\ y = b[v + 1][2])
    BY <2>2, NextSize
  <2>4. QED BY <2>1, <2>2, <2>3
<1>6. PICK w \in BOOLEAN : w = (f.warned \/ max > BufferSize) /\ max = f.maxV + 1 + x + 1
  BY <1>1
<1>7. PICK p \in {"end", "body", "read"} :
        p = IF max > BufferSize THEN "end" ELSE IF max <= Len(b) THEN "body" ELSE "read"
  OBVIOUS
<1>8. PICK m2 : m2 = [m EXCEPT !.pc = p]
  OBVIOUS
<1>9. /\ m2 \in ClientRecords /\ m2.pc = p /\ m2.socket = m.socket /\ m2.reused = m.reused /\ m2.code = m.code
      /\ m2.sockets = m.sockets /\ m2.connects = m.connects /\ m2.lookups = m.lookups
      /\ m2.unresolved = m.unresolved
      /\ m2.retries = m.retries /\ m2.tries = m.tries /\ m2.served = m.served /\ m2.whole = m.whole
  BY <1>8, ClientNumbers DEF ClientRecords, Pcs, Codes
<1>10. Moves(cl, cl', c, m2)
  BY <1>1, <1>8, <1>4, <1>6, <1>7 DEF Moves, ClientsInv, GoesTo
<1>11. PICK f2 : f2 = [f EXCEPT !.maxV = max, !.warned = w]
  OBVIOUS
<1>12. /\ f2 \in FastRecords /\ f2.maxV = max /\ f2.warned = w /\ f2.buf = f.buf /\ f2.parsed = f.parsed
       /\ f2.keep = f.keep /\ f2.chunked = f.chunked /\ f2.missed = f.missed /\ f2.reuseCount = f.reuseCount
       /\ f2.connReuse = f.connReuse /\ f2.rest = f.rest
  BY <1>11 DEF FastRecords, NewFast
<1>13. Moves(fast, fast', c, f2)
  BY <1>1, <1>11, <1>4, <1>6, <1>7 DEF Moves, ClientsInv, GoesTo
<1>14. ClientTyped(n, m2, f2, e, k)
  BY <1>1, <1>9, <1>12 DEF ClientRight, ClientTyped
<1>15. Placed(n, m2) /\ TriesRight(m2)
  BY <1>1, <1>2, <1>9, <1>12 DEF ClientRight, Placed, TriesRight, ClientRecords
<1>16. Explained(m2, k)
  BY <1>1, <1>2, <1>9, <1>12, ErrorIsNotOK DEF ClientRight, Explained, ClientRecords, MadeRecords
<1>17. conf.kind = "fast" => FastRight(n, m2, f2)
  <2> SUFFICES FastRight(n, m2, f2)
    OBVIOUS
  <2>1. CountsRight(m, f) /\ Reading(n, m, f) /\ (PlainKept => ~f.warned /\ f.keep)
    BY <1>1, <1>2 DEF ClientRight, FastRight
  <2>2. CountsRight(m2, f2)
    BY <2>1, <1>2, <1>9, <1>12 DEF CountsRight, Reached
  <2> SUFFICES ASSUME ~f.rest PROVE FastRight(n, m2, f2)
    <3> SUFFICES ASSUME f.rest PROVE FastRight(n, m2, f2)
      OBVIOUS
    <3>1. FastRight(n, m, f) /\ f2.rest /\ f2.buf = f.buf /\ f.buf # <<>> /\ (f.warned => f2.warned)
      BY <1>1, <1>2, <1>3, <1>6, <1>12 DEF ClientRight
    <3>2. m2.pc \in {"read", "body", "end"}
      BY <1>9, <1>7
    <3>3. QED BY <2>2, <3>1, <3>2, RestIsRight
  <2>3. f.parsed /\ ~PlainKept
    <3>1. f.parsed /\ f.chunked
      BY <1>1, <1>3 DEF Reading, ReadsAnswer
    <3>2. PICK a \in Answers[conf.server] : IsAnswer(a, n, m, f)
      BY <3>1, <1>2, <1>3, <1>4, BodyRead
    <3>3. ~PlainKept
      BY <3>1, <3>2, <2>1, <1>2, PlainFacts DEF IsAnswer
    <3>4. QED BY <3>1, <3>3
  <2>4. PICK a \in Answers[conf.server] :
          /\ IsAnswer(a, n, m, f) /\ Len(b) + Len(r) <= Len(Bytes(a))
          /\ \A i \in 1 .. Len(b) : b[i] = Bytes(a)[i]
    <3>1. Reading(n, m, f) /\ b # <<>>
      BY <1>3, <1>4
    <3>2. PICK a \in Answers[conf.server] : IsAnswer(a, n, m, f)
      BY <3>1, <1>2, <1>4, BodyRead
    <3>3. Len(b \o r) <= Len(Bytes(a)) /\ b \o r = SubSeq(Bytes(a), 1, Len(b \o r))
      BY <3>2, <1>4, AnswerBegins
    <3>4. /\ Len(b) + Len(r) <= Len(Bytes(a))
          /\ \A i \in 1 .. Len(b) : b[i] = Bytes(a)[i]
      BY <3>3, <1>2, <1>4, ConfFacts, AnswerBuffer, ZenonT(60)
    <3>5. QED BY <3>2, <3>4, Zenon
  <2>5. f.keep /\ ~f.warned =>
          /\ a.framing = "chunked" /\ f.maxV \in ChunkEnds(a)
          /\ f.maxV + 1 + x + 1 \in ChunkEnds(a)
    <3> SUFFICES ASSUME f.keep, ~f.warned
                 PROVE  /\ a.framing = "chunked" /\ f.maxV \in ChunkEnds(a)
                        /\ f.maxV + 1 + x + 1 \in ChunkEnds(a)
      OBVIOUS
    <3>1. a.framing = "chunked" /\ f.maxV \in ChunkEnds(a)
      BY <2>3, <2>4, <1>1 DEF IsAnswer
    <3>2. PICK v \in ChunkEnds(a) : v = f.maxV
      BY <3>1
    <3>3. PICK y \in Nat : /\ Bytes(a)[v + 1] = <<"size", y>>
                           /\ y = 0 => Len(Bytes(a)) = v + 2
                           /\ y > 0 => v + 1 + y + 1 \in ChunkEnds(a)
      <4>1. conf.server \in DOMAIN Answers
        BY <1>2, ConfFacts
      <4>2. QED BY <3>1, <4>1, NextChunk
    <3>4. b[f.maxV + 1] = Bytes(a)[f.maxV + 1]
      BY <2>4, <1>5
    <3>5. y = x
      BY <3>2, <3>3, <3>4, <1>5
    <3>6. QED BY <3>1, <3>2, <3>3, <3>5
  <2>7. f2.buf # <<>> /\ CodeOwn(m2, f2) /\ CodeOwn(m, f)
    BY <1>3, <1>9, <1>12 DEF CodeOwn
  <2>8. p = "end" => Leftover(n, f2)
    <3>1. p = "end" => w
      BY <1>6, <1>7
    <3>2. QED BY <3>1, <2>4, <1>4, <1>12 DEF Leftover
  <2>9. IsAnswer(a, n, m2, f2)
    <3>1. f2.parsed /\ f2.keep /\ ~f2.warned =>
            IF f2.chunked THEN a.framing = "chunked" /\ f2.maxV \in ChunkEnds(a) ELSE f2.maxV = Len(Bytes(a))
      <4> SUFFICES ASSUME f2.keep, ~f2.warned PROVE a.framing = "chunked" /\ f2.maxV \in ChunkEnds(a) /\ f2.chunked
        OBVIOUS
      <4>1. f.keep /\ ~f.warned /\ f2.maxV = f.maxV + 1 + x + 1 /\ f2.chunked
        BY <1>1, <1>6, <1>12
      <4>2. QED BY <4>1, <2>5
    <3>2. QED BY <3>1, <2>4, <1>9, <1>12, AnswerMoves
  <2>10. Len(f2.buf) >= 2
    BY <2>3, <1>3, <1>12 DEF Reading, ReadsAnswer
  <2>19. p # "end" => Reading(n, m2, f2)
    BY <2>3, <2>7, <2>9, <2>10, <1>7, <1>9, <1>12 DEF Reading, ReadsAnswer
  <2>20. QED BY <2>1, <2>2, <2>3, <2>7, <2>8, <2>19, <1>2, <1>7, <1>9, <1>12 DEF FastRight
<1>18. IsEcho => EchoRight(m2, e)
  BY <1>2 DEF IsEcho
<1>19. conf.kind = "std" => StdRight(m2)
  BY <1>2
<1>20. ClientRight(n, m2, f2, e, k)
  BY <1>14, <1>15, <1>16, <1>17, <1>18, <1>19 DEF ClientRight
<1>21. QED
  <2>1. Moves(net, net', c, n) /\ Moves(echo, echo', c, e) /\ Moves(made, made', c, k)
    BY <1>1, <1>2, Unmoved
  <2>2. QED BY <2>1, <1>2, <1>20, <1>10, <1>13, OneMoves

(* Whether it is all there is told from the right place.                   *)
LEMMA ExamineBodyRight ==
  ASSUME ClientsInv, NEW c \in Clients, ExamineBody(c), UNCHANGED <<conf, echo, made>> PROVE ClientsInv'
<1>1. PICK f \in FastRecords : f = fast[c]
  BY PartsOf
<1>2. At(c, "body") /\ UNCHANGED <<conf, net, echo, made>> /\ f.maxV \in Nat /\ f.buf \in Seq(Tokens)
  BY DEF ExamineBody, FastRecords
<1>3. NextSizes(f) \subseteq Nat \cup {-1}
  <2>1. PICK b \in Seq(Tokens), v \in Nat : b = f.buf /\ v = f.maxV
    BY <1>2
  <2>2. ParseChunkSize(SubSeq(b, v + 1, Len(b))) \in Nat \cup {-1}
    BY NextSize
  <2>3. RestSizes \cup {-1, 0} \subseteq Nat \cup {-1}
    BY RestAssumption
  <2>4. NextSizes(f) \in {RestSizes \cup {-1, 0}, {ParseChunkSize(SubSeq(b, v + 1, Len(b)))}}
    BY <2>1, Zenon DEF NextSizes
  <2>5. QED BY <2>2, <2>3, <2>4
<1>4. CASE GoesTo(c, "read") /\ UNCHANGED fast
  BY <1>2, <1>4, MoreRight
<1>5. CASE /\ Len(f.buf) >= f.maxV /\ ~f.chunked /\ GoesTo(c, "end")
           /\ fast' = [fast EXCEPT ![c].keep = @ /\ f.parsed]
  BY <1>1, <1>2, <1>5, TakenRight
<1>6. CASE /\ f.chunked /\ 0 \in NextSizes(f) /\ GoesTo(c, "end")
           /\ fast' = [fast EXCEPT ![c].warned = @ \/ ~(Len(f.buf) = f.maxV + 2 /\ f.buf[Len(f.buf)][1] = "crlf")]
  BY <1>1, <1>2, <1>6, LastChunkRight
<1>7. ASSUME NEW next \in NextSizes(f), f.chunked, next > 0,
             fast' = [fast EXCEPT ![c].maxV = f.maxV + 1 + next + 1,
                                  ![c].warned = @ \/ f.maxV + 1 + next + 1 > BufferSize],
             GoesTo(c, IF f.maxV + 1 + next + 1 > BufferSize THEN "end"
                       ELSE IF f.maxV + 1 + next + 1 <= Len(f.buf) THEN "body" ELSE "read")
      PROVE  ClientsInv'
  <2>1. next \in Nat /\ next > 0
    BY <1>3, <1>7
  <2>2. PICK max \in Nat : max = f.maxV + 1 + next + 1
    BY <2>1, <1>2
  <2>3. QED BY <2>1, <2>2, <1>1, <1>2, <1>7, NextChunkRight
<1>8. QED BY <1>1, <1>2, <1>4, <1>5, <1>6, <1>7 DEF ExamineBody

(* The connection is kept, or closed.                                      *)
LEMMA KeepRight ==
  ASSUME ClientsInv, NEW c \in Clients, At(c, "end"), fast[c].keep, CodeIsOK(cl[c].code), ~Reached(fast[c]),
         cl' = [cl EXCEPT ![c].pc = "done", ![c].socket = TRUE], UNCHANGED <<conf, net, fast, echo, made>>
  PROVE  ClientsInv'
<1>1. PICK n \in NetRecords, m \in ClientRecords, f \in FastRecords, e \in EchoRecords, k \in MadeRecords :
        /\ n = net[c] /\ m = cl[c] /\ f = fast[c] /\ e = echo[c] /\ k = made[c]
        /\ ClientRight(n, m, f, e, k)
  BY PartsOf
<1>2. /\ conf.kind = "fast" /\ m.pc = "end" /\ n.up /\ f.keep /\ CodeIsOK(m.code) /\ ~Reached(f)
      /\ conf' = conf /\ net' = net /\ fast' = fast /\ echo' = echo /\ made' = made
  BY <1>1 DEF At, ClientRight, Placed
<1>3. PICK m2 : m2 = [m EXCEPT !.pc = "done", !.socket = TRUE]
  OBVIOUS
<1>4. /\ m2 \in ClientRecords /\ m2.pc = "done" /\ m2.socket = TRUE /\ m2.reused = m.reused /\ m2.code = m.code
      /\ m2.sockets = m.sockets /\ m2.connects = m.connects /\ m2.lookups = m.lookups
      /\ m2.unresolved = m.unresolved
      /\ m2.retries = m.retries /\ m2.tries = m.tries /\ m2.served = m.served /\ m2.whole = m.whole
  BY <1>3, ClientNumbers DEF ClientRecords, Pcs, Codes
<1>5. Moves(cl, cl', c, m2)
  BY <1>1, <1>3 DEF Moves, ClientsInv
<1>6. ClientTyped(n, m2, f, e, k)
  BY <1>1, <1>4 DEF ClientRight, ClientTyped
<1>7. Placed(n, m2) /\ TriesRight(m2)
  BY <1>1, <1>2, <1>4 DEF ClientRight, Placed, TriesRight, ClientRecords
<1>8. Explained(m2, k)
  BY <1>1, <1>2, <1>4, ErrorIsNotOK DEF ClientRight, Explained, ClientRecords, MadeRecords
<1>9. conf.kind = "fast" => FastRight(n, m2, f)
  <2>1. /\ CountsRight(m, f) /\ Leftover(n, f) /\ (m.code = SocketError \/ (f.buf # <<>> /\ (f.rest \/ CodeOwn(m, f))))
        /\ (PlainKept => ~f.warned) /\ (f.rest => f.warned)
    BY <1>1, <1>2 DEF ClientRight, FastRight
  <2>2. CountsRight(m2, f)
    BY <2>1, <1>2, <1>4 DEF CountsRight
  <2>3. m2.code = SocketError \/ (f.buf # <<>> /\ (f.rest \/ CodeOwn(m2, f)))
    BY <2>1, <1>4 DEF CodeOwn
  <2>4. QED BY <2>1, <2>2, <2>3, <1>4 DEF FastRight
<1>10. IsEcho => EchoRight(m2, e)
  BY <1>2 DEF IsEcho
<1>11. conf.kind = "std" => StdRight(m2)
  BY <1>2
<1>12. ClientRight(n, m2, f, e, k)
  BY <1>6, <1>7, <1>8, <1>9, <1>10, <1>11 DEF ClientRight
<1>13. QED
  <2>1. /\ Moves(net, net', c, n) /\ Moves(fast, fast', c, f) /\ Moves(echo, echo', c, e)
        /\ Moves(made, made', c, k)
    BY <1>1, <1>2, Unmoved
  <2>2. QED BY <2>1, <1>2, <1>12, <1>5, OneMoves

(* A connection that is not kept is closed.                                *)
LEMMA CloseRight ==
  ASSUME ClientsInv, NEW c \in Clients, At(c, "end"),
         ~(fast[c].keep /\ CodeIsOK(cl[c].code) /\ ~Reached(fast[c])),
         cl' = [cl EXCEPT ![c].pc = "done", ![c].socket = FALSE], Closed(c),
         UNCHANGED <<conf, fast, echo, made>>
  PROVE  ClientsInv'
<1>1. PICK n \in NetRecords, m \in ClientRecords, f \in FastRecords, e \in EchoRecords, k \in MadeRecords :
        /\ n = net[c] /\ m = cl[c] /\ f = fast[c] /\ e = echo[c] /\ k = made[c]
        /\ ClientRight(n, m, f, e, k)
  BY PartsOf
<1>2. /\ conf.kind = "fast" /\ m.pc = "end" /\ ~(f.keep /\ CodeIsOK(m.code) /\ ~Reached(f))
      /\ conf' = conf /\ fast' = fast /\ echo' = echo /\ made' = made
  BY <1>1 DEF At, ClientRight, Placed
<1>3. PICK n2 : n2 = NoConn
  OBVIOUS
<1>4. /\ n2 \in NetRecords /\ n2.up = FALSE /\ n2.bytes = <<>> /\ n2.end = "open"
  BY <1>3, NoConnTyped
<1>5. Moves(net, net', c, n2)
  BY <1>1, <1>3 DEF Moves, ClientsInv, Closed
<1>6. PICK m2 : m2 = [m EXCEPT !.pc = "done", !.socket = FALSE]
  OBVIOUS
<1>7. /\ m2 \in ClientRecords /\ m2.pc = "done" /\ m2.socket = FALSE /\ m2.reused = m.reused /\ m2.code = m.code
      /\ m2.sockets = m.sockets /\ m2.connects = m.connects /\ m2.lookups = m.lookups
      /\ m2.unresolved = m.unresolved
      /\ m2.retries = m.retries /\ m2.tries = m.tries /\ m2.served = m.served /\ m2.whole = m.whole
  BY <1>6, ClientNumbers DEF ClientRecords, Pcs, Codes
<1>8. Moves(cl, cl', c, m2)
  BY <1>1, <1>6 DEF Moves, ClientsInv, Closed
<1>9. ClientTyped(n2, m2, f, e, k)
  BY <1>1, <1>4, <1>7 DEF ClientRight, ClientTyped
<1>10. Placed(n2, m2) /\ TriesRight(m2)
  BY <1>1, <1>2, <1>4, <1>7 DEF ClientRight, Placed, TriesRight, ClientRecords
<1>11. Explained(m2, k)
  <2>1. Explained(m, k) /\ ~IsEcho
    BY <1>1, <1>2 DEF ClientRight, IsEcho
  <2>2. PlainKept => ~CodeIsOK(m.code)
    <3>1. PlainKept => f.keep
      BY <1>1, <1>2 DEF ClientRight, FastRight
    <3>2. PlainKept => ~Reached(f)
      BY DEF PlainKept, FastRecords, Reached
    <3>3. QED BY <3>1, <3>2, <1>2
  <2>3. QED BY <2>1, <2>2, <1>2, <1>7 DEF Explained
<1>12. conf.kind = "fast" => FastRight(n2, m2, f)
  <2>1. /\ CountsRight(m, f) /\ (m.code = SocketError \/ (f.buf # <<>> /\ (f.rest \/ CodeOwn(m, f))))
        /\ (PlainKept => ~f.warned) /\ (f.rest => f.warned)
    BY <1>1, <1>2 DEF ClientRight, FastRight
  <2>2. CountsRight(m2, f)
    BY <2>1, <1>2, <1>7 DEF CountsRight
  <2>3. m2.code = SocketError \/ (f.buf # <<>> /\ (f.rest \/ CodeOwn(m2, f)))
    BY <2>1, <1>7 DEF CodeOwn
  <2>4. QED BY <2>1, <2>2, <2>3, <1>7 DEF FastRight
<1>13. IsEcho => EchoRight(m2, e)
  BY <1>2 DEF IsEcho
<1>14. conf.kind = "std" => StdRight(m2)
  BY <1>2
<1>15. ClientRight(n2, m2, f, e, k)
  BY <1>9, <1>10, <1>11, <1>12, <1>13, <1>14 DEF ClientRight
<1>16. QED
  <2>1. Moves(fast, fast', c, f) /\ Moves(echo, echo', c, e) /\ Moves(made, made', c, k)
    BY <1>1, <1>2, Unmoved
  <2>2. QED BY <2>1, <1>2, <1>15, <1>5, <1>8, OneMoves

(* The socket is kept only when nothing is left to read, but with a        *)
(* warning.                                                                *)
LEMMA KeepOrCloseRight ==
  ASSUME ClientsInv, NEW c \in Clients, KeepOrClose(c), UNCHANGED <<conf, echo, made>> PROVE ClientsInv'
<1>1. PICK q \in BOOLEAN : q = (fast[c].keep /\ CodeIsOK(cl[c].code) /\ ~Reached(fast[c]))
  OBVIOUS
<1>2. /\ At(c, "end") /\ cl' = [cl EXCEPT ![c].pc = "done", ![c].socket = q]
      /\ IF q THEN UNCHANGED net ELSE Closed(c)
      /\ UNCHANGED <<conf, fast, echo, made>>
  BY <1>1 DEF KeepOrClose
<1>3. CASE q = TRUE
  <2>1. fast[c].keep /\ CodeIsOK(cl[c].code) /\ ~Reached(fast[c])
    BY <1>1, <1>3
  <2>2. QED BY <2>1, <1>2, <1>3, KeepRight
<1>4. CASE q = FALSE
  <2>1. ~(fast[c].keep /\ CodeIsOK(cl[c].code) /\ ~Reached(fast[c]))
    BY <1>1, <1>4
  <2>2. QED BY <2>1, <1>2, <1>4, CloseRight
<1>5. QED BY <1>3, <1>4

(* Either way, the look-up is counted.                                     *)
LEMMA ResolvedRight ==
  ASSUME ClientsInv, NEW c \in Clients, Resolved(c), UNCHANGED <<conf, echo, made>> PROVE ClientsInv'
BY ResolvedWell, ResolvedBadly DEF Resolved

(* FastClient keeps what is known of the clients.                          *)
LEMMA FastStepRight ==
  ASSUME ClientsInv, NEW c \in Clients, FastStep(c), UNCHANGED <<conf, echo, made>> PROVE ClientsInv'
BY StreamFetchRight, ConnectRight, ResolvedRight, DialRight, DialFailsRight, WriteFailsRight, WriteRight,
   ReadRight, ReadsNothingRight, ReadFailsRight, ParseStatusRight, ParseHeadersRight, ParseRestRight,
   ExamineBodyRight, KeepOrCloseRight DEF FastStep

-----------------------------------------------------------------------------
(* The clients of tcp and udp.                                             *)

(* What does not change the clients keeps what is known of them.           *)
LEMMA ClientsStutter ==
  ASSUME ClientsInv, UNCHANGED <<conf, net, cl, fast, echo, made>> PROVE ClientsInv'
<1>1. ASSUME NEW c \in Clients PROVE ClientRight(net[c], cl[c], fast[c], echo[c], made[c])'
  <2>1. PICK n, m, f, e, k : n = net[c] /\ m = cl[c] /\ f = fast[c] /\ e = echo[c] /\ k = made[c]
    OBVIOUS
  <2>2. ClientRight(n, m, f, e, k)
    BY <2>1 DEF ClientsInv
  <2>3. ClientRight(n, m, f, e, k)'
    BY <2>2, SameConf
  <2>4. QED BY <2>1, <2>3
<1>2. QED BY <1>1 DEF ClientsInv

(* The counts of an echo client are numbers.                               *)
LEMMA EchoNumbers ==
  ASSUME NEW e \in EchoRecords
  PROVE  /\ e.messages + 1 \in Nat /\ e.sent \in Nat /\ e.received \in Nat /\ e.acked \in Nat
         /\ e.requests \in Nat
         /\ e.errors \in Nat /\ e.got \in Seq(Units) /\ <<>> \in Seq(Units) /\ e.messages \in Nat
BY DEF EchoRecords

(* A message is a sequence of its units.                                   *)
LEMMA RequestTyped ==
  ASSUME conf \in Confs, NEW e \in EchoRecords
  PROVE  Request(e) \in Seq(Units) /\ Len(Request(e)) \in Nat /\ Len(Request(e)) >= 1
<1>1. PICK l \in Nat \ {0} : l = MessageSize + (IF conf.wide THEN 1 ELSE 0)
  BY MessageAssumption
<1>2. Unit(Message(e)) \in Units
  BY EchoNumbers DEF Unit, Units, Message
<1>3. Request(e) = [i \in 1 .. l |-> Unit(Message(e))]
  BY <1>1 DEF Request
<1>4. QED BY <1>1, <1>2, <1>3

(* The beginning of a call takes the socket from the client.               *)
LEMMA EchoFetchRight ==
  ASSUME ClientsInv, NEW c \in Clients, EchoFetch(c), UNCHANGED <<conf, made>> PROVE ClientsInv'
<1>1. PICK n \in NetRecords, m \in ClientRecords, f \in FastRecords, e \in EchoRecords, k \in MadeRecords :
        /\ n = net[c] /\ m = cl[c] /\ f = fast[c] /\ e = echo[c] /\ k = made[c]
        /\ ClientRight(n, m, f, e, k)
  BY PartsOf
<1>2. /\ IsEcho /\ m.pc \in {"called", "again"} /\ m.socket \in BOOLEAN
      /\ conf' = conf /\ net' = net /\ fast' = fast /\ made' = made
  BY <1>1 DEF EchoFetch, At, ClientRecords
<1>3. PICK m2 :
           m2 = [m EXCEPT !.pc = IF m.socket THEN "write" ELSE "connect", !.reused = m.socket, !.socket = FALSE, !.code = SocketError]
  OBVIOUS
<1>4. /\ m2 \in ClientRecords /\ m2.pc = (IF m.socket THEN "write" ELSE "connect") /\ m2.socket = FALSE
      /\ m2.reused = m.socket /\ m2.code = SocketError /\ m2.sockets = m.sockets /\ m2.connects = m.connects
      /\ m2.lookups = m.lookups /\ m2.unresolved = m.unresolved /\ m2.retries = m.retries /\ m2.tries = m.tries
      /\ m2.served = m.served /\ m2.whole = m.whole
  BY <1>3, <1>2, ClientNumbers, ZenonT(60) DEF ClientRecords, Pcs, Codes
<1>5. Moves(cl, cl', c, m2)
  BY <1>1, <1>3 DEF Moves, ClientsInv, EchoFetch
<1>6. PICK e2 : e2 = [e EXCEPT !.messages = e.messages + 1, !.got = <<>>]
  OBVIOUS
<1>7. /\ e2 \in EchoRecords /\ e2.messages = (e.messages + 1) /\ e2.got = <<>> /\ e2.sent = e.sent
      /\ e2.received = e.received /\ e2.acked = e.acked /\ e2.requests = e.requests /\ e2.errors = e.errors
  BY <1>6, EchoNumbers DEF EchoRecords
<1>8. Moves(echo, echo', c, e2)
  BY <1>1, <1>6 DEF Moves, ClientsInv, EchoFetch
<1>9. ClientTyped(n, m2, f, e2, k)
  BY <1>1, <1>4, <1>7, MessageAssumption DEF ClientRight, ClientTyped
<1>10. Placed(n, m2) /\ TriesRight(m2)
  <2>1. Placed(n, m) /\ TriesRight(m) /\ conf.kind \in {"tcp", "udp"}
    BY <1>1, <1>2 DEF ClientRight, IsEcho
  <2>2. Placed(n, m2)
    BY <2>1, <1>2, <1>4 DEF Placed
  <2>3. TriesRight(m2)
    BY <2>1, <1>2, <1>4 DEF Placed, TriesRight, ClientRecords
  <2>4. QED BY <2>2, <2>3
<1>11. Explained(m2, k)
  BY <1>1, <1>2, <1>4, <1>7, ErrorIsNotOK DEF ClientRight, Explained, ClientRecords, MadeRecords
<1>12. conf.kind = "fast" => FastRight(n, m2, f)
  BY <1>2 DEF IsEcho
<1>13. IsEcho => EchoRight(m2, e2)
  BY <1>1, <1>2, <1>4, <1>7 DEF ClientRight, EchoRight
<1>14. conf.kind = "std" => StdRight(m2)
  BY <1>2 DEF IsEcho
<1>15. ClientRight(n, m2, f, e2, k)
  BY <1>9, <1>10, <1>11, <1>12, <1>13, <1>14 DEF ClientRight
<1>16. QED
  <2>1. Moves(net, net', c, n) /\ Moves(fast, fast', c, f) /\ Moves(made, made', c, k)
    BY <1>1, <1>2, Unmoved
  <2>2. QED BY <2>1, <1>2, <1>15, <1>5, <1>8, OneMoves

(* The connection is made.                                                 *)
LEMMA EchoDialRight ==
  ASSUME ClientsInv, NEW c \in Clients, At(c, "connect"), IsEcho, Dialed(c),
         UNCHANGED <<conf, fast, echo, made>>,
         cl' = [cl EXCEPT ![c].pc = "write", ![c].sockets = @ + 1, ![c].connects = @ + 1]
  PROVE  ClientsInv'
<1>1. PICK n \in NetRecords, m \in ClientRecords, f \in FastRecords, e \in EchoRecords, k \in MadeRecords :
        /\ n = net[c] /\ m = cl[c] /\ f = fast[c] /\ e = echo[c] /\ k = made[c]
        /\ ClientRight(n, m, f, e, k)
  BY PartsOf
<1>2. /\ IsEcho /\ m.pc = "connect"
      /\ conf' = conf /\ fast' = fast /\ echo' = echo /\ made' = made
  BY <1>1 DEF At
<1>3. PICK n2 : n2 = [NoConn EXCEPT !.up = TRUE]
  OBVIOUS
<1>4. /\ n2 \in NetRecords /\ n2.up = TRUE /\ n2.bytes = <<>> /\ n2.end = "open"
  BY <1>3, NoConnTyped
<1>5. Moves(net, net', c, n2)
  BY <1>1, <1>3 DEF Moves, ClientsInv, Dialed
<1>6. PICK m2 : m2 = [m EXCEPT !.pc = "write", !.sockets = m.sockets + 1, !.connects = m.connects + 1]
  OBVIOUS
<1>7. /\ m2 \in ClientRecords /\ m2.pc = "write" /\ m2.sockets = (m.sockets + 1)
      /\ m2.connects = (m.connects + 1)
      /\ m2.socket = m.socket /\ m2.reused = m.reused /\ m2.code = m.code /\ m2.lookups = m.lookups
      /\ m2.unresolved = m.unresolved /\ m2.retries = m.retries /\ m2.tries = m.tries /\ m2.served = m.served
      /\ m2.whole = m.whole
  BY <1>6, ClientNumbers DEF ClientRecords, Pcs, Codes
<1>8. Moves(cl, cl', c, m2)
  BY <1>1, <1>6 DEF Moves, ClientsInv, Dialed
<1>9. ClientTyped(n2, m2, f, e, k)
  BY <1>1, <1>4, <1>7 DEF ClientRight, ClientTyped
<1>10. Placed(n2, m2) /\ TriesRight(m2)
  BY <1>1, <1>2, <1>4, <1>7 DEF ClientRight, Placed, TriesRight, ClientRecords
<1>11. Explained(m2, k)
  <2>1. m.sockets <= k.failed + m.retries
    BY <1>1, <1>2 DEF ClientRight, Explained
  <2>2. k.failed \in Nat /\ m.retries \in Nat /\ m.sockets \in Nat
    BY ClientNumbers DEF MadeRecords
  <2>3. m2.sockets <= 1 + k.failed + m2.retries
    BY <2>1, <2>2, <1>7
  <2>4. QED BY <2>3, <1>7 DEF Explained
<1>12. conf.kind = "fast" => FastRight(n2, m2, f)
  BY <1>2 DEF IsEcho
<1>13. IsEcho => EchoRight(m2, e)
  BY <1>1, <1>2, <1>4, <1>7 DEF ClientRight, EchoRight
<1>14. conf.kind = "std" => StdRight(m2)
  BY <1>2 DEF IsEcho
<1>15. ClientRight(n2, m2, f, e, k)
  BY <1>9, <1>10, <1>11, <1>12, <1>13, <1>14 DEF ClientRight
<1>16. QED
  <2>1. Moves(fast, fast', c, f) /\ Moves(echo, echo', c, e) /\ Moves(made, made', c, k)
    BY <1>1, <1>2, Unmoved
  <2>2. QED BY <2>1, <1>2, <1>15, <1>5, <1>8, OneMoves

(* It is not: the call is over.                                            *)
LEMMA EchoDialFailsRight ==
  ASSUME ClientsInv, NEW c \in Clients, At(c, "connect"), IsEcho, UNCHANGED <<conf, net, fast, echo, made>>,
         cl' = [cl EXCEPT ![c].pc = "done", ![c].sockets = @ + 1, ![c].connects = @ + 1]
  PROVE  ClientsInv'
<1>1. PICK n \in NetRecords, m \in ClientRecords, f \in FastRecords, e \in EchoRecords, k \in MadeRecords :
        /\ n = net[c] /\ m = cl[c] /\ f = fast[c] /\ e = echo[c] /\ k = made[c]
        /\ ClientRight(n, m, f, e, k)
  BY PartsOf
<1>2. /\ IsEcho /\ m.pc = "connect" /\ m.code = SocketError
      /\ conf' = conf /\ net' = net /\ fast' = fast /\ echo' = echo /\ made' = made
  BY <1>1 DEF At, ClientRight, Placed
<1>3. PICK m2 : m2 = [m EXCEPT !.pc = "done", !.sockets = m.sockets + 1, !.connects = m.connects + 1]
  OBVIOUS
<1>4. /\ m2 \in ClientRecords /\ m2.pc = "done" /\ m2.sockets = (m.sockets + 1)
      /\ m2.connects = (m.connects + 1)
      /\ m2.socket = m.socket /\ m2.reused = m.reused /\ m2.code = m.code /\ m2.lookups = m.lookups
      /\ m2.unresolved = m.unresolved /\ m2.retries = m.retries /\ m2.tries = m.tries /\ m2.served = m.served
      /\ m2.whole = m.whole
  BY <1>3, ClientNumbers DEF ClientRecords, Pcs, Codes
<1>5. Moves(cl, cl', c, m2)
  BY <1>1, <1>3 DEF Moves, ClientsInv
<1>6. ClientTyped(n, m2, f, e, k)
  BY <1>1, <1>4 DEF ClientRight, ClientTyped
<1>7. Placed(n, m2) /\ TriesRight(m2)
  BY <1>1, <1>2, <1>4 DEF ClientRight, Placed, TriesRight, ClientRecords
<1>8. Explained(m2, k)
  BY <1>1, <1>2, <1>4, ErrorIsNotOK DEF ClientRight, Explained, ClientRecords, MadeRecords
<1>9. conf.kind = "fast" => FastRight(n, m2, f)
  BY <1>2 DEF IsEcho
<1>10. IsEcho => EchoRight(m2, e)
  BY <1>1, <1>2, <1>4 DEF ClientRight, EchoRight
<1>11. conf.kind = "std" => StdRight(m2)
  BY <1>2 DEF IsEcho
<1>12. ClientRight(n, m2, f, e, k)
  BY <1>6, <1>7, <1>8, <1>9, <1>10, <1>11 DEF ClientRight
<1>13. QED
  <2>1. /\ Moves(net, net', c, n) /\ Moves(fast, fast', c, f) /\ Moves(echo, echo', c, e)
        /\ Moves(made, made', c, k)
    BY <1>1, <1>2, Unmoved
  <2>2. QED BY <2>1, <1>2, <1>12, <1>5, OneMoves

(* The message is sent, and something will come back, or nothing.          *)
LEMMA EchoSendsRight ==
  ASSUME ClientsInv, NEW c \in Clients, At(c, "write"), IsEcho, NEW b \in Stream, NEW x \in Ends, NEW l \in Nat,
         net' = [net EXCEPT ![c].bytes = b, ![c].end = x], UNCHANGED <<conf, fast, made>>,
         cl' = [cl EXCEPT ![c].pc = "read", ![c].tries = @ + 1], echo' = [echo EXCEPT ![c].sent = @ + l]
  PROVE  ClientsInv'
<1>1. PICK n \in NetRecords, m \in ClientRecords, f \in FastRecords, e \in EchoRecords, k \in MadeRecords :
        /\ n = net[c] /\ m = cl[c] /\ f = fast[c] /\ e = echo[c] /\ k = made[c]
        /\ ClientRight(n, m, f, e, k)
  BY PartsOf
<1>2. /\ IsEcho /\ m.pc = "write" /\ m.socket = FALSE /\ m.code = SocketError
      /\ conf' = conf /\ fast' = fast /\ made' = made
  BY <1>1 DEF At, ClientRight, Placed, ClientRecords
<1>3. m.tries + 1 \in 0 .. 2 /\ e.sent + l \in Nat
  BY <1>1, <1>2, EchoNumbers DEF ClientRight, TriesRight, ClientRecords
<1>4. PICK n2 : n2 = [n EXCEPT !.bytes = b, !.end = x]
  OBVIOUS
<1>5. /\ n2 \in NetRecords /\ n2.bytes = b /\ n2.end = x /\ n2.up = n.up
  BY <1>4 DEF NetRecords, Ends, NoConn
<1>6. Moves(net, net', c, n2)
  BY <1>1, <1>4 DEF Moves, ClientsInv
<1>7. PICK m2 : m2 = [m EXCEPT !.pc = "read", !.tries = m.tries + 1]
  OBVIOUS
<1>8. /\ m2 \in ClientRecords /\ m2.pc = "read" /\ m2.tries = (m.tries + 1) /\ m2.socket = m.socket
      /\ m2.reused = m.reused /\ m2.code = m.code /\ m2.sockets = m.sockets /\ m2.connects = m.connects
      /\ m2.lookups = m.lookups /\ m2.unresolved = m.unresolved /\ m2.retries = m.retries
      /\ m2.served = m.served
      /\ m2.whole = m.whole
  BY <1>7, <1>3, ClientNumbers DEF ClientRecords, Pcs, Codes
<1>9. Moves(cl, cl', c, m2)
  BY <1>1, <1>7 DEF Moves, ClientsInv
<1>10. PICK e2 : e2 = [e EXCEPT !.sent = e.sent + l]
  OBVIOUS
<1>11. /\ e2 \in EchoRecords /\ e2.sent = (e.sent + l) /\ e2.messages = e.messages /\ e2.received = e.received
       /\ e2.got = e.got /\ e2.acked = e.acked /\ e2.requests = e.requests /\ e2.errors = e.errors
  BY <1>10, <1>3, EchoNumbers DEF EchoRecords
<1>12. Moves(echo, echo', c, e2)
  BY <1>1, <1>10 DEF Moves, ClientsInv
<1>13. ClientTyped(n2, m2, f, e2, k)
  BY <1>1, <1>5, <1>8, <1>11 DEF ClientRight, ClientTyped
<1>14. Placed(n2, m2) /\ TriesRight(m2)
  BY <1>1, <1>2, <1>5, <1>8, <1>11 DEF ClientRight, Placed, TriesRight, ClientRecords
<1>15. Explained(m2, k)
  BY <1>1, <1>2, <1>5, <1>8, <1>11, ErrorIsNotOK DEF ClientRight, Explained, ClientRecords, MadeRecords
<1>16. conf.kind = "fast" => FastRight(n2, m2, f)
  BY <1>2 DEF IsEcho
<1>17. IsEcho => EchoRight(m2, e2)
  BY <1>1, <1>2, <1>5, <1>8, <1>11 DEF ClientRight, EchoRight
<1>18. conf.kind = "std" => StdRight(m2)
  BY <1>2 DEF IsEcho
<1>19. ClientRight(n2, m2, f, e2, k)
  BY <1>13, <1>14, <1>15, <1>16, <1>17, <1>18 DEF ClientRight
<1>20. QED
  <2>1. Moves(fast, fast', c, f) /\ Moves(made, made', c, k)
    BY <1>1, <1>2, Unmoved
  <2>2. QED BY <2>1, <1>2, <1>19, <1>6, <1>9, <1>12, OneMoves

(* The server had closed: nothing will.                                    *)
LEMMA EchoUnheardRight ==
  ASSUME ClientsInv, NEW c \in Clients, At(c, "write"), IsEcho, NEW l \in Nat,
         UNCHANGED <<conf, net, fast, made>>,
         cl' = [cl EXCEPT ![c].pc = "read", ![c].tries = @ + 1], echo' = [echo EXCEPT ![c].sent = @ + l]
  PROVE  ClientsInv'
<1>1. PICK n \in NetRecords, m \in ClientRecords, f \in FastRecords, e \in EchoRecords, k \in MadeRecords :
        /\ n = net[c] /\ m = cl[c] /\ f = fast[c] /\ e = echo[c] /\ k = made[c]
        /\ ClientRight(n, m, f, e, k)
  BY PartsOf
<1>2. /\ IsEcho /\ m.pc = "write" /\ m.socket = FALSE /\ m.code = SocketError
      /\ conf' = conf /\ net' = net /\ fast' = fast /\ made' = made
  BY <1>1 DEF At, ClientRight, Placed, ClientRecords
<1>3. m.tries + 1 \in 0 .. 2 /\ e.sent + l \in Nat
  BY <1>1, <1>2, EchoNumbers DEF ClientRight, TriesRight, ClientRecords
<1>4. PICK m2 : m2 = [m EXCEPT !.pc = "read", !.tries = m.tries + 1]
  OBVIOUS
<1>5. /\ m2 \in ClientRecords /\ m2.pc = "read" /\ m2.tries = (m.tries + 1) /\ m2.socket = m.socket
      /\ m2.reused = m.reused /\ m2.code = m.code /\ m2.sockets = m.sockets /\ m2.connects = m.connects
      /\ m2.lookups = m.lookups /\ m2.unresolved = m.unresolved /\ m2.retries = m.retries
      /\ m2.served = m.served
      /\ m2.whole = m.whole
  BY <1>4, <1>3, ClientNumbers DEF ClientRecords, Pcs, Codes
<1>6. Moves(cl, cl', c, m2)
  BY <1>1, <1>4 DEF Moves, ClientsInv
<1>7. PICK e2 : e2 = [e EXCEPT !.sent = e.sent + l]
  OBVIOUS
<1>8. /\ e2 \in EchoRecords /\ e2.sent = (e.sent + l) /\ e2.messages = e.messages /\ e2.received = e.received
      /\ e2.got = e.got /\ e2.acked = e.acked /\ e2.requests = e.requests /\ e2.errors = e.errors
  BY <1>7, <1>3, EchoNumbers DEF EchoRecords
<1>9. Moves(echo, echo', c, e2)
  BY <1>1, <1>7 DEF Moves, ClientsInv
<1>10. ClientTyped(n, m2, f, e2, k)
  BY <1>1, <1>5, <1>8 DEF ClientRight, ClientTyped
<1>11. Placed(n, m2) /\ TriesRight(m2)
  BY <1>1, <1>2, <1>5, <1>8 DEF ClientRight, Placed, TriesRight, ClientRecords
<1>12. Explained(m2, k)
  BY <1>1, <1>2, <1>5, <1>8, ErrorIsNotOK DEF ClientRight, Explained, ClientRecords, MadeRecords
<1>13. conf.kind = "fast" => FastRight(n, m2, f)
  BY <1>2 DEF IsEcho
<1>14. IsEcho => EchoRight(m2, e2)
  BY <1>1, <1>2, <1>5, <1>8 DEF ClientRight, EchoRight
<1>15. conf.kind = "std" => StdRight(m2)
  BY <1>2 DEF IsEcho
<1>16. ClientRight(n, m2, f, e2, k)
  BY <1>10, <1>11, <1>12, <1>13, <1>14, <1>15 DEF ClientRight
<1>17. QED
  <2>1. Moves(net, net', c, n) /\ Moves(fast, fast', c, f) /\ Moves(made, made', c, k)
    BY <1>1, <1>2, Unmoved
  <2>2. QED BY <2>1, <1>2, <1>16, <1>6, <1>9, OneMoves

(* Either way the reading begins.                                          *)
LEMMA EchoWriteRight ==
  ASSUME ClientsInv, NEW c \in Clients, EchoWrite(c), UNCHANGED <<conf, made>> PROVE ClientsInv'
<1>1. PICK n \in NetRecords, e \in EchoRecords : n = net[c] /\ e = echo[c]
  BY PartsOf
<1>2. PICK r \in Seq(Units), l \in Nat : r = Request(e) /\ l = Len(r) /\ l >= 1
  BY RequestTyped DEF ClientsInv
<1>3. /\ At(c, "write") /\ IsEcho /\ UNCHANGED <<conf, fast, made>>
      /\ cl' = [cl EXCEPT ![c].pc = "read", ![c].tries = @ + 1] /\ echo' = [echo EXCEPT ![c].sent = @ + l]
  BY <1>1, <1>2 DEF EchoWrite
<1>4. ASSUME NEW s, NEW x \in Ends, Sends(c, s, x), n.bytes \o s \in Stream PROVE ClientsInv'
  <2>1. PICK b \in Stream : b = n.bytes \o s
    BY <1>4
  <2>2. net' = [net EXCEPT ![c].bytes = b, ![c].end = x]
    BY <2>1, <1>1, <1>4 DEF Sends
  <2>3. QED BY <2>2, <1>3, EchoSendsRight
<1>5. CASE conf.kind = "tcp" /\ \E y \in Replies(c) : Sends(c, y[1], y[2])
  <2>1. PICK y \in Replies(c) : Sends(c, y[1], y[2])
    BY <1>5
  <2>2. [r EXCEPT ![1] = Unit(-1)] \in Seq(Units) /\ r \o r \in Seq(Units)
    BY <1>2 DEF Unit, Units
  <2>3. \A i \in 0 .. Len(r) : SubSeq(r, 1, i) \in Seq(Units)
    BY PrefixShape
  <2>4. y[1] \in Seq(Units) /\ y[2] \in Ends
    <3>1. CASE y \in {<<bytes, "open">> : bytes \in {r, [r EXCEPT ![1] = Unit(-1)], r \o r}}
      <4>1. PICK s \in {r, [r EXCEPT ![1] = Unit(-1)], r \o r} : y = <<s, "open">>
        BY <3>1
      <4>2. y[1] = s /\ y[2] = "open"
        BY <4>1
      <4>3. QED BY <4>2, <2>2 DEF Ends
    <3>2. CASE y \in {<<SubSeq(r, 1, i), x>> : i \in 0 .. Len(r), x \in Ends}
      BY <3>2, <2>3
    <3>3. QED BY <3>1, <3>2, <2>1, <1>1, <1>2 DEF Replies
  <2>5. Stream = Seq(Units) /\ n.bytes \in Seq(Units)
    BY <1>5 DEF Stream, NetRecords
  <2>6. n.bytes \o y[1] \in Stream
    BY <2>4, <2>5, ConcatProperties
  <2>7. QED BY <2>1, <2>4, <2>6, <1>4
<1>6. CASE DatagramSent(c)
  <2>1. PICK y \in Datagrams(c) : Sends(c, y[1], y[2])
    BY <1>6 DEF DatagramSent
  <2>2. Tail(r) \in Seq(Units)
    BY <1>2
  <2>3. y[1] \in Seq(Seq(Units)) /\ y[2] \in Ends
    <3>1. PICK s \in {<<>>, <<r>>, <<r, r>>, <<Tail(r)>>} : y = <<s, "open">>
      BY <2>1, <1>1, <1>2 DEF Datagrams
    <3>2. s \in Seq(Seq(Units))
      <4>1. PICK t : t = Tail(r) /\ t \in Seq(Units)
        BY <2>2
      <4>2. /\ <<>> \in Seq(Seq(Units)) /\ <<r>> \in Seq(Seq(Units)) /\ <<r, r>> \in Seq(Seq(Units))
            /\ <<t>> \in Seq(Seq(Units))
        BY <4>1, <1>2
      <4>3. QED BY <4>1, <4>2, <3>1
    <3>3. QED BY <3>1, <3>2 DEF Ends
  <2>4. Stream = Seq(Seq(Units)) /\ n.bytes \in Seq(Seq(Units))
    BY <1>6 DEF DatagramSent, Stream, NetRecords
  <2>5. n.bytes \o y[1] \in Stream
    BY <2>3, <2>4, ConcatProperties
  <2>6. QED BY <2>1, <2>3, <2>5, <1>4
<1>7. CASE Unheard(c)
  BY <1>3, <1>7, EchoUnheardRight DEF Unheard
<1>8. QED BY <1>5, <1>6, <1>7 DEF EchoWrite

(* There is more to read.                                                  *)
LEMMA EchoMoreRight ==
  ASSUME ClientsInv, NEW c \in Clients, At(c, "read"), IsEcho, NEW b \in Stream, NEW g \in Seq(Units),
         NEW r \in Nat, Len(g) <= MessageSize,
         net' = [net EXCEPT ![c].bytes = b], echo' = [echo EXCEPT ![c].got = g, ![c].received = @ + r],
         UNCHANGED <<conf, cl, fast, made>>
  PROVE  ClientsInv'
<1>1. PICK n \in NetRecords, m \in ClientRecords, f \in FastRecords, e \in EchoRecords, k \in MadeRecords :
        /\ n = net[c] /\ m = cl[c] /\ f = fast[c] /\ e = echo[c] /\ k = made[c]
        /\ ClientRight(n, m, f, e, k)
  BY PartsOf
<1>2. /\ IsEcho /\ m.pc = "read" /\ m.code = SocketError
      /\ conf' = conf /\ cl' = cl /\ fast' = fast /\ made' = made
  BY <1>1 DEF At, ClientRight, EchoRight
<1>3. e.received + r \in Nat
  BY EchoNumbers
<1>4. PICK n2 : n2 = [n EXCEPT !.bytes = b]
  OBVIOUS
<1>5. /\ n2 \in NetRecords /\ n2.bytes = b /\ n2.up = n.up /\ n2.end = n.end
  BY <1>4 DEF NetRecords, Ends, NoConn
<1>6. Moves(net, net', c, n2)
  BY <1>1, <1>4 DEF Moves, ClientsInv
<1>7. PICK e2 : e2 = [e EXCEPT !.got = g, !.received = e.received + r]
  OBVIOUS
<1>8. /\ e2 \in EchoRecords /\ e2.received = (e.received + r) /\ e2.got = g /\ e2.messages = e.messages
      /\ e2.sent = e.sent /\ e2.acked = e.acked /\ e2.requests = e.requests /\ e2.errors = e.errors
  BY <1>7, <1>3, EchoNumbers DEF EchoRecords
<1>9. Moves(echo, echo', c, e2)
  BY <1>1, <1>7 DEF Moves, ClientsInv
<1>10. ClientTyped(n2, m, f, e2, k)
  BY <1>1, <1>5, <1>8 DEF ClientRight, ClientTyped
<1>11. Placed(n2, m) /\ TriesRight(m)
  BY <1>1, <1>2, <1>5, <1>8 DEF ClientRight, Placed, TriesRight, ClientRecords
<1>12. Explained(m, k)
  BY <1>1, <1>2, <1>5, <1>8, ErrorIsNotOK DEF ClientRight, Explained, ClientRecords, MadeRecords
<1>13. conf.kind = "fast" => FastRight(n2, m, f)
  BY <1>2 DEF IsEcho
<1>14. IsEcho => EchoRight(m, e2)
  BY <1>1, <1>2, <1>5, <1>8 DEF ClientRight, EchoRight
<1>15. conf.kind = "std" => StdRight(m)
  BY <1>2 DEF IsEcho
<1>16. ClientRight(n2, m, f, e2, k)
  BY <1>10, <1>11, <1>12, <1>13, <1>14, <1>15 DEF ClientRight
<1>17. QED
  <2>1. Moves(cl, cl', c, m) /\ Moves(fast, fast', c, f) /\ Moves(made, made', c, k)
    BY <1>1, <1>2, Unmoved
  <2>2. QED BY <2>1, <1>2, <1>16, <1>6, <1>9, OneMoves

(* What was read is the message: the socket is kept.                       *)
LEMMA EchoGoodRight ==
  ASSUME ClientsInv, NEW c \in Clients, At(c, "read"), IsEcho, NEW b \in Stream, NEW g \in Seq(Units),
         NEW r \in Nat, Len(g) <= MessageSize,
         net' = [net EXCEPT ![c].bytes = b], echo' = [echo EXCEPT ![c].got = g, ![c].received = @ + r],
         g = Request(echo[c]), UNCHANGED <<conf, fast, made>>,
         cl' = [cl EXCEPT ![c].pc = "done", ![c].socket = TRUE, ![c].code = 200]
  PROVE  ClientsInv'
<1>1. PICK n \in NetRecords, m \in ClientRecords, f \in FastRecords, e \in EchoRecords, k \in MadeRecords :
        /\ n = net[c] /\ m = cl[c] /\ f = fast[c] /\ e = echo[c] /\ k = made[c]
        /\ ClientRight(n, m, f, e, k)
  BY PartsOf
<1>2. /\ IsEcho /\ m.pc = "read" /\ m.code = SocketError /\ n.up
      /\ conf' = conf /\ fast' = fast /\ made' = made
  BY <1>1 DEF At, ClientRight, EchoRight, Placed
<1>3. e.received + r \in Nat
  BY EchoNumbers
<1>4. PICK n2 : n2 = [n EXCEPT !.bytes = b]
  OBVIOUS
<1>5. /\ n2 \in NetRecords /\ n2.bytes = b /\ n2.up = n.up /\ n2.end = n.end
  BY <1>4 DEF NetRecords, Ends, NoConn
<1>6. Moves(net, net', c, n2)
  BY <1>1, <1>4 DEF Moves, ClientsInv
<1>7. PICK m2 : m2 = [m EXCEPT !.pc = "done", !.socket = TRUE, !.code = 200]
  OBVIOUS
<1>8. /\ m2 \in ClientRecords /\ m2.pc = "done" /\ m2.socket = TRUE /\ m2.code = 200 /\ m2.reused = m.reused
      /\ m2.sockets = m.sockets /\ m2.connects = m.connects /\ m2.lookups = m.lookups
      /\ m2.unresolved = m.unresolved
      /\ m2.retries = m.retries /\ m2.tries = m.tries /\ m2.served = m.served /\ m2.whole = m.whole
  BY <1>7, ClientNumbers, ZenonT(60) DEF ClientRecords, Pcs, Codes
<1>9. Moves(cl, cl', c, m2)
  BY <1>1, <1>7 DEF Moves, ClientsInv
<1>10. PICK e2 : e2 = [e EXCEPT !.got = g, !.received = e.received + r]
  OBVIOUS
<1>11. /\ e2 \in EchoRecords /\ e2.received = (e.received + r) /\ e2.got = g /\ e2.messages = e.messages
       /\ e2.sent = e.sent /\ e2.acked = e.acked /\ e2.requests = e.requests /\ e2.errors = e.errors
  BY <1>10, <1>3, EchoNumbers DEF EchoRecords
<1>12. Moves(echo, echo', c, e2)
  BY <1>1, <1>10 DEF Moves, ClientsInv
<1>13. ClientTyped(n2, m2, f, e2, k)
  BY <1>1, <1>5, <1>8, <1>11 DEF ClientRight, ClientTyped
<1>14. Placed(n2, m2) /\ TriesRight(m2)
  BY <1>1, <1>2, <1>5, <1>8, <1>11 DEF ClientRight, Placed, TriesRight, ClientRecords
<1>15. Explained(m2, k)
  BY <1>1, <1>2, <1>5, <1>8, <1>11, ErrorIsNotOK DEF ClientRight, Explained, ClientRecords, MadeRecords
<1>16. conf.kind = "fast" => FastRight(n2, m2, f)
  BY <1>2 DEF IsEcho
<1>17. IsEcho => EchoRight(m2, e2)
  <2>1. Request(e2) = Request(e)
    BY <1>11 DEF Request, Message
  <2>2. QED BY <2>1, <1>1, <1>2, <1>8, <1>11 DEF EchoRight
<1>18. conf.kind = "std" => StdRight(m2)
  BY <1>2 DEF IsEcho
<1>19. ClientRight(n2, m2, f, e2, k)
  BY <1>13, <1>14, <1>15, <1>16, <1>17, <1>18 DEF ClientRight
<1>20. QED
  <2>1. Moves(fast, fast', c, f) /\ Moves(made, made', c, k)
    BY <1>1, <1>2, Unmoved
  <2>2. QED BY <2>1, <1>2, <1>19, <1>6, <1>9, <1>12, OneMoves

(* It is not: an error, and the socket is not kept.                        *)
LEMMA EchoBadRight ==
  ASSUME ClientsInv, NEW c \in Clients, At(c, "read"), IsEcho, NEW b \in Stream, NEW g \in Seq(Units),
         NEW r \in Nat, Len(g) <= MessageSize,
         net' = [net EXCEPT ![c].bytes = b], echo' = [echo EXCEPT ![c].got = g, ![c].received = @ + r],
         UNCHANGED <<conf, fast, made>>,
         cl' = [cl EXCEPT ![c].pc = "done", ![c].socket = FALSE, ![c].code = SocketError]
  PROVE  ClientsInv'
<1>1. PICK n \in NetRecords, m \in ClientRecords, f \in FastRecords, e \in EchoRecords, k \in MadeRecords :
        /\ n = net[c] /\ m = cl[c] /\ f = fast[c] /\ e = echo[c] /\ k = made[c]
        /\ ClientRight(n, m, f, e, k)
  BY PartsOf
<1>2. /\ IsEcho /\ m.pc = "read" /\ m.code = SocketError /\ n.up
      /\ conf' = conf /\ fast' = fast /\ made' = made
  BY <1>1 DEF At, ClientRight, EchoRight, Placed
<1>3. e.received + r \in Nat
  BY EchoNumbers
<1>4. PICK n2 : n2 = [n EXCEPT !.bytes = b]
  OBVIOUS
<1>5. /\ n2 \in NetRecords /\ n2.bytes = b /\ n2.up = n.up /\ n2.end = n.end
  BY <1>4 DEF NetRecords, Ends, NoConn
<1>6. Moves(net, net', c, n2)
  BY <1>1, <1>4 DEF Moves, ClientsInv
<1>7. PICK m2 : m2 = [m EXCEPT !.pc = "done", !.socket = FALSE, !.code = SocketError]
  OBVIOUS
<1>8. /\ m2 \in ClientRecords /\ m2.pc = "done" /\ m2.socket = FALSE /\ m2.code = SocketError
      /\ m2.reused = m.reused
      /\ m2.sockets = m.sockets /\ m2.connects = m.connects /\ m2.lookups = m.lookups
      /\ m2.unresolved = m.unresolved
      /\ m2.retries = m.retries /\ m2.tries = m.tries /\ m2.served = m.served /\ m2.whole = m.whole
  BY <1>7, ClientNumbers DEF ClientRecords, Pcs, Codes
<1>9. Moves(cl, cl', c, m2)
  BY <1>1, <1>7 DEF Moves, ClientsInv
<1>10. PICK e2 : e2 = [e EXCEPT !.got = g, !.received = e.received + r]
  OBVIOUS
<1>11. /\ e2 \in EchoRecords /\ e2.received = (e.received + r) /\ e2.got = g /\ e2.messages = e.messages
       /\ e2.sent = e.sent /\ e2.acked = e.acked /\ e2.requests = e.requests /\ e2.errors = e.errors
  BY <1>10, <1>3, EchoNumbers DEF EchoRecords
<1>12. Moves(echo, echo', c, e2)
  BY <1>1, <1>10 DEF Moves, ClientsInv
<1>13. ClientTyped(n2, m2, f, e2, k)
  BY <1>1, <1>5, <1>8, <1>11 DEF ClientRight, ClientTyped
<1>14. Placed(n2, m2) /\ TriesRight(m2)
  BY <1>1, <1>2, <1>5, <1>8, <1>11 DEF ClientRight, Placed, TriesRight, ClientRecords
<1>15. Explained(m2, k)
  BY <1>1, <1>2, <1>5, <1>8, <1>11, ErrorIsNotOK DEF ClientRight, Explained, ClientRecords, MadeRecords
<1>16. conf.kind = "fast" => FastRight(n2, m2, f)
  BY <1>2 DEF IsEcho
<1>17. IsEcho => EchoRight(m2, e2)
  BY <1>1, <1>2, <1>5, <1>8, <1>11 DEF ClientRight, EchoRight
<1>18. conf.kind = "std" => StdRight(m2)
  BY <1>2 DEF IsEcho
<1>19. ClientRight(n2, m2, f, e2, k)
  BY <1>13, <1>14, <1>15, <1>16, <1>17, <1>18 DEF ClientRight
<1>20. QED
  <2>1. Moves(fast, fast', c, f) /\ Moves(made, made', c, k)
    BY <1>1, <1>2, Unmoved
  <2>2. QED BY <2>1, <1>2, <1>19, <1>6, <1>9, <1>12, OneMoves

(* A read that fails ends the call, with an error.                         *)
LEMMA EchoReadFailsRight ==
  ASSUME ClientsInv, NEW c \in Clients, EchoReadFails(c), UNCHANGED <<conf, made>> PROVE ClientsInv'
<1>1. PICK n \in NetRecords, m \in ClientRecords, f \in FastRecords, e \in EchoRecords, k \in MadeRecords :
        /\ n = net[c] /\ m = cl[c] /\ f = fast[c] /\ e = echo[c] /\ k = made[c]
        /\ ClientRight(n, m, f, e, k)
  BY PartsOf
<1>2. /\ IsEcho /\ m.pc = "read" /\ m.code = SocketError
      /\ conf' = conf /\ net' = net /\ fast' = fast /\ echo' = echo /\ made' = made
  BY <1>1 DEF EchoReadFails, At, ClientRight, EchoRight
<1>3. PICK m2 : m2 = [m EXCEPT !.pc = "done"]
  OBVIOUS
<1>4. /\ m2 \in ClientRecords /\ m2.pc = "done" /\ m2.socket = m.socket /\ m2.reused = m.reused
      /\ m2.code = m.code
      /\ m2.sockets = m.sockets /\ m2.connects = m.connects /\ m2.lookups = m.lookups
      /\ m2.unresolved = m.unresolved
      /\ m2.retries = m.retries /\ m2.tries = m.tries /\ m2.served = m.served /\ m2.whole = m.whole
  BY <1>3, ClientNumbers DEF ClientRecords, Pcs, Codes
<1>5. Moves(cl, cl', c, m2)
  BY <1>1, <1>3 DEF Moves, ClientsInv, EchoReadFails, GoesTo
<1>6. ClientTyped(n, m2, f, e, k)
  BY <1>1, <1>4 DEF ClientRight, ClientTyped
<1>7. Placed(n, m2) /\ TriesRight(m2)
  BY <1>1, <1>2, <1>4 DEF ClientRight, Placed, TriesRight, ClientRecords
<1>8. Explained(m2, k)
  BY <1>1, <1>2, <1>4, ErrorIsNotOK DEF ClientRight, Explained, ClientRecords, MadeRecords
<1>9. conf.kind = "fast" => FastRight(n, m2, f)
  BY <1>2 DEF IsEcho
<1>10. IsEcho => EchoRight(m2, e)
  BY <1>1, <1>2, <1>4 DEF ClientRight, EchoRight
<1>11. conf.kind = "std" => StdRight(m2)
  BY <1>2 DEF IsEcho
<1>12. ClientRight(n, m2, f, e, k)
  BY <1>6, <1>7, <1>8, <1>9, <1>10, <1>11 DEF ClientRight
<1>13. QED
  <2>1. /\ Moves(net, net', c, n) /\ Moves(fast, fast', c, f) /\ Moves(echo, echo', c, e)
        /\ Moves(made, made', c, k)
    BY <1>1, <1>2, Unmoved
  <2>2. QED BY <2>1, <1>2, <1>12, <1>5, OneMoves

(* What was got is compared with what was sent.                            *)
LEMMA EchoComparedRight ==
  ASSUME ClientsInv, NEW c \in Clients, At(c, "read"), IsEcho, NEW b \in Stream, NEW g \in Seq(Units),
         NEW r \in Nat,
         Len(g) <= MessageSize, net' = [net EXCEPT ![c].bytes = b],
         echo' = [echo EXCEPT ![c].got = g, ![c].received = @ + r], UNCHANGED <<conf, fast, made>>,
         cl' = [cl EXCEPT ![c].pc = "done", ![c].socket = (g = Request(echo[c])),
                          ![c].code = IF g = Request(echo[c]) THEN 200 ELSE SocketError]
  PROVE  ClientsInv'
<1>1. CASE g = Request(echo[c])
  <2>1. (g = Request(echo[c])) = TRUE
    BY <1>1
  <2>2. cl' = [cl EXCEPT ![c].pc = "done", ![c].socket = TRUE, ![c].code = 200]
    BY <2>1
  <2>3. QED BY <2>2, <1>1, EchoGoodRight
<1>2. CASE g # Request(echo[c])
  <2>1. (g = Request(echo[c])) = FALSE
    BY <1>2
  <2>2. cl' = [cl EXCEPT ![c].pc = "done", ![c].socket = FALSE, ![c].code = SocketError]
    BY <2>1
  <2>3. QED BY <2>2, EchoBadRight
<1>3. QED BY <1>1, <1>2

(* A read of a stream: more to come, or the comparison.                    *)
LEMMA EchoReadRight ==
  ASSUME ClientsInv, NEW c \in Clients, EchoRead(c), UNCHANGED <<conf, made>> PROVE ClientsInv'
<1>1. PICK n \in NetRecords, m \in ClientRecords, f \in FastRecords, e \in EchoRecords, k \in MadeRecords :
        /\ n = net[c] /\ m = cl[c] /\ f = fast[c] /\ e = echo[c] /\ k = made[c]
        /\ ClientRight(n, m, f, e, k)
  BY PartsOf
<1>2. At(c, "read") /\ conf.kind = "tcp" /\ IsEcho /\ UNCHANGED <<conf, fast, made>>
  BY DEF EchoRead, IsEcho
<1>3. PICK l \in Nat, z \in Nat : l = Len(e.got) /\ z = MessageSize /\ l <= z /\ e.got \in Seq(Units)
  BY <1>1, EchoNumbers, MessageAssumption DEF ClientRight, ClientTyped
<1>4. Stream = Seq(Units) /\ n.bytes \in Seq(Units)
  BY <1>2 DEF Stream, NetRecords
<1>5. CASE UNCHANGED <<net, echo, cl>>
  BY <1>2, <1>5, ClientsStutter
<1>6. ASSUME NEW i \in 1 .. z - l, NEW g, g = e.got \o SubSeq(n.bytes, 1, i), i <= Len(n.bytes), Takes(c, i),
             echo' = [echo EXCEPT ![c].got = g, ![c].received = @ + i],
             IF Len(g) < Len(Request(e)) THEN UNCHANGED cl
             ELSE cl' = [cl EXCEPT ![c].pc = "done", ![c].socket = (g = Request(e)),
                                   ![c].code = IF g = Request(e) THEN 200 ELSE SocketError]
      PROVE  ClientsInv'
  <2>0. i \in Nat /\ i >= 1 /\ l + i <= z
    BY <1>3
  <2>1. i \in 1 .. Len(n.bytes)
    <3>1. PICK b \in Nat : b = Len(n.bytes)
      BY <1>4
    <3>2. i <= b
      BY <3>1, <1>6
    <3>3. i \in 1 .. b
      BY <2>0, <3>2
    <3>4. QED BY <3>1, <3>3
  <2>2. g \in Seq(Units) /\ Len(g) = Len(e.got) + i /\ SubSeq(n.bytes, i + 1, Len(n.bytes)) \in Seq(Units)
    <3>1. PICK b \in Seq(Units), s \in Seq(Units) : b = e.got /\ s = n.bytes /\ i \in 1 .. Len(s)
      BY <2>1, <1>3, <1>4
    <3>2. g = b \o SubSeq(s, 1, i)
      BY <3>1, <1>6
    <3>3. QED BY <3>1, <3>2, SplitMoves
  <2>3. PICK b \in Stream : b = SubSeq(n.bytes, i + 1, Len(n.bytes))
    BY <2>2, <1>4
  <2>4. Len(g) <= MessageSize /\ i \in Nat
    BY <2>0, <2>2, <1>3
  <2>5. net' = [net EXCEPT ![c].bytes = b]
    BY <2>3, <1>1, <1>6 DEF Takes
  <2>6. CASE UNCHANGED cl
    BY <2>2, <2>4, <2>5, <2>6, <1>2, <1>6, EchoMoreRight
  <2>7. CASE cl' = [cl EXCEPT ![c].pc = "done", ![c].socket = (g = Request(e)),
                              ![c].code = IF g = Request(e) THEN 200 ELSE SocketError]
    BY <2>2, <2>4, <2>5, <2>7, <1>1, <1>2, <1>6, EchoComparedRight
  <2>8. QED BY <2>6, <2>7, <1>6
<1>7. QED
  <2>1. CASE MessageSize - Len(e.got) = 0 /\ UNCHANGED <<net, echo, cl>>
    BY <2>1, <1>5
  <2>2. ASSUME NEW i \in 1 .. MessageSize - Len(e.got), i <= Len(n.bytes), Takes(c, i),
               echo' = [echo EXCEPT ![c].got = e.got \o SubSeq(n.bytes, 1, i), ![c].received = @ + i],
               IF Len(e.got \o SubSeq(n.bytes, 1, i)) < Len(Request(e)) THEN UNCHANGED cl
               ELSE cl' = [cl EXCEPT ![c].pc = "done", ![c].socket = (e.got \o SubSeq(n.bytes, 1, i) = Request(e)),
                          ![c].code = IF e.got \o SubSeq(n.bytes, 1, i) = Request(e) THEN 200 ELSE SocketError]
        PROVE  ClientsInv'
    <3>1. PICK g : g = e.got \o SubSeq(n.bytes, 1, i)
      OBVIOUS
    <3>2. i \in 1 .. z - l
      BY <1>3
    <3>3. QED BY <3>1, <3>2, <2>2, <1>6
  <2>3. QED BY <2>1, <2>2, <1>1, <1>5 DEF EchoRead

(* A read of a datagram, and the comparison.                               *)
LEMMA DatagramReadRight ==
  ASSUME ClientsInv, NEW c \in Clients, DatagramRead(c), UNCHANGED <<conf, made>> PROVE ClientsInv'
<1>1. PICK n \in NetRecords, e \in EchoRecords : n = net[c] /\ e = echo[c]
  BY PartsOf
<1>2. /\ At(c, "read") /\ conf.kind = "udp" /\ IsEcho /\ UNCHANGED <<conf, fast, made>> /\ n.bytes # <<>>
      /\ Takes(c, 1)
  BY <1>1 DEF DatagramRead, IsEcho
<1>3. Stream = Seq(Seq(Units)) /\ n.bytes \in Seq(Seq(Units))
  BY <1>2 DEF Stream, NetRecords
<1>4. PICK full \in Seq(Units) : full = Head(n.bytes)
  BY <1>2, <1>3
<1>5. PICK i \in 0 .. Len(full) : i = IF Len(full) < MessageSize THEN Len(full) ELSE MessageSize
  <2>1. PICK l \in Nat, z \in Nat : l = Len(full) /\ z = MessageSize
    BY MessageAssumption
  <2>2. QED BY <2>1
<1>6. PICK g \in Seq(Units) : g = SubSeq(full, 1, i) /\ Len(g) = i
  BY PrefixShape
<1>7. Len(g) <= MessageSize /\ Len(g) \in Nat
  <2>1. PICK l \in Nat, z \in Nat : l = Len(full) /\ z = MessageSize
    BY MessageAssumption
  <2>2. QED BY <2>1, <1>5, <1>6
<1>8. PICK b \in Stream : b = SubSeq(n.bytes, 1 + 1, Len(n.bytes))
  <2>1. 1 \in 0 .. Len(n.bytes)
    BY <1>2, <1>3
  <2>2. QED BY <2>1, <1>3, RestShape
<1>9. net' = [net EXCEPT ![c].bytes = b]
  BY <1>1, <1>2, <1>8 DEF Takes
<1>10. /\ echo' = [echo EXCEPT ![c].got = g, ![c].received = @ + Len(g)]
       /\ cl' = [cl EXCEPT ![c].pc = "done", ![c].socket = (g = Request(echo[c])),
                           ![c].code = IF g = Request(echo[c]) THEN 200 ELSE SocketError]
  BY <1>1, <1>4, <1>5, <1>6 DEF DatagramRead
<1>11. QED BY <1>2, <1>7, <1>9, <1>10, EchoComparedRight

(* The clients of tcp and udp keep what is known of them.                  *)
LEMMA EchoStepRight ==
  ASSUME ClientsInv, NEW c \in Clients, EchoStep(c), UNCHANGED <<conf, made>> PROVE ClientsInv'
<1>1. CASE EchoConnect(c)
  BY <1>1, EchoDialRight, EchoDialFailsRight DEF EchoConnect
<1>2. CASE EchoWriteFails(c)
  BY <1>2, RetriesRight, AbandonsRight DEF EchoWriteFails
<1>3. QED
  BY <1>1, <1>2, EchoFetchRight, EchoWriteRight, EchoReadRight, EchoReadFailsRight,
     DatagramReadRight DEF EchoStep

-----------------------------------------------------------------------------
(* The clients of Kafka and gRPC, and the standard one.                    *)

(* The message is taken.                                                   *)
LEMMA AckedRight ==
  ASSUME ClientsInv, NEW c \in Clients, At(c, "called"), conf.kind = "kafka", NEW w \in {0, 1},
         UNCHANGED <<conf, net, fast, made>>,
         cl' = [cl EXCEPT ![c].pc = "done", ![c].code = 200],
         echo' = [echo EXCEPT ![c] = [[echo[c] EXCEPT !.messages = @ + 1] EXCEPT !.acked = @ + 1, !.requests = @ + w]]
  PROVE  ClientsInv'
<1>1. PICK n \in NetRecords, m \in ClientRecords, f \in FastRecords, e \in EchoRecords, k \in MadeRecords :
        /\ n = net[c] /\ m = cl[c] /\ f = fast[c] /\ e = echo[c] /\ k = made[c]
        /\ ClientRight(n, m, f, e, k)
  BY PartsOf
<1>2. /\ conf.kind = "kafka" /\ m.pc = "called" /\ e.requests + w \in Nat /\ e.errors + w \in Nat
      /\ e.acked + 1 \in Nat
      /\ conf' = conf /\ net' = net /\ fast' = fast /\ made' = made
  BY <1>1, EchoNumbers DEF At
<1>3. PICK m2 : m2 = [m EXCEPT !.pc = "done", !.code = 200]
  OBVIOUS
<1>4. /\ m2 \in ClientRecords /\ m2.pc = "done" /\ m2.code = 200 /\ m2.socket = m.socket /\ m2.reused = m.reused
      /\ m2.sockets = m.sockets /\ m2.connects = m.connects /\ m2.lookups = m.lookups
      /\ m2.unresolved = m.unresolved
      /\ m2.retries = m.retries /\ m2.tries = m.tries /\ m2.served = m.served /\ m2.whole = m.whole
  <2>1. m2 \in ClientRecords
    BY <1>3, ErrorIsNotOK, ZenonT(60) DEF ClientRecords, Pcs, Codes
  <2>2. /\ m2.pc = "done" /\ m2.code = 200 /\ m2.socket = m.socket /\ m2.reused = m.reused
        /\ m2.sockets = m.sockets /\ m2.connects = m.connects /\ m2.lookups = m.lookups
        /\ m2.unresolved = m.unresolved
        /\ m2.retries = m.retries /\ m2.tries = m.tries /\ m2.served = m.served /\ m2.whole = m.whole
    BY <1>3 DEF ClientRecords
  <2>3. QED BY <2>1, <2>2
<1>5. Moves(cl, cl', c, m2)
  BY <1>1, <1>3 DEF Moves, ClientsInv
<1>6. PICK e2 : e2 = [e EXCEPT !.messages = e.messages + 1, !.acked = e.acked + 1, !.requests = e.requests + w]
  OBVIOUS
<1>7. /\ e2 \in EchoRecords /\ e2.messages = (e.messages + 1) /\ e2.acked = (e.acked + 1)
      /\ e2.requests = (e.requests + w) /\ e2.sent = e.sent /\ e2.received = e.received /\ e2.got = e.got
      /\ e2.errors = e.errors
  BY <1>6, <1>2, EchoNumbers DEF EchoRecords
<1>8. Moves(echo, echo', c, e2)
  BY <1>1, <1>6 DEF Moves, ClientsInv
<1>9. ClientTyped(n, m2, f, e2, k)
  BY <1>1, <1>4, <1>7 DEF ClientRight, ClientTyped
<1>10. Placed(n, m2) /\ TriesRight(m2)
  BY <1>1, <1>2, <1>4, <1>7 DEF ClientRight, Placed, TriesRight, ClientRecords
<1>11. Explained(m2, k)
  BY <1>2 DEF Explained, IsEcho, PlainKept
<1>12. conf.kind = "fast" => FastRight(n, m2, f)
  BY <1>2
<1>13. IsEcho => EchoRight(m2, e2)
  BY <1>2 DEF IsEcho
<1>14. conf.kind = "std" => StdRight(m2)
  BY <1>2
<1>15. ClientRight(n, m2, f, e2, k)
  BY <1>9, <1>10, <1>11, <1>12, <1>13, <1>14 DEF ClientRight
<1>16. QED
  <2>1. Moves(net, net', c, n) /\ Moves(fast, fast', c, f) /\ Moves(made, made', c, k)
    BY <1>1, <1>2, Unmoved
  <2>2. QED BY <2>1, <1>2, <1>15, <1>5, <1>8, OneMoves

(* It is not.                                                              *)
LEMMA NotAckedRight ==
  ASSUME ClientsInv, NEW c \in Clients, At(c, "called"), conf.kind = "kafka", NEW w \in {0, 1},
         UNCHANGED <<conf, net, fast, made>>,
         cl' = [cl EXCEPT ![c].pc = "done", ![c].code = SocketError],
         echo' = [echo EXCEPT ![c] = [[echo[c] EXCEPT !.messages = @ + 1] EXCEPT !.errors = @ + w]]
  PROVE  ClientsInv'
<1>1. PICK n \in NetRecords, m \in ClientRecords, f \in FastRecords, e \in EchoRecords, k \in MadeRecords :
        /\ n = net[c] /\ m = cl[c] /\ f = fast[c] /\ e = echo[c] /\ k = made[c]
        /\ ClientRight(n, m, f, e, k)
  BY PartsOf
<1>2. /\ conf.kind = "kafka" /\ m.pc = "called" /\ e.requests + w \in Nat /\ e.errors + w \in Nat
      /\ e.acked + 1 \in Nat
      /\ conf' = conf /\ net' = net /\ fast' = fast /\ made' = made
  BY <1>1, EchoNumbers DEF At
<1>3. PICK m2 : m2 = [m EXCEPT !.pc = "done", !.code = SocketError]
  OBVIOUS
<1>4. /\ m2 \in ClientRecords /\ m2.pc = "done" /\ m2.code = SocketError /\ m2.socket = m.socket
      /\ m2.reused = m.reused /\ m2.sockets = m.sockets /\ m2.connects = m.connects /\ m2.lookups = m.lookups
      /\ m2.unresolved = m.unresolved /\ m2.retries = m.retries /\ m2.tries = m.tries /\ m2.served = m.served
      /\ m2.whole = m.whole
  BY <1>3, ErrorIsNotOK, ClientNumbers DEF ClientRecords, Pcs, Codes
<1>5. Moves(cl, cl', c, m2)
  BY <1>1, <1>3 DEF Moves, ClientsInv
<1>6. PICK e2 : e2 = [e EXCEPT !.messages = e.messages + 1, !.errors = e.errors + w]
  OBVIOUS
<1>7. /\ e2 \in EchoRecords /\ e2.messages = (e.messages + 1) /\ e2.errors = (e.errors + w) /\ e2.sent = e.sent
      /\ e2.received = e.received /\ e2.got = e.got /\ e2.acked = e.acked /\ e2.requests = e.requests
  BY <1>6, <1>2, EchoNumbers DEF EchoRecords
<1>8. Moves(echo, echo', c, e2)
  BY <1>1, <1>6 DEF Moves, ClientsInv
<1>9. ClientTyped(n, m2, f, e2, k)
  BY <1>1, <1>4, <1>7 DEF ClientRight, ClientTyped
<1>10. Placed(n, m2) /\ TriesRight(m2)
  BY <1>1, <1>2, <1>4, <1>7 DEF ClientRight, Placed, TriesRight, ClientRecords
<1>11. Explained(m2, k)
  BY <1>2 DEF Explained, IsEcho, PlainKept
<1>12. conf.kind = "fast" => FastRight(n, m2, f)
  BY <1>2
<1>13. IsEcho => EchoRight(m2, e2)
  BY <1>2 DEF IsEcho
<1>14. conf.kind = "std" => StdRight(m2)
  BY <1>2
<1>15. ClientRight(n, m2, f, e2, k)
  BY <1>9, <1>10, <1>11, <1>12, <1>13, <1>14 DEF ClientRight
<1>16. QED
  <2>1. Moves(net, net', c, n) /\ Moves(fast, fast', c, f) /\ Moves(made, made', c, k)
    BY <1>1, <1>2, Unmoved
  <2>2. QED BY <2>1, <1>2, <1>15, <1>5, <1>8, OneMoves

(* Either way it is counted.                                               *)
LEMMA ProduceRight ==
  ASSUME ClientsInv, NEW c \in Clients, Produce(c), UNCHANGED <<conf, made>> PROVE ClientsInv'
<1>1. PICK w \in {0, 1} : w = IF conf.collect THEN 1 ELSE 0
  OBVIOUS
<1>2. QED BY <1>1, AckedRight, NotAckedRight DEF Produce

(* A call of gRPC gives a code.                                            *)
LEMMA InvokeWith ==
  ASSUME ClientsInv, NEW c \in Clients, At(c, "called"), conf.kind = "grpc", NEW x, x \in Codes,
         cl' = [cl EXCEPT ![c].pc = "done", ![c].code = x],
         UNCHANGED <<conf, net, fast, echo, made>>
  PROVE  ClientsInv'
<1>1. PICK n \in NetRecords, m \in ClientRecords, f \in FastRecords, e \in EchoRecords, k \in MadeRecords :
        /\ n = net[c] /\ m = cl[c] /\ f = fast[c] /\ e = echo[c] /\ k = made[c]
        /\ ClientRight(n, m, f, e, k)
  BY PartsOf
<1>2. /\ conf.kind = "grpc" /\ m.pc = "called"
      /\ conf' = conf /\ net' = net /\ fast' = fast /\ echo' = echo /\ made' = made
  BY <1>1 DEF At
<1>3. PICK m2 : m2 = [m EXCEPT !.pc = "done", !.code = x]
  OBVIOUS
<1>4. /\ m2 \in ClientRecords /\ m2.pc = "done" /\ m2.code = x /\ m2.socket = m.socket /\ m2.reused = m.reused
      /\ m2.sockets = m.sockets /\ m2.connects = m.connects /\ m2.lookups = m.lookups
      /\ m2.unresolved = m.unresolved
      /\ m2.retries = m.retries /\ m2.tries = m.tries /\ m2.served = m.served /\ m2.whole = m.whole
  BY <1>3, ClientNumbers DEF ClientRecords, Pcs, Codes
<1>5. Moves(cl, cl', c, m2)
  BY <1>1, <1>3 DEF Moves, ClientsInv
<1>6. ClientTyped(n, m2, f, e, k)
  BY <1>1, <1>4 DEF ClientRight, ClientTyped
<1>7. Placed(n, m2) /\ TriesRight(m2)
  BY <1>1, <1>2, <1>4 DEF ClientRight, Placed, TriesRight, ClientRecords
<1>8. Explained(m2, k)
  BY <1>2 DEF Explained, IsEcho, PlainKept
<1>9. conf.kind = "fast" => FastRight(n, m2, f)
  BY <1>2
<1>10. IsEcho => EchoRight(m2, e)
  BY <1>2 DEF IsEcho
<1>11. conf.kind = "std" => StdRight(m2)
  BY <1>2
<1>12. ClientRight(n, m2, f, e, k)
  BY <1>6, <1>7, <1>8, <1>9, <1>10, <1>11 DEF ClientRight
<1>13. QED
  <2>1. /\ Moves(net, net', c, n) /\ Moves(fast, fast', c, f) /\ Moves(echo, echo', c, e)
        /\ Moves(made, made', c, k)
    BY <1>1, <1>2, Unmoved
  <2>2. QED BY <2>1, <1>2, <1>12, <1>5, OneMoves

(* It is one of those of the clients.                                      *)
LEMMA InvokeRight ==
  ASSUME ClientsInv, NEW c \in Clients, Invoke(c), UNCHANGED <<conf, made>> PROVE ClientsInv'
<1>1. PICK x : x \in Codes /\ cl' = [cl EXCEPT ![c].pc = "done", ![c].code = x]
  <2>1. PICK x \in {200, -1, 503} : cl' = [cl EXCEPT ![c].pc = "done", ![c].code = x]
    BY ZenonT(60) DEF Invoke, NotServing, SocketError
  <2>2. x \in Codes
    BY DEF Codes, SocketError
  <2>3. QED BY <2>1, <2>2
<1>2. At(c, "called") /\ conf.kind = "grpc" /\ UNCHANGED <<conf, net, fast, echo, made>>
  BY DEF Invoke
<1>3. QED BY <1>1, <1>2, InvokeWith

(* The standard client hands the request over.                             *)
LEMMA StdFetchRight ==
  ASSUME ClientsInv, NEW c \in Clients, StdFetch(c), UNCHANGED <<conf, made>> PROVE ClientsInv'
<1>1. PICK n \in NetRecords, m \in ClientRecords, f \in FastRecords, e \in EchoRecords, k \in MadeRecords :
        /\ n = net[c] /\ m = cl[c] /\ f = fast[c] /\ e = echo[c] /\ k = made[c]
        /\ ClientRight(n, m, f, e, k)
  BY PartsOf
<1>2. /\ conf.kind = "std" /\ m.pc = "called"
      /\ conf' = conf /\ net' = net /\ fast' = fast /\ echo' = echo /\ made' = made
  BY <1>1 DEF At, StdFetch
<1>3. PICK m2 : m2 = [m EXCEPT !.pc = "do", !.code = SocketError]
  OBVIOUS
<1>4. /\ m2 \in ClientRecords /\ m2.pc = "do" /\ m2.code = SocketError /\ m2.socket = m.socket
      /\ m2.reused = m.reused
      /\ m2.sockets = m.sockets /\ m2.connects = m.connects /\ m2.lookups = m.lookups
      /\ m2.unresolved = m.unresolved
      /\ m2.retries = m.retries /\ m2.tries = m.tries /\ m2.served = m.served /\ m2.whole = m.whole
  BY <1>3, ClientNumbers DEF ClientRecords, Pcs, Codes
<1>5. Moves(cl, cl', c, m2)
  BY <1>1, <1>3 DEF Moves, ClientsInv, StdFetch
<1>6. ClientTyped(n, m2, f, e, k)
  BY <1>1, <1>4 DEF ClientRight, ClientTyped
<1>7. Placed(n, m2) /\ TriesRight(m2)
  BY <1>1, <1>2, <1>4 DEF ClientRight, Placed, TriesRight, ClientRecords
<1>8. Explained(m2, k)
  BY <1>2 DEF Explained, IsEcho, PlainKept
<1>9. conf.kind = "fast" => FastRight(n, m2, f)
  BY <1>2
<1>10. IsEcho => EchoRight(m2, e)
  BY <1>2 DEF IsEcho
<1>11. conf.kind = "std" => StdRight(m2)
  BY <1>4 DEF StdRight
<1>12. ClientRight(n, m2, f, e, k)
  BY <1>6, <1>7, <1>8, <1>9, <1>10, <1>11 DEF ClientRight
<1>13. QED
  <2>1. /\ Moves(net, net', c, n) /\ Moves(fast, fast', c, f) /\ Moves(echo, echo', c, e)
        /\ Moves(made, made', c, k)
    BY <1>1, <1>2, Unmoved
  <2>2. QED BY <2>1, <1>2, <1>12, <1>5, OneMoves

(* The transport makes a connection.                                       *)
LEMMA StdDialRight ==
  ASSUME ClientsInv, NEW c \in Clients, At(c, "do"), Dialed(c), UNCHANGED <<conf, fast, echo, made>>,
         cl' = [cl EXCEPT ![c].pc = "sent", ![c].socket = TRUE, ![c].sockets = @ + 1, ![c].connects = @ + 1,
                          ![c].lookups = @ + 1]
  PROVE  ClientsInv'
<1>1. PICK n \in NetRecords, m \in ClientRecords, f \in FastRecords, e \in EchoRecords, k \in MadeRecords :
        /\ n = net[c] /\ m = cl[c] /\ f = fast[c] /\ e = echo[c] /\ k = made[c]
        /\ ClientRight(n, m, f, e, k)
  BY PartsOf
<1>2. /\ conf.kind = "std" /\ m.pc = "do" /\ m.code = SocketError
      /\ conf' = conf /\ fast' = fast /\ echo' = echo /\ made' = made
  BY <1>1 DEF At, ClientRight, Placed
<1>3. PICK n2 : n2 = [NoConn EXCEPT !.up = TRUE]
  OBVIOUS
<1>4. /\ n2 \in NetRecords /\ n2.up = TRUE /\ n2.bytes = <<>> /\ n2.end = "open"
  BY <1>3, NoConnTyped
<1>5. Moves(net, net', c, n2)
  BY <1>1, <1>3 DEF Moves, ClientsInv, Dialed
<1>6. PICK m2 :
           m2 = [m EXCEPT !.pc = "sent", !.socket = TRUE, !.sockets = m.sockets + 1, !.connects = m.connects + 1, !.lookups = m.lookups + 1]
  OBVIOUS
<1>7. /\ m2 \in ClientRecords /\ m2.pc = "sent" /\ m2.socket = TRUE /\ m2.sockets = (m.sockets + 1)
      /\ m2.connects = (m.connects + 1) /\ m2.lookups = (m.lookups + 1) /\ m2.reused = m.reused
      /\ m2.code = m.code
      /\ m2.unresolved = m.unresolved /\ m2.retries = m.retries /\ m2.tries = m.tries /\ m2.served = m.served
      /\ m2.whole = m.whole
  BY <1>6, ClientNumbers DEF ClientRecords, Pcs, Codes
<1>8. Moves(cl, cl', c, m2)
  BY <1>1, <1>6 DEF Moves, ClientsInv, Dialed
<1>9. ClientTyped(n2, m2, f, e, k)
  BY <1>1, <1>4, <1>7 DEF ClientRight, ClientTyped
<1>10. Placed(n2, m2) /\ TriesRight(m2)
  BY <1>1, <1>2, <1>4, <1>7 DEF ClientRight, Placed, TriesRight, ClientRecords
<1>11. Explained(m2, k)
  BY <1>2 DEF Explained, IsEcho, PlainKept
<1>12. conf.kind = "fast" => FastRight(n2, m2, f)
  BY <1>2
<1>13. IsEcho => EchoRight(m2, e)
  BY <1>2 DEF IsEcho
<1>14. conf.kind = "std" => StdRight(m2)
  BY <1>7 DEF StdRight
<1>15. ClientRight(n2, m2, f, e, k)
  BY <1>9, <1>10, <1>11, <1>12, <1>13, <1>14 DEF ClientRight
<1>16. QED
  <2>1. Moves(fast, fast', c, f) /\ Moves(echo, echo', c, e) /\ Moves(made, made', c, k)
    BY <1>1, <1>2, Unmoved
  <2>2. QED BY <2>1, <1>2, <1>15, <1>5, <1>8, OneMoves

(* It cannot: the call is over.                                            *)
LEMMA StdDialFailsRight ==
  ASSUME ClientsInv, NEW c \in Clients, At(c, "do"), Closed(c), UNCHANGED <<conf, fast, echo, made>>,
         cl' = [cl EXCEPT ![c].pc = "done", ![c].socket = FALSE, ![c].sockets = @ + 1, ![c].connects = @ + 1]
  PROVE  ClientsInv'
<1>1. PICK n \in NetRecords, m \in ClientRecords, f \in FastRecords, e \in EchoRecords, k \in MadeRecords :
        /\ n = net[c] /\ m = cl[c] /\ f = fast[c] /\ e = echo[c] /\ k = made[c]
        /\ ClientRight(n, m, f, e, k)
  BY PartsOf
<1>2. /\ conf.kind = "std" /\ m.pc = "do" /\ m.code = SocketError
      /\ conf' = conf /\ fast' = fast /\ echo' = echo /\ made' = made
  BY <1>1 DEF At, ClientRight, Placed
<1>3. PICK n2 : n2 = NoConn
  OBVIOUS
<1>4. /\ n2 \in NetRecords /\ n2.up = FALSE /\ n2.bytes = <<>> /\ n2.end = "open"
  BY <1>3, NoConnTyped
<1>5. Moves(net, net', c, n2)
  BY <1>1, <1>3 DEF Moves, ClientsInv, Closed
<1>6. PICK m2 :
           m2 = [m EXCEPT !.pc = "done", !.socket = FALSE, !.sockets = m.sockets + 1, !.connects = m.connects + 1]
  OBVIOUS
<1>7. /\ m2 \in ClientRecords /\ m2.pc = "done" /\ m2.socket = FALSE /\ m2.sockets = (m.sockets + 1)
      /\ m2.connects = (m.connects + 1) /\ m2.reused = m.reused /\ m2.code = m.code /\ m2.lookups = m.lookups
      /\ m2.unresolved = m.unresolved /\ m2.retries = m.retries /\ m2.tries = m.tries /\ m2.served = m.served
      /\ m2.whole = m.whole
  BY <1>6, ClientNumbers DEF ClientRecords, Pcs, Codes
<1>8. Moves(cl, cl', c, m2)
  BY <1>1, <1>6 DEF Moves, ClientsInv, Closed
<1>9. ClientTyped(n2, m2, f, e, k)
  BY <1>1, <1>4, <1>7 DEF ClientRight, ClientTyped
<1>10. Placed(n2, m2) /\ TriesRight(m2)
  BY <1>1, <1>2, <1>4, <1>7 DEF ClientRight, Placed, TriesRight, ClientRecords
<1>11. Explained(m2, k)
  BY <1>2 DEF Explained, IsEcho, PlainKept
<1>12. conf.kind = "fast" => FastRight(n2, m2, f)
  BY <1>2
<1>13. IsEcho => EchoRight(m2, e)
  BY <1>2 DEF IsEcho
<1>14. conf.kind = "std" => StdRight(m2)
  BY <1>2, <1>7 DEF StdRight
<1>15. ClientRight(n2, m2, f, e, k)
  BY <1>9, <1>10, <1>11, <1>12, <1>13, <1>14 DEF ClientRight
<1>16. QED
  <2>1. Moves(fast, fast', c, f) /\ Moves(echo, echo', c, e) /\ Moves(made, made', c, k)
    BY <1>1, <1>2, Unmoved
  <2>2. QED BY <2>1, <1>2, <1>15, <1>5, <1>8, OneMoves

(* It uses one that is open.                                               *)
LEMMA StdReusesRight ==
  ASSUME ClientsInv, NEW c \in Clients, StdReuses(c), UNCHANGED <<conf, made>> PROVE ClientsInv'
<1>1. PICK n \in NetRecords, m \in ClientRecords, f \in FastRecords, e \in EchoRecords, k \in MadeRecords :
        /\ n = net[c] /\ m = cl[c] /\ f = fast[c] /\ e = echo[c] /\ k = made[c]
        /\ ClientRight(n, m, f, e, k)
  BY PartsOf
<1>2. /\ conf.kind = "std" /\ m.pc = "do" /\ m.code = SocketError /\ n.up
      /\ conf' = conf /\ net' = net /\ fast' = fast /\ echo' = echo /\ made' = made
  BY <1>1 DEF StdReuses, At, ClientRight, Placed
<1>3. PICK m2 : m2 = [m EXCEPT !.pc = "sent"]
  OBVIOUS
<1>4. /\ m2 \in ClientRecords /\ m2.pc = "sent" /\ m2.socket = m.socket /\ m2.reused = m.reused
      /\ m2.code = m.code
      /\ m2.sockets = m.sockets /\ m2.connects = m.connects /\ m2.lookups = m.lookups
      /\ m2.unresolved = m.unresolved
      /\ m2.retries = m.retries /\ m2.tries = m.tries /\ m2.served = m.served /\ m2.whole = m.whole
  BY <1>3, ClientNumbers DEF ClientRecords, Pcs, Codes
<1>5. Moves(cl, cl', c, m2)
  BY <1>1, <1>3 DEF Moves, ClientsInv, StdReuses, GoesTo
<1>6. ClientTyped(n, m2, f, e, k)
  BY <1>1, <1>4 DEF ClientRight, ClientTyped
<1>7. Placed(n, m2) /\ TriesRight(m2)
  BY <1>1, <1>2, <1>4 DEF ClientRight, Placed, TriesRight, ClientRecords
<1>8. Explained(m2, k)
  BY <1>2 DEF Explained, IsEcho, PlainKept
<1>9. conf.kind = "fast" => FastRight(n, m2, f)
  BY <1>2
<1>10. IsEcho => EchoRight(m2, e)
  BY <1>2 DEF IsEcho
<1>11. conf.kind = "std" => StdRight(m2)
  BY <1>4 DEF StdRight
<1>12. ClientRight(n, m2, f, e, k)
  BY <1>6, <1>7, <1>8, <1>9, <1>10, <1>11 DEF ClientRight
<1>13. QED
  <2>1. /\ Moves(net, net', c, n) /\ Moves(fast, fast', c, f) /\ Moves(echo, echo', c, e)
        /\ Moves(made, made', c, k)
    BY <1>1, <1>2, Unmoved
  <2>2. QED BY <2>1, <1>2, <1>12, <1>5, OneMoves

(* Do fails.                                                               *)
LEMMA StdFailsRight ==
  ASSUME ClientsInv, NEW c \in Clients, At(c, "sent"), Closed(c), UNCHANGED <<conf, fast, echo, made>>,
         cl' = [cl EXCEPT ![c].pc = "done", ![c].socket = FALSE]
  PROVE  ClientsInv'
<1>1. PICK n \in NetRecords, m \in ClientRecords, f \in FastRecords, e \in EchoRecords, k \in MadeRecords :
        /\ n = net[c] /\ m = cl[c] /\ f = fast[c] /\ e = echo[c] /\ k = made[c]
        /\ ClientRight(n, m, f, e, k)
  BY PartsOf
<1>2. /\ conf.kind = "std" /\ m.pc = "sent" /\ m.code = SocketError
      /\ conf' = conf /\ fast' = fast /\ echo' = echo /\ made' = made
  BY <1>1 DEF At, ClientRight, Placed
<1>3. PICK n2 : n2 = NoConn
  OBVIOUS
<1>4. /\ n2 \in NetRecords /\ n2.up = FALSE /\ n2.bytes = <<>> /\ n2.end = "open"
  BY <1>3, NoConnTyped
<1>5. Moves(net, net', c, n2)
  BY <1>1, <1>3 DEF Moves, ClientsInv, Closed
<1>6. PICK m2 : m2 = [m EXCEPT !.pc = "done", !.socket = FALSE]
  OBVIOUS
<1>7. /\ m2 \in ClientRecords /\ m2.pc = "done" /\ m2.socket = FALSE /\ m2.reused = m.reused /\ m2.code = m.code
      /\ m2.sockets = m.sockets /\ m2.connects = m.connects /\ m2.lookups = m.lookups
      /\ m2.unresolved = m.unresolved
      /\ m2.retries = m.retries /\ m2.tries = m.tries /\ m2.served = m.served /\ m2.whole = m.whole
  BY <1>6, ClientNumbers DEF ClientRecords, Pcs, Codes
<1>8. Moves(cl, cl', c, m2)
  BY <1>1, <1>6 DEF Moves, ClientsInv, Closed
<1>9. ClientTyped(n2, m2, f, e, k)
  BY <1>1, <1>4, <1>7 DEF ClientRight, ClientTyped
<1>10. Placed(n2, m2) /\ TriesRight(m2)
  BY <1>1, <1>2, <1>4, <1>7 DEF ClientRight, Placed, TriesRight, ClientRecords
<1>11. Explained(m2, k)
  BY <1>2 DEF Explained, IsEcho, PlainKept
<1>12. conf.kind = "fast" => FastRight(n2, m2, f)
  BY <1>2
<1>13. IsEcho => EchoRight(m2, e)
  BY <1>2 DEF IsEcho
<1>14. conf.kind = "std" => StdRight(m2)
  BY <1>2, <1>7 DEF StdRight
<1>15. ClientRight(n2, m2, f, e, k)
  BY <1>9, <1>10, <1>11, <1>12, <1>13, <1>14 DEF ClientRight
<1>16. QED
  <2>1. Moves(fast, fast', c, f) /\ Moves(echo, echo', c, e) /\ Moves(made, made', c, k)
    BY <1>1, <1>2, Unmoved
  <2>2. QED BY <2>1, <1>2, <1>15, <1>5, <1>8, OneMoves

(* A whole answer, on a connection that is kept.                           *)
LEMMA StdKeepsRight ==
  ASSUME ClientsInv, NEW c \in Clients, At(c, "sent"), UNCHANGED net, UNCHANGED <<conf, fast, echo, made>>,
         NEW y \in Nat, NEW z \in Nat, z = y,
         cl' = [cl EXCEPT ![c].pc = "done", ![c].socket = TRUE, ![c].code = z, ![c].served = y,
                          ![c].whole = TRUE]
  PROVE  ClientsInv'
<1>1. PICK n \in NetRecords, m \in ClientRecords, f \in FastRecords, e \in EchoRecords, k \in MadeRecords :
        /\ n = net[c] /\ m = cl[c] /\ f = fast[c] /\ e = echo[c] /\ k = made[c]
        /\ ClientRight(n, m, f, e, k)
  BY PartsOf
<1>2. /\ conf.kind = "std" /\ m.pc = "sent" /\ m.code = SocketError
      /\ conf' = conf /\ net' = net /\ fast' = fast /\ echo' = echo /\ made' = made
  BY <1>1 DEF At, ClientRight, Placed
<1>3. y \in Codes /\ z \in Codes
  BY DEF Codes
<1>4. PICK m2 : m2 = [m EXCEPT !.pc = "done", !.socket = TRUE, !.code = z, !.served = y, !.whole = TRUE]
  OBVIOUS
<1>5. /\ m2 \in ClientRecords /\ m2.pc = "done" /\ m2.socket = TRUE /\ m2.code = z /\ m2.served = y
      /\ m2.whole = TRUE
      /\ m2.reused = m.reused /\ m2.sockets = m.sockets /\ m2.connects = m.connects /\ m2.lookups = m.lookups
      /\ m2.unresolved = m.unresolved /\ m2.retries = m.retries /\ m2.tries = m.tries
  BY <1>4, <1>3, ClientNumbers DEF ClientRecords, Pcs, Codes
<1>6. Moves(cl, cl', c, m2)
  BY <1>1, <1>4 DEF Moves, ClientsInv, Closed
<1>7. ClientTyped(n, m2, f, e, k)
  BY <1>1, <1>5 DEF ClientRight, ClientTyped
<1>8. Placed(n, m2) /\ TriesRight(m2)
  BY <1>1, <1>2, <1>5 DEF ClientRight, Placed, TriesRight, ClientRecords
<1>9. Explained(m2, k)
  BY <1>2 DEF Explained, IsEcho, PlainKept
<1>10. conf.kind = "fast" => FastRight(n, m2, f)
  BY <1>2
<1>11. IsEcho => EchoRight(m2, e)
  BY <1>2 DEF IsEcho
<1>12. conf.kind = "std" => StdRight(m2)
  BY <1>5 DEF StdRight
<1>13. ClientRight(n, m2, f, e, k)
  BY <1>7, <1>8, <1>9, <1>10, <1>11, <1>12 DEF ClientRight
<1>14. QED
  <2>1. /\ Moves(net, net', c, n) /\ Moves(fast, fast', c, f) /\ Moves(echo, echo', c, e)
        /\ Moves(made, made', c, k)
    BY <1>1, <1>2, Unmoved
  <2>2. QED BY <2>1, <1>2, <1>13, <1>6, OneMoves

(* A whole answer, on one that is not.                                     *)
LEMMA StdClosesRight ==
  ASSUME ClientsInv, NEW c \in Clients, At(c, "sent"), Closed(c), UNCHANGED <<conf, fast, echo, made>>,
         NEW y \in Nat, NEW z \in Nat, z = y,
         cl' = [cl EXCEPT ![c].pc = "done", ![c].socket = FALSE, ![c].code = z, ![c].served = y,
                          ![c].whole = TRUE]
  PROVE  ClientsInv'
<1>1. PICK n \in NetRecords, m \in ClientRecords, f \in FastRecords, e \in EchoRecords, k \in MadeRecords :
        /\ n = net[c] /\ m = cl[c] /\ f = fast[c] /\ e = echo[c] /\ k = made[c]
        /\ ClientRight(n, m, f, e, k)
  BY PartsOf
<1>2. /\ conf.kind = "std" /\ m.pc = "sent" /\ m.code = SocketError
      /\ conf' = conf /\ fast' = fast /\ echo' = echo /\ made' = made
  BY <1>1 DEF At, ClientRight, Placed
<1>3. y \in Codes /\ z \in Codes
  BY DEF Codes
<1>4. PICK n2 : n2 = NoConn
  OBVIOUS
<1>5. /\ n2 \in NetRecords /\ n2.up = FALSE /\ n2.bytes = <<>> /\ n2.end = "open"
  BY <1>4, NoConnTyped
<1>6. Moves(net, net', c, n2)
  BY <1>1, <1>4 DEF Moves, ClientsInv, Closed
<1>7. PICK m2 : m2 = [m EXCEPT !.pc = "done", !.socket = FALSE, !.code = z, !.served = y, !.whole = TRUE]
  OBVIOUS
<1>8. /\ m2 \in ClientRecords /\ m2.pc = "done" /\ m2.socket = FALSE /\ m2.code = z /\ m2.served = y
      /\ m2.whole = TRUE /\ m2.reused = m.reused /\ m2.sockets = m.sockets /\ m2.connects = m.connects
      /\ m2.lookups = m.lookups /\ m2.unresolved = m.unresolved /\ m2.retries = m.retries /\ m2.tries = m.tries
  BY <1>7, <1>3, ClientNumbers DEF ClientRecords, Pcs, Codes
<1>9. Moves(cl, cl', c, m2)
  BY <1>1, <1>7 DEF Moves, ClientsInv, Closed
<1>10. ClientTyped(n2, m2, f, e, k)
  BY <1>1, <1>5, <1>8 DEF ClientRight, ClientTyped
<1>11. Placed(n2, m2) /\ TriesRight(m2)
  BY <1>1, <1>2, <1>5, <1>8 DEF ClientRight, Placed, TriesRight, ClientRecords
<1>12. Explained(m2, k)
  BY <1>2 DEF Explained, IsEcho, PlainKept
<1>13. conf.kind = "fast" => FastRight(n2, m2, f)
  BY <1>2
<1>14. IsEcho => EchoRight(m2, e)
  BY <1>2 DEF IsEcho
<1>15. conf.kind = "std" => StdRight(m2)
  BY <1>8 DEF StdRight
<1>16. ClientRight(n2, m2, f, e, k)
  BY <1>10, <1>11, <1>12, <1>13, <1>14, <1>15 DEF ClientRight
<1>17. QED
  <2>1. Moves(fast, fast', c, f) /\ Moves(echo, echo', c, e) /\ Moves(made, made', c, k)
    BY <1>1, <1>2, Unmoved
  <2>2. QED BY <2>1, <1>2, <1>16, <1>6, <1>9, OneMoves

(* A good answer whose body was cut: its code is 204.                      *)
LEMMA StdCutWell ==
  ASSUME ClientsInv, NEW c \in Clients, At(c, "sent"), Closed(c), UNCHANGED <<conf, fast, echo, made>>,
         NEW y \in Nat, CodeIsOK(y),
         cl' = [cl EXCEPT ![c].pc = "done", ![c].socket = FALSE, ![c].code = 204, ![c].served = y,
                          ![c].whole = FALSE]
  PROVE  ClientsInv'
<1>1. PICK n \in NetRecords, m \in ClientRecords, f \in FastRecords, e \in EchoRecords, k \in MadeRecords :
        /\ n = net[c] /\ m = cl[c] /\ f = fast[c] /\ e = echo[c] /\ k = made[c]
        /\ ClientRight(n, m, f, e, k)
  BY PartsOf
<1>2. /\ conf.kind = "std" /\ m.pc = "sent" /\ m.code = SocketError
      /\ conf' = conf /\ fast' = fast /\ echo' = echo /\ made' = made
  BY <1>1 DEF At, ClientRight, Placed
<1>3. y \in Codes /\ 204 \in Codes
  BY DEF Codes
<1>4. PICK n2 : n2 = NoConn
  OBVIOUS
<1>5. /\ n2 \in NetRecords /\ n2.up = FALSE /\ n2.bytes = <<>> /\ n2.end = "open"
  BY <1>4, NoConnTyped
<1>6. Moves(net, net', c, n2)
  BY <1>1, <1>4 DEF Moves, ClientsInv, Closed
<1>7. PICK m2 : m2 = [m EXCEPT !.pc = "done", !.socket = FALSE, !.code = 204, !.served = y, !.whole = FALSE]
  OBVIOUS
<1>8. /\ m2 \in ClientRecords /\ m2.pc = "done" /\ m2.socket = FALSE /\ m2.code = 204 /\ m2.served = y
      /\ m2.whole = FALSE /\ m2.reused = m.reused /\ m2.sockets = m.sockets /\ m2.connects = m.connects
      /\ m2.lookups = m.lookups /\ m2.unresolved = m.unresolved /\ m2.retries = m.retries /\ m2.tries = m.tries
  BY <1>7, <1>3, ClientNumbers, ZenonT(60) DEF ClientRecords, Pcs, Codes
<1>9. Moves(cl, cl', c, m2)
  BY <1>1, <1>7 DEF Moves, ClientsInv, Closed
<1>10. ClientTyped(n2, m2, f, e, k)
  BY <1>1, <1>5, <1>8 DEF ClientRight, ClientTyped
<1>11. Placed(n2, m2) /\ TriesRight(m2)
  BY <1>1, <1>2, <1>5, <1>8 DEF ClientRight, Placed, TriesRight, ClientRecords
<1>12. Explained(m2, k)
  BY <1>2 DEF Explained, IsEcho, PlainKept
<1>13. conf.kind = "fast" => FastRight(n2, m2, f)
  BY <1>2
<1>14. IsEcho => EchoRight(m2, e)
  BY <1>2 DEF IsEcho
<1>15. conf.kind = "std" => StdRight(m2)
  BY <1>8 DEF StdRight
<1>16. ClientRight(n2, m2, f, e, k)
  BY <1>10, <1>11, <1>12, <1>13, <1>14, <1>15 DEF ClientRight
<1>17. QED
  <2>1. Moves(fast, fast', c, f) /\ Moves(echo, echo', c, e) /\ Moves(made, made', c, k)
    BY <1>1, <1>2, Unmoved
  <2>2. QED BY <2>1, <1>2, <1>16, <1>6, <1>9, OneMoves

(* A bad answer whose body was cut keeps its code.                         *)
LEMMA StdCutBadly ==
  ASSUME ClientsInv, NEW c \in Clients, At(c, "sent"), Closed(c), UNCHANGED <<conf, fast, echo, made>>,
         NEW y \in Nat, NEW z \in Nat, ~CodeIsOK(y), z = y,
         cl' = [cl EXCEPT ![c].pc = "done", ![c].socket = FALSE, ![c].code = z, ![c].served = y,
                          ![c].whole = FALSE]
  PROVE  ClientsInv'
<1>1. PICK n \in NetRecords, m \in ClientRecords, f \in FastRecords, e \in EchoRecords, k \in MadeRecords :
        /\ n = net[c] /\ m = cl[c] /\ f = fast[c] /\ e = echo[c] /\ k = made[c]
        /\ ClientRight(n, m, f, e, k)
  BY PartsOf
<1>2. /\ conf.kind = "std" /\ m.pc = "sent" /\ m.code = SocketError
      /\ conf' = conf /\ fast' = fast /\ echo' = echo /\ made' = made
  BY <1>1 DEF At, ClientRight, Placed
<1>3. y \in Codes /\ z \in Codes
  BY DEF Codes
<1>4. PICK n2 : n2 = NoConn
  OBVIOUS
<1>5. /\ n2 \in NetRecords /\ n2.up = FALSE /\ n2.bytes = <<>> /\ n2.end = "open"
  BY <1>4, NoConnTyped
<1>6. Moves(net, net', c, n2)
  BY <1>1, <1>4 DEF Moves, ClientsInv, Closed
<1>7. PICK m2 : m2 = [m EXCEPT !.pc = "done", !.socket = FALSE, !.code = z, !.served = y, !.whole = FALSE]
  OBVIOUS
<1>8. /\ m2 \in ClientRecords /\ m2.pc = "done" /\ m2.socket = FALSE /\ m2.code = z /\ m2.served = y
      /\ m2.whole = FALSE /\ m2.reused = m.reused /\ m2.sockets = m.sockets /\ m2.connects = m.connects
      /\ m2.lookups = m.lookups /\ m2.unresolved = m.unresolved /\ m2.retries = m.retries /\ m2.tries = m.tries
  BY <1>7, <1>3, ClientNumbers DEF ClientRecords, Pcs, Codes
<1>9. Moves(cl, cl', c, m2)
  BY <1>1, <1>7 DEF Moves, ClientsInv, Closed
<1>10. ClientTyped(n2, m2, f, e, k)
  BY <1>1, <1>5, <1>8 DEF ClientRight, ClientTyped
<1>11. Placed(n2, m2) /\ TriesRight(m2)
  BY <1>1, <1>2, <1>5, <1>8 DEF ClientRight, Placed, TriesRight, ClientRecords
<1>12. Explained(m2, k)
  BY <1>2 DEF Explained, IsEcho, PlainKept
<1>13. conf.kind = "fast" => FastRight(n2, m2, f)
  BY <1>2
<1>14. IsEcho => EchoRight(m2, e)
  BY <1>2 DEF IsEcho
<1>15. conf.kind = "std" => StdRight(m2)
  BY <1>8 DEF StdRight
<1>16. ClientRight(n2, m2, f, e, k)
  BY <1>10, <1>11, <1>12, <1>13, <1>14, <1>15 DEF ClientRight
<1>17. QED
  <2>1. Moves(fast, fast', c, f) /\ Moves(echo, echo', c, e) /\ Moves(made, made', c, k)
    BY <1>1, <1>2, Unmoved
  <2>2. QED BY <2>1, <1>2, <1>16, <1>6, <1>9, OneMoves

(* The code of the answer is its own, or 204.                              *)
LEMMA StdAnsweredRight ==
  ASSUME ClientsInv, NEW c \in Clients, StdAnswered(c), UNCHANGED <<conf, made>> PROVE ClientsInv'
<1>1. At(c, "sent") /\ UNCHANGED <<conf, fast, echo, made>> /\ conf.keepAlive \in BOOLEAN
  BY ConfFacts DEF StdAnswered, ClientsInv
<1>2. CASE cl' = [cl EXCEPT ![c].pc = "done", ![c].socket = FALSE] /\ Closed(c)
  BY <1>1, <1>2, StdFailsRight
<1>3. ASSUME NEW a \in Answers[conf.server] PROVE a.code \in Nat
  BY ConfFacts, AnswerFacts DEF ClientsInv
<1>4. ASSUME NEW a \in Answers[conf.server],
             cl' = [cl EXCEPT ![c].pc = "done", ![c].socket = conf.keepAlive,
                              ![c].code = a.code, ![c].served = a.code, ![c].whole = TRUE],
             IF conf.keepAlive THEN UNCHANGED net ELSE Closed(c)
      PROVE  ClientsInv'
  <2>1. PICK y \in Nat : y = a.code
    BY <1>3
  <2>2. CASE conf.keepAlive = TRUE
    BY <2>1, <2>2, <1>1, <1>4, StdKeepsRight
  <2>3. CASE conf.keepAlive = FALSE
    BY <2>1, <2>3, <1>1, <1>4, StdClosesRight
  <2>4. QED BY <2>2, <2>3, <1>1
<1>5. ASSUME NEW a \in Answers[conf.server],
             cl' = [cl EXCEPT ![c].pc = "done", ![c].socket = FALSE,
                              ![c].code = IF CodeIsOK(a.code) THEN 204 ELSE a.code,
                              ![c].served = a.code, ![c].whole = FALSE],
             Closed(c)
      PROVE  ClientsInv'
  <2>1. PICK y \in Nat, z \in Nat : y = a.code /\ z = IF CodeIsOK(y) THEN 204 ELSE y
    BY <1>3
  <2>2. cl' = [cl EXCEPT ![c].pc = "done", ![c].socket = FALSE, ![c].code = z, ![c].served = y, ![c].whole = FALSE]
    BY <2>1, <1>5
  <2>3. CASE CodeIsOK(y)
    <3>1. z = 204
      BY <2>1, <2>3
    <3>2. cl' = [cl EXCEPT ![c].pc = "done", ![c].socket = FALSE, ![c].code = 204, ![c].served = y, ![c].whole = FALSE]
      BY <3>1, <2>2
    <3>3. QED BY <3>2, <2>3, <1>1, <1>5, StdCutWell
  <2>4. CASE ~CodeIsOK(y)
    <3>1. z = y
      BY <2>1, <2>4
    <3>2. QED BY <3>1, <2>2, <2>4, <1>1, <1>5, StdCutBadly
  <2>5. QED BY <2>3, <2>4
<1>6. QED BY <1>2, <1>4, <1>5 DEF StdAnswered

(* The standard client keeps what is known of the clients.                 *)
LEMMA StdStepRight ==
  ASSUME ClientsInv, NEW c \in Clients, StdStep(c), UNCHANGED <<conf, made>> PROVE ClientsInv'
<1>1. CASE StdDials(c)
  BY <1>1, StdDialRight, StdDialFailsRight DEF StdDials
<1>2. QED BY <1>1, StdFetchRight, StdReusesRight, StdAnsweredRight DEF StdStep

-----------------------------------------------------------------------------
(* What a run does with its clients.                                       *)

(* A client that is being built has made no call.                          *)
LEMMA NewClientRight ==
  ASSUME ClientsInv, NEW c \in Clients, At(c, "new"), GoesTo(c, "building"),
         UNCHANGED <<conf, net, fast, echo, made>>
  PROVE  ClientsInv'
<1>1. PICK n \in NetRecords, m \in ClientRecords, f \in FastRecords, e \in EchoRecords, k \in MadeRecords :
        /\ n = net[c] /\ m = cl[c] /\ f = fast[c] /\ e = echo[c] /\ k = made[c]
        /\ ClientRight(n, m, f, e, k)
  BY PartsOf
<1>2. /\ m.pc = "new"
      /\ conf' = conf /\ net' = net /\ fast' = fast /\ echo' = echo /\ made' = made
  BY <1>1 DEF At
<1>3. PICK m2 : m2 = [m EXCEPT !.pc = "building"]
  OBVIOUS
<1>4. /\ m2 \in ClientRecords /\ m2.pc = "building" /\ m2.socket = m.socket /\ m2.reused = m.reused
      /\ m2.code = m.code /\ m2.sockets = m.sockets /\ m2.connects = m.connects /\ m2.lookups = m.lookups
      /\ m2.unresolved = m.unresolved /\ m2.retries = m.retries /\ m2.tries = m.tries /\ m2.served = m.served
      /\ m2.whole = m.whole
  BY <1>3, ClientNumbers DEF ClientRecords, Pcs, Codes
<1>5. Moves(cl, cl', c, m2)
  BY <1>1, <1>3 DEF Moves, ClientsInv, GoesTo
<1>6. ClientTyped(n, m2, f, e, k)
  BY <1>1, <1>4 DEF ClientRight, ClientTyped
<1>7. Placed(n, m2) /\ TriesRight(m2)
  BY <1>1, <1>2, <1>4 DEF ClientRight, Placed, TriesRight, ClientRecords
<1>8. Explained(m2, k)
  BY <1>1, <1>2, <1>4, ErrorIsNotOK DEF ClientRight, Explained, ClientRecords, MadeRecords
<1>9. conf.kind = "fast" => FastRight(n, m2, f)
  BY <1>1, <1>2, <1>4 DEF ClientRight, FastRight, CountsRight, Leftover, Reached, ClientRecords
<1>10. IsEcho => EchoRight(m2, e)
  BY <1>1, <1>2, <1>4 DEF ClientRight, EchoRight
<1>11. conf.kind = "std" => StdRight(m2)
  BY <1>1, <1>2, <1>4 DEF ClientRight, StdRight
<1>12. ClientRight(n, m2, f, e, k)
  BY <1>6, <1>7, <1>8, <1>9, <1>10, <1>11 DEF ClientRight
<1>13. QED
  <2>1. /\ Moves(net, net', c, n) /\ Moves(fast, fast', c, f) /\ Moves(echo, echo', c, e)
        /\ Moves(made, made', c, k)
    BY <1>1, <1>2, Unmoved
  <2>2. QED BY <2>1, <1>2, <1>12, <1>5, OneMoves

(* A client that was built: it is called, or rests.                        *)
LEMMA BuiltWith ==
  ASSUME ClientsInv, NEW c \in Clients, At(c, "building"), NEW p \in {"called", "idle"}, NEW w \in {0, 1},
         cl' = [cl EXCEPT ![c].pc = p, ![c].lookups = @ + 1], made' = [made EXCEPT ![c].warm = w],
         UNCHANGED <<conf, net, fast, echo>>
  PROVE  ClientsInv'
<1>1. PICK n \in NetRecords, m \in ClientRecords, f \in FastRecords, e \in EchoRecords, k \in MadeRecords :
        /\ n = net[c] /\ m = cl[c] /\ f = fast[c] /\ e = echo[c] /\ k = made[c]
        /\ ClientRight(n, m, f, e, k)
  BY PartsOf
<1>2. /\ m.pc = "building" /\ m.socket = FALSE
      /\ conf' = conf /\ net' = net /\ fast' = fast /\ echo' = echo
  BY <1>1 DEF At, ClientRight, Placed, ClientRecords
<1>3. PICK m2 : m2 = [m EXCEPT !.pc = p, !.lookups = m.lookups + 1]
  OBVIOUS
<1>4. /\ m2 \in ClientRecords /\ m2.pc = p /\ m2.lookups = (m.lookups + 1) /\ m2.socket = m.socket
      /\ m2.reused = m.reused /\ m2.code = m.code /\ m2.sockets = m.sockets /\ m2.connects = m.connects
      /\ m2.unresolved = m.unresolved /\ m2.retries = m.retries /\ m2.tries = m.tries /\ m2.served = m.served
      /\ m2.whole = m.whole
  BY <1>3, ClientNumbers DEF ClientRecords, Pcs, Codes
<1>5. Moves(cl, cl', c, m2)
  BY <1>1, <1>3 DEF Moves, ClientsInv
<1>6. PICK k2 : k2 = [k EXCEPT !.warm = w]
  OBVIOUS
<1>7. /\ k2 \in MadeRecords /\ k2.warm = w /\ k2.calls = k.calls /\ k2.failed = k.failed
  BY <1>6 DEF MadeRecords
<1>8. Moves(made, made', c, k2)
  BY <1>1, <1>6 DEF Moves, ClientsInv
<1>9. ClientTyped(n, m2, f, e, k2)
  BY <1>1, <1>4, <1>7 DEF ClientRight, ClientTyped
<1>10. Placed(n, m2) /\ TriesRight(m2)
  BY <1>1, <1>2, <1>4, <1>7 DEF ClientRight, Placed, TriesRight, ClientRecords
<1>11. Explained(m2, k2)
  BY <1>1, <1>2, <1>4, <1>7, ErrorIsNotOK DEF ClientRight, Explained, ClientRecords, MadeRecords
<1>12. conf.kind = "fast" => FastRight(n, m2, f)
  <2> SUFFICES ASSUME conf.kind = "fast" PROVE FastRight(n, m2, f)
    OBVIOUS
  <2>1. CountsRight(m, f) /\ (PlainKept => ~f.warned) /\ (f.rest => f.warned)
    BY <1>1 DEF ClientRight, FastRight
  <2>2. m.sockets = 0 /\ m.lookups = 0
    BY <2>1, <1>2 DEF CountsRight
  <2>3. CountsRight(m2, f)
    BY <2>1, <2>2, <1>2, <1>4 DEF CountsRight
  <2>4. QED BY <2>1, <2>3, <1>2, <1>4 DEF FastRight
<1>13. IsEcho => EchoRight(m2, e)
  BY <1>1, <1>2, <1>4, <1>7 DEF ClientRight, EchoRight
<1>14. conf.kind = "std" => StdRight(m2)
  BY <1>1, <1>2, <1>4, <1>7 DEF ClientRight, StdRight
<1>15. ClientRight(n, m2, f, e, k2)
  BY <1>9, <1>10, <1>11, <1>12, <1>13, <1>14 DEF ClientRight
<1>16. QED
  <2>1. Moves(net, net', c, n) /\ Moves(fast, fast', c, f) /\ Moves(echo, echo', c, e)
    BY <1>1, <1>2, Unmoved
  <2>2. QED BY <2>1, <1>2, <1>15, <1>5, <1>8, OneMoves

(* It is called when there is a warm-up in sequence.                       *)
LEMMA BuiltRight ==
  ASSUME ClientsInv, NEW c \in Clients, Built(c) PROVE ClientsInv'
<1>1. PICK p \in {"called", "idle"}, w \in {0, 1} :
        p = (IF WarmsUp(c) THEN "called" ELSE "idle") /\ w = IF WarmsUp(c) THEN 1 ELSE 0
  OBVIOUS
<1>2. At(c, "building") /\ UNCHANGED <<conf, net, fast, echo>>
  BY DEF Built
<1>3. cl' = [cl EXCEPT ![c].pc = p, ![c].lookups = @ + 1] /\ made' = [made EXCEPT ![c].warm = w]
  BY <1>1 DEF Built
<1>4. QED BY <1>2, <1>3, BuiltWith

(* A call begins with a client at rest.                                    *)
LEMMA CallRight ==
  ASSUME ClientsInv, NEW c \in Clients, Call(c) PROVE ClientsInv'
<1>1. PICK n \in NetRecords, m \in ClientRecords, f \in FastRecords, e \in EchoRecords, k \in MadeRecords :
        /\ n = net[c] /\ m = cl[c] /\ f = fast[c] /\ e = echo[c] /\ k = made[c]
        /\ ClientRight(n, m, f, e, k)
  BY PartsOf
<1>2. /\ m.pc = "idle" /\ k.calls + 1 \in Nat
      /\ conf' = conf /\ net' = net /\ fast' = fast /\ echo' = echo
  BY <1>1 DEF At, Call, MadeRecords
<1>3. PICK m2 : m2 = [m EXCEPT !.pc = "called"]
  OBVIOUS
<1>4. /\ m2 \in ClientRecords /\ m2.pc = "called" /\ m2.socket = m.socket /\ m2.reused = m.reused
      /\ m2.code = m.code
      /\ m2.sockets = m.sockets /\ m2.connects = m.connects /\ m2.lookups = m.lookups
      /\ m2.unresolved = m.unresolved
      /\ m2.retries = m.retries /\ m2.tries = m.tries /\ m2.served = m.served /\ m2.whole = m.whole
  BY <1>3, ClientNumbers DEF ClientRecords, Pcs, Codes
<1>5. Moves(cl, cl', c, m2)
  BY <1>1, <1>3 DEF Moves, ClientsInv, Call
<1>6. PICK k2 : k2 = [k EXCEPT !.calls = k.calls + 1]
  OBVIOUS
<1>7. /\ k2 \in MadeRecords /\ k2.calls = (k.calls + 1) /\ k2.warm = k.warm /\ k2.failed = k.failed
  BY <1>6, <1>2 DEF MadeRecords
<1>8. Moves(made, made', c, k2)
  BY <1>1, <1>6 DEF Moves, ClientsInv, Call
<1>9. ClientTyped(n, m2, f, e, k2)
  BY <1>1, <1>4, <1>7 DEF ClientRight, ClientTyped
<1>10. Placed(n, m2) /\ TriesRight(m2)
  BY <1>1, <1>2, <1>4, <1>7 DEF ClientRight, Placed, TriesRight, ClientRecords
<1>11. Explained(m2, k2)
  BY <1>1, <1>2, <1>4, <1>7, ErrorIsNotOK DEF ClientRight, Explained, ClientRecords, MadeRecords
<1>12. conf.kind = "fast" => FastRight(n, m2, f)
  BY <1>1, <1>2, <1>4, <1>7 DEF ClientRight, FastRight, CountsRight, Leftover, Reached, ClientRecords
<1>13. IsEcho => EchoRight(m2, e)
  BY <1>1, <1>2, <1>4, <1>7 DEF ClientRight, EchoRight
<1>14. conf.kind = "std" => StdRight(m2)
  BY <1>1, <1>2, <1>4, <1>7 DEF ClientRight, StdRight
<1>15. ClientRight(n, m2, f, e, k2)
  BY <1>9, <1>10, <1>11, <1>12, <1>13, <1>14 DEF ClientRight
<1>16. QED
  <2>1. Moves(net, net', c, n) /\ Moves(fast, fast', c, f) /\ Moves(echo, echo', c, e)
    BY <1>1, <1>2, Unmoved
  <2>2. QED BY <2>1, <1>2, <1>15, <1>5, <1>8, OneMoves

(* A good call leaves a client at rest, with the socket it kept.           *)
LEMMA ForgetsGood ==
  ASSUME ClientsInv, NEW c \in Clients, At(c, "done"), Forget(c), CodeIsOK(cl[c].code),
         UNCHANGED <<conf, net, echo>>,
         made' = [made EXCEPT ![c].failed = made[c].failed]
  PROVE  ClientsInv'
<1>1. PICK n \in NetRecords, m \in ClientRecords, f \in FastRecords, e \in EchoRecords, k \in MadeRecords :
        /\ n = net[c] /\ m = cl[c] /\ f = fast[c] /\ e = echo[c] /\ k = made[c]
        /\ ClientRight(n, m, f, e, k)
  BY PartsOf
<1>2. /\ m.pc = "done" /\ CodeIsOK(m.code) /\ k.failed + 1 \in Nat /\ k.failed \in Nat
      /\ conf' = conf /\ net' = net /\ echo' = echo
  BY <1>1 DEF At, MadeRecords
<1>3. PICK m2 :
           m2 = [m EXCEPT !.pc = "idle", !.code = 0, !.reused = FALSE, !.tries = 0, !.served = 0, !.whole = FALSE]
  OBVIOUS
<1>4. /\ m2 \in ClientRecords /\ m2.pc = "idle" /\ m2.reused = FALSE /\ m2.code = 0 /\ m2.tries = 0
      /\ m2.served = 0
      /\ m2.whole = FALSE /\ m2.socket = m.socket /\ m2.sockets = m.sockets /\ m2.connects = m.connects
      /\ m2.lookups = m.lookups /\ m2.unresolved = m.unresolved /\ m2.retries = m.retries
  <2>1. PICK m1 : m1 = [m EXCEPT !.reused = FALSE, !.whole = FALSE, !.served = 0]
    OBVIOUS
  <2>2. m1 \in ClientRecords
    BY <2>1 DEF ClientRecords
  <2>3. m2 = [m1 EXCEPT !.pc = "idle", !.code = 0, !.tries = 0]
    BY <2>1, <1>3 DEF ClientRecords
  <2>4. 0 \in Codes /\ 0 \in 0 .. 2 /\ "idle" \in Pcs
    BY DEF Codes, Pcs
  <2>5. m2 \in ClientRecords
    BY <2>2, <2>3, <2>4 DEF ClientRecords
  <2>6. QED BY <2>5, <1>3 DEF ClientRecords
<1>5. Moves(cl, cl', c, m2)
  BY <1>1, <1>3 DEF Moves, ClientsInv, Forget
<1>6. PICK f2 : f2 = [NewFast(f.connReuse) EXCEPT !.reuseCount = f.reuseCount, !.warned = f.warned]
  OBVIOUS
<1>7. /\ f2 \in FastRecords /\ f2.buf = <<>> /\ f2.maxV = 0 /\ f2.parsed = FALSE /\ f2.keep = FALSE
      /\ f2.chunked = FALSE /\ f2.missed = FALSE /\ f2.reuseCount = f.reuseCount /\ f2.connReuse = f.connReuse
      /\ f2.warned = f.warned /\ f2.rest = FALSE
  <2>1. /\ f.reuseCount \in Nat /\ f.connReuse \in conf.reuseRange /\ f.warned \in BOOLEAN
    BY DEF FastRecords
  <2>2. PICK x, w, y : x = f.reuseCount /\ w = f.warned /\ y = f.connReuse
    OBVIOUS
  <2>3. f2 = [buf |-> <<>>, maxV |-> 0, parsed |-> FALSE, keep |-> FALSE, chunked |-> FALSE, missed |-> FALSE,
              reuseCount |-> x, connReuse |-> y, warned |-> w, rest |-> FALSE]
    BY <2>2, <1>6 DEF NewFast
  <2>4. f2 \in FastRecords
    BY <2>1, <2>2, <2>3 DEF FastRecords
  <2>5. QED BY <2>2, <2>3, <2>4
<1>8. Moves(fast, fast', c, f2)
  BY <1>1, <1>6 DEF Moves, ClientsInv, Forget
<1>9. PICK k2 : k2 = [k EXCEPT !.failed = k.failed]
  OBVIOUS
<1>10. /\ k2 \in MadeRecords /\ k2.failed = k.failed /\ k2.warm = k.warm /\ k2.calls = k.calls
  BY <1>9, <1>2 DEF MadeRecords
<1>11. Moves(made, made', c, k2)
  BY <1>1, <1>9 DEF Moves, ClientsInv, Forget
<1>12. ClientTyped(n, m2, f2, e, k2)
  BY <1>1, <1>4, <1>7, <1>10, BufferAssumption DEF ClientRight, ClientTyped
<1>13. Placed(n, m2) /\ TriesRight(m2)
  BY <1>1, <1>2, <1>4, <1>7, <1>10 DEF ClientRight, Placed, TriesRight, ClientRecords
<1>14. Explained(m2, k2)
  <2>1. k.failed \in Nat /\ m.retries \in Nat /\ m.sockets \in Nat
    BY <1>2, ClientNumbers
  <2>2. Explained(m, k)
    BY <1>1 DEF ClientRight
  <2>3. QED BY <2>1, <2>2, <1>2, <1>4, <1>10 DEF Explained
<1>15. conf.kind = "fast" => FastRight(n, m2, f2)
  <2> SUFFICES ASSUME conf.kind = "fast" PROVE FastRight(n, m2, f2)
    OBVIOUS
  <2>1. /\ CountsRight(m, f) /\ (m.socket => Leftover(n, f)) /\ (PlainKept => ~f.warned)
        /\ f.rest => f.warned
    BY <1>1 DEF ClientRight, FastRight
  <2>2. CountsRight(m2, f2)
    BY <2>1, <1>2, <1>4, <1>7 DEF CountsRight, Reached
  <2>3. m2.socket => Leftover(n, f2)
    BY <2>1, <1>4, <1>7 DEF Leftover
  <2>4. QED BY <2>1, <2>2, <2>3, <1>4, <1>7 DEF FastRight
<1>16. IsEcho => EchoRight(m2, e)
  BY <1>1, <1>2, <1>4, <1>7, <1>10 DEF ClientRight, EchoRight
<1>17. conf.kind = "std" => StdRight(m2)
  BY <1>1, <1>2, <1>4, <1>7, <1>10 DEF ClientRight, StdRight
<1>18. ClientRight(n, m2, f2, e, k2)
  BY <1>12, <1>13, <1>14, <1>15, <1>16, <1>17 DEF ClientRight
<1>19. QED
  <2>1. Moves(net, net', c, n) /\ Moves(echo, echo', c, e)
    BY <1>1, <1>2, Unmoved
  <2>2. QED BY <2>1, <1>2, <1>18, <1>5, <1>8, <1>11, OneMoves

(* A call that failed is counted: it explains the next socket.             *)
LEMMA ForgetsBad ==
  ASSUME ClientsInv, NEW c \in Clients, At(c, "done"), Forget(c), ~CodeIsOK(cl[c].code),
         UNCHANGED <<conf, net, echo>>,
         made' = [made EXCEPT ![c].failed = @ + 1]
  PROVE  ClientsInv'
<1>1. PICK n \in NetRecords, m \in ClientRecords, f \in FastRecords, e \in EchoRecords, k \in MadeRecords :
        /\ n = net[c] /\ m = cl[c] /\ f = fast[c] /\ e = echo[c] /\ k = made[c]
        /\ ClientRight(n, m, f, e, k)
  BY PartsOf
<1>2. /\ m.pc = "done" /\ ~CodeIsOK(m.code) /\ k.failed + 1 \in Nat /\ k.failed \in Nat
      /\ conf' = conf /\ net' = net /\ echo' = echo
  BY <1>1 DEF At, MadeRecords
<1>3. PICK m2 :
           m2 = [m EXCEPT !.pc = "idle", !.code = 0, !.reused = FALSE, !.tries = 0, !.served = 0, !.whole = FALSE]
  OBVIOUS
<1>4. /\ m2 \in ClientRecords /\ m2.pc = "idle" /\ m2.reused = FALSE /\ m2.code = 0 /\ m2.tries = 0
      /\ m2.served = 0
      /\ m2.whole = FALSE /\ m2.socket = m.socket /\ m2.sockets = m.sockets /\ m2.connects = m.connects
      /\ m2.lookups = m.lookups /\ m2.unresolved = m.unresolved /\ m2.retries = m.retries
  <2>1. PICK m1 : m1 = [m EXCEPT !.reused = FALSE, !.whole = FALSE, !.served = 0]
    OBVIOUS
  <2>2. m1 \in ClientRecords
    BY <2>1 DEF ClientRecords
  <2>3. m2 = [m1 EXCEPT !.pc = "idle", !.code = 0, !.tries = 0]
    BY <2>1, <1>3 DEF ClientRecords
  <2>4. 0 \in Codes /\ 0 \in 0 .. 2 /\ "idle" \in Pcs
    BY DEF Codes, Pcs
  <2>5. m2 \in ClientRecords
    BY <2>2, <2>3, <2>4 DEF ClientRecords
  <2>6. QED BY <2>5, <1>3 DEF ClientRecords
<1>5. Moves(cl, cl', c, m2)
  BY <1>1, <1>3 DEF Moves, ClientsInv, Forget
<1>6. PICK f2 : f2 = [NewFast(f.connReuse) EXCEPT !.reuseCount = f.reuseCount, !.warned = f.warned]
  OBVIOUS
<1>7. /\ f2 \in FastRecords /\ f2.buf = <<>> /\ f2.maxV = 0 /\ f2.parsed = FALSE /\ f2.keep = FALSE
      /\ f2.chunked = FALSE /\ f2.missed = FALSE /\ f2.reuseCount = f.reuseCount /\ f2.connReuse = f.connReuse
      /\ f2.warned = f.warned /\ f2.rest = FALSE
  <2>1. /\ f.reuseCount \in Nat /\ f.connReuse \in conf.reuseRange /\ f.warned \in BOOLEAN
    BY DEF FastRecords
  <2>2. PICK x, w, y : x = f.reuseCount /\ w = f.warned /\ y = f.connReuse
    OBVIOUS
  <2>3. f2 = [buf |-> <<>>, maxV |-> 0, parsed |-> FALSE, keep |-> FALSE, chunked |-> FALSE, missed |-> FALSE,
              reuseCount |-> x, connReuse |-> y, warned |-> w, rest |-> FALSE]
    BY <2>2, <1>6 DEF NewFast
  <2>4. f2 \in FastRecords
    BY <2>1, <2>2, <2>3 DEF FastRecords
  <2>5. QED BY <2>2, <2>3, <2>4
<1>8. Moves(fast, fast', c, f2)
  BY <1>1, <1>6 DEF Moves, ClientsInv, Forget
<1>9. PICK k2 : k2 = [k EXCEPT !.failed = k.failed + 1]
  OBVIOUS
<1>10. /\ k2 \in MadeRecords /\ k2.failed = (k.failed + 1) /\ k2.warm = k.warm /\ k2.calls = k.calls
  BY <1>9, <1>2 DEF MadeRecords
<1>11. Moves(made, made', c, k2)
  BY <1>1, <1>9 DEF Moves, ClientsInv, Forget
<1>12. ClientTyped(n, m2, f2, e, k2)
  BY <1>1, <1>4, <1>7, <1>10, BufferAssumption DEF ClientRight, ClientTyped
<1>13. Placed(n, m2) /\ TriesRight(m2)
  BY <1>1, <1>2, <1>4, <1>7, <1>10 DEF ClientRight, Placed, TriesRight, ClientRecords
<1>14. Explained(m2, k2)
  <2>1. k.failed \in Nat /\ m.retries \in Nat /\ m.sockets \in Nat
    BY <1>2, ClientNumbers
  <2>2. Explained(m, k)
    BY <1>1 DEF ClientRight
  <2>3. m2.sockets <= k2.failed + m2.retries \/ ~(IsEcho \/ PlainKept)
    BY <2>1, <2>2, <1>4, <1>10 DEF Explained
  <2>4. QED BY <2>1, <2>3, <1>4, <1>10 DEF Explained
<1>15. conf.kind = "fast" => FastRight(n, m2, f2)
  <2> SUFFICES ASSUME conf.kind = "fast" PROVE FastRight(n, m2, f2)
    OBVIOUS
  <2>1. /\ CountsRight(m, f) /\ (m.socket => Leftover(n, f)) /\ (PlainKept => ~f.warned)
        /\ f.rest => f.warned
    BY <1>1 DEF ClientRight, FastRight
  <2>2. CountsRight(m2, f2)
    BY <2>1, <1>2, <1>4, <1>7 DEF CountsRight, Reached
  <2>3. m2.socket => Leftover(n, f2)
    BY <2>1, <1>4, <1>7 DEF Leftover
  <2>4. QED BY <2>1, <2>2, <2>3, <1>4, <1>7 DEF FastRight
<1>16. IsEcho => EchoRight(m2, e)
  BY <1>1, <1>2, <1>4, <1>7, <1>10 DEF ClientRight, EchoRight
<1>17. conf.kind = "std" => StdRight(m2)
  BY <1>1, <1>2, <1>4, <1>7, <1>10 DEF ClientRight, StdRight
<1>18. ClientRight(n, m2, f2, e, k2)
  BY <1>12, <1>13, <1>14, <1>15, <1>16, <1>17 DEF ClientRight
<1>19. QED
  <2>1. Moves(net, net', c, n) /\ Moves(echo, echo', c, e)
    BY <1>1, <1>2, Unmoved
  <2>2. QED BY <2>1, <1>2, <1>18, <1>5, <1>8, <1>11, OneMoves

(* A call of the warm-up is over.                                          *)
LEMMA WarmedRight ==
  ASSUME ClientsInv, NEW c \in Clients, Warmed(c) PROVE ClientsInv'
<1>1. At(c, "done") /\ Forget(c) /\ UNCHANGED <<conf, net, echo>>
  BY DEF Warmed
<1>2. CASE CodeIsOK(cl[c].code)
  <2>1. made' = [made EXCEPT ![c].failed = made[c].failed]
    BY <1>2 DEF Warmed
  <2>2. QED BY <2>1, <1>1, <1>2, ForgetsGood
<1>3. CASE ~CodeIsOK(cl[c].code)
  <2>1. made' = [made EXCEPT ![c].failed = @ + 1]
    BY <1>3 DEF Warmed
  <2>2. QED BY <2>1, <1>1, <1>3, ForgetsBad
<1>4. QED BY <1>2, <1>3

(* A call of the run is over.                                              *)
LEMMA ReturnRight ==
  ASSUME ClientsInv, NEW c \in Clients, Return(c) PROVE ClientsInv'
<1>1. At(c, "done") /\ Forget(c) /\ UNCHANGED <<conf, net, echo>>
  BY DEF Return
<1>2. CASE CodeIsOK(cl[c].code)
  <2>1. made' = [made EXCEPT ![c].failed = made[c].failed]
    BY <1>2 DEF Return
  <2>2. QED BY <2>1, <1>1, <1>2, ForgetsGood
<1>3. CASE ~CodeIsOK(cl[c].code)
  <2>1. made' = [made EXCEPT ![c].failed = @ + 1]
    BY <1>3 DEF Return
  <2>2. QED BY <2>1, <1>1, <1>3, ForgetsBad
<1>4. QED BY <1>2, <1>3

(* The other side of a connection ends it, or the network.                 *)
LEMMA IdleEndsRight ==
  ASSUME ClientsInv, NEW c \in Clients, cl[c].pc \in {"idle", "write"}, NEW x \in Ends, IdleEnds(c, x),
         UNCHANGED <<conf, cl, fast, echo, made>>
  PROVE  ClientsInv'
<1>1. PICK n \in NetRecords, m \in ClientRecords, f \in FastRecords, e \in EchoRecords, k \in MadeRecords :
        /\ n = net[c] /\ m = cl[c] /\ f = fast[c] /\ e = echo[c] /\ k = made[c]
        /\ ClientRight(n, m, f, e, k)
  BY PartsOf
<1>2. /\ m.pc \in {"idle", "write"} /\ n.bytes \in Stream
      /\ conf' = conf /\ cl' = cl /\ fast' = fast /\ echo' = echo /\ made' = made
  BY <1>1 DEF NetRecords
<1>3. PICK n2 : n2 = [n EXCEPT !.end = x]
  OBVIOUS
<1>4. /\ n2 \in NetRecords /\ n2.end = x /\ n2.up = n.up /\ n2.bytes = n.bytes
  BY <1>3, <1>2 DEF NetRecords, Ends, NoConn
<1>5. Moves(net, net', c, n2)
  BY <1>1, <1>3 DEF Moves, ClientsInv, IdleEnds
<1>6. ClientTyped(n2, m, f, e, k)
  BY <1>1, <1>4 DEF ClientRight, ClientTyped
<1>7. Placed(n2, m) /\ TriesRight(m)
  BY <1>1, <1>2, <1>4 DEF ClientRight, Placed, TriesRight, ClientRecords
<1>8. Explained(m, k)
  BY <1>1, <1>2, <1>4, ErrorIsNotOK DEF ClientRight, Explained, ClientRecords, MadeRecords
<1>9. conf.kind = "fast" => FastRight(n2, m, f)
  BY <1>1, <1>2, <1>4 DEF ClientRight, FastRight, CountsRight, Leftover, Reached, ClientRecords
<1>10. IsEcho => EchoRight(m, e)
  BY <1>1, <1>2, <1>4 DEF ClientRight, EchoRight
<1>11. conf.kind = "std" => StdRight(m)
  BY <1>1, <1>2, <1>4 DEF ClientRight, StdRight
<1>12. ClientRight(n2, m, f, e, k)
  BY <1>6, <1>7, <1>8, <1>9, <1>10, <1>11 DEF ClientRight
<1>13. QED
  <2>1. Moves(cl, cl', c, m) /\ Moves(fast, fast', c, f) /\ Moves(echo, echo', c, e) /\ Moves(made, made', c, k)
    BY <1>1, <1>2, Unmoved
  <2>2. QED BY <2>1, <1>2, <1>12, <1>5, OneMoves

(* A step of many clients, each by its own parts.                          *)
LEMMA EachMoves ==
  ASSUME ClientsInv, conf' = conf,
         DOMAIN net' = Clients, DOMAIN cl' = Clients, DOMAIN fast' = Clients, DOMAIN echo' = Clients,
         DOMAIN made' = Clients,
         \A d \in Clients : \E n, m, f, e, k :
           /\ n = net'[d] /\ m = cl'[d] /\ f = fast'[d] /\ e = echo'[d] /\ k = made'[d]
           /\ ClientRight(n, m, f, e, k)
  PROVE  ClientsInv'
<1>1. ASSUME NEW d \in Clients PROVE ClientRight(net[d], cl[d], fast[d], echo[d], made[d])'
  <2>1. PICK n, m, f, e, k :
          /\ n = net'[d] /\ m = cl'[d] /\ f = fast'[d] /\ e = echo'[d] /\ k = made'[d]
          /\ ClientRight(n, m, f, e, k)
    OBVIOUS
  <2>2. ClientRight(n, m, f, e, k)'
    BY <2>1, SameConf
  <2>3. QED BY <2>1, <2>2
<1>2. conf' \in Confs
  BY DEF ClientsInv
<1>3. QED BY <1>1, <1>2 DEF ClientsInv

(* A client that is given up, closed, or collected, or warmed up.          *)
LEMMA FailedRight ==
  ASSUME NEW n \in NetRecords, NEW m \in ClientRecords, NEW f \in FastRecords, NEW e \in EchoRecords,
         NEW k \in MadeRecords, ClientRight(n, m, f, e, k), m.pc = "building",
         NEW m2,
         m2 = [m EXCEPT !.pc = "failed"]
  PROVE  ClientRight(n, m2, f, e, k)
<1>1. /\ m2 \in ClientRecords /\ m2.pc = "failed" /\ m2.socket = m.socket /\ m2.reused = m.reused
      /\ m2.code = m.code /\ m2.sockets = m.sockets /\ m2.connects = m.connects /\ m2.lookups = m.lookups
      /\ m2.unresolved = m.unresolved /\ m2.retries = m.retries /\ m2.tries = m.tries /\ m2.served = m.served
      /\ m2.whole = m.whole
  BY ClientNumbers DEF ClientRecords, Pcs
<1>2. ClientTyped(n, m2, f, e, k)
  BY <1>1 DEF ClientRight, ClientTyped
<1>3. Placed(n, m2) /\ TriesRight(m2)
  BY <1>1 DEF ClientRight, Placed, TriesRight, ClientRecords
<1>4. Explained(m2, k)
  BY <1>1 DEF ClientRight, Explained
<1>5. ASSUME conf.kind = "fast" PROVE FastRight(n, m2, f)
  <2>1. /\ CountsRight(m, f) /\ (m.socket => Leftover(n, f)) /\ (PlainKept => ~f.warned)
        /\ f.rest => f.warned
    BY <1>5 DEF ClientRight, FastRight
  <2>2. CountsRight(m2, f)
    BY <2>1, <1>1 DEF CountsRight, Reached
  <2>3. m2.socket => Leftover(n, f)
    BY <2>1, <1>1 DEF Leftover
  <2>4. QED BY <2>1, <2>2, <2>3, <1>1 DEF FastRight
<1>6. EchoRight(m2, e) /\ StdRight(m2)
  BY <1>1 DEF EchoRight, StdRight
<1>7. QED BY <1>2, <1>3, <1>4, <1>5, <1>6 DEF ClientRight

(* A client of Kafka is closed when another cannot be built.               *)
LEMMA CleanedRight ==
  ASSUME NEW n \in NetRecords, NEW m \in ClientRecords, NEW f \in FastRecords, NEW e \in EchoRecords,
         NEW k \in MadeRecords, ClientRight(n, m, f, e, k), m.pc = "idle",
         NEW m2,
         m2 = [m EXCEPT !.pc = "closed"]
  PROVE  ClientRight(n, m2, f, e, k)
<1>1. /\ m2 \in ClientRecords /\ m2.pc = "closed" /\ m2.socket = m.socket /\ m2.reused = m.reused
      /\ m2.code = m.code /\ m2.sockets = m.sockets /\ m2.connects = m.connects /\ m2.lookups = m.lookups
      /\ m2.unresolved = m.unresolved /\ m2.retries = m.retries /\ m2.tries = m.tries /\ m2.served = m.served
      /\ m2.whole = m.whole
  BY ClientNumbers DEF ClientRecords, Pcs
<1>2. ClientTyped(n, m2, f, e, k)
  BY <1>1 DEF ClientRight, ClientTyped
<1>3. Placed(n, m2) /\ TriesRight(m2)
  BY <1>1 DEF ClientRight, Placed, TriesRight, ClientRecords
<1>4. Explained(m2, k)
  BY <1>1 DEF ClientRight, Explained
<1>5. ASSUME conf.kind = "fast" PROVE FastRight(n, m2, f)
  <2>1. /\ CountsRight(m, f) /\ (m.socket => Leftover(n, f)) /\ (PlainKept => ~f.warned)
        /\ f.rest => f.warned
    BY <1>5 DEF ClientRight, FastRight
  <2>2. CountsRight(m2, f)
    BY <2>1, <1>1 DEF CountsRight, Reached
  <2>3. m2.socket => Leftover(n, f)
    BY <2>1, <1>1 DEF Leftover
  <2>4. QED BY <2>1, <2>2, <2>3, <1>1 DEF FastRight
<1>6. EchoRight(m2, e) /\ StdRight(m2)
  BY <1>1 DEF EchoRight, StdRight
<1>7. QED BY <1>2, <1>3, <1>4, <1>5, <1>6 DEF ClientRight

(* A client that is collected is closed, and so is its connection.         *)
LEMMA CollectedRight ==
  ASSUME NEW n \in NetRecords, NEW m \in ClientRecords, NEW f \in FastRecords, NEW e \in EchoRecords,
         NEW k \in MadeRecords, ClientRight(n, m, f, e, k), m.pc = "idle",
         NEW n2, NEW m2,
         n2 = IF m.socket THEN NoConn ELSE n,
         m2 = [m EXCEPT !.pc = "closed", !.socket = FALSE]
  PROVE  ClientRight(n2, m2, f, e, k)
<1>1. n2 \in NetRecords /\ (~m.socket => n2 = n)
  BY NoConnTyped
<1>2. /\ m2 \in ClientRecords /\ m2.pc = "closed" /\ m2.socket = FALSE /\ m2.reused = m.reused
      /\ m2.code = m.code /\ m2.sockets = m.sockets /\ m2.connects = m.connects /\ m2.lookups = m.lookups
      /\ m2.unresolved = m.unresolved /\ m2.retries = m.retries /\ m2.tries = m.tries /\ m2.served = m.served
      /\ m2.whole = m.whole
  BY ClientNumbers DEF ClientRecords, Pcs
<1>3. ClientTyped(n2, m2, f, e, k)
  BY <1>1, <1>2 DEF ClientRight, ClientTyped
<1>4. Placed(n2, m2) /\ TriesRight(m2)
  BY <1>1, <1>2 DEF ClientRight, Placed, TriesRight, ClientRecords
<1>5. Explained(m2, k)
  BY <1>1, <1>2 DEF ClientRight, Explained
<1>6. ASSUME conf.kind = "fast" PROVE FastRight(n2, m2, f)
  <2>1. /\ CountsRight(m, f) /\ (m.socket => Leftover(n, f)) /\ (PlainKept => ~f.warned)
        /\ f.rest => f.warned
    BY <1>6 DEF ClientRight, FastRight
  <2>2. CountsRight(m2, f)
    BY <2>1, <1>2 DEF CountsRight, Reached
  <2>3. m2.socket => Leftover(n2, f)
    BY <2>1, <1>1, <1>2 DEF Leftover
  <2>4. QED BY <2>1, <2>2, <2>3, <1>2 DEF FastRight
<1>7. EchoRight(m2, e) /\ StdRight(m2)
  BY <1>1, <1>2 DEF EchoRight, StdRight
<1>8. QED BY <1>3, <1>4, <1>5, <1>6, <1>7 DEF ClientRight

(* A client at rest is called by the warm-up.                              *)
LEMMA WarmCalledRight ==
  ASSUME NEW n \in NetRecords, NEW m \in ClientRecords, NEW f \in FastRecords, NEW e \in EchoRecords,
         NEW k \in MadeRecords, ClientRight(n, m, f, e, k), m.pc = "idle",
         NEW m2, NEW k2,
         m2 = [m EXCEPT !.pc = "called"],
         k2 = [k EXCEPT !.warm = 1]
  PROVE  ClientRight(n, m2, f, e, k2)
<1>1. /\ m2 \in ClientRecords /\ m2.pc = "called" /\ m2.socket = m.socket /\ m2.reused = m.reused
      /\ m2.code = m.code /\ m2.sockets = m.sockets /\ m2.connects = m.connects /\ m2.lookups = m.lookups
      /\ m2.unresolved = m.unresolved /\ m2.retries = m.retries /\ m2.tries = m.tries /\ m2.served = m.served
      /\ m2.whole = m.whole
  BY ClientNumbers DEF ClientRecords, Pcs
<1>2. /\ k2 \in MadeRecords /\ k2.warm = 1 /\ k2.calls = k.calls /\ k2.failed = k.failed
  BY DEF MadeRecords
<1>3. ClientTyped(n, m2, f, e, k2)
  BY <1>1, <1>2 DEF ClientRight, ClientTyped
<1>4. Placed(n, m2) /\ TriesRight(m2)
  BY <1>1, <1>2 DEF ClientRight, Placed, TriesRight, ClientRecords
<1>5. Explained(m2, k2)
  BY <1>1, <1>2 DEF ClientRight, Explained
<1>6. ASSUME conf.kind = "fast" PROVE FastRight(n, m2, f)
  <2>1. /\ CountsRight(m, f) /\ (m.socket => Leftover(n, f)) /\ (PlainKept => ~f.warned)
        /\ f.rest => f.warned
    BY <1>6 DEF ClientRight, FastRight
  <2>2. CountsRight(m2, f)
    BY <2>1, <1>1 DEF CountsRight, Reached
  <2>3. m2.socket => Leftover(n, f)
    BY <2>1, <1>1 DEF Leftover
  <2>4. QED BY <2>1, <2>2, <2>3, <1>1 DEF FastRight
<1>7. EchoRight(m2, e) /\ StdRight(m2)
  BY <1>1, <1>2 DEF EchoRight, StdRight
<1>8. QED BY <1>3, <1>4, <1>5, <1>6, <1>7 DEF ClientRight

(* A run that cannot build a client fails.                                 *)
LEMMA NotBuiltRight ==
  ASSUME ClientsInv, NEW c \in Clients, NotBuilt(c) PROVE ClientsInv'
<1>1. /\ DOMAIN net = Clients /\ DOMAIN cl = Clients /\ DOMAIN fast = Clients /\ DOMAIN echo = Clients
      /\ DOMAIN made = Clients
  BY DEF ClientsInv
<1>2. /\ UNCHANGED <<conf, net, fast, echo, made>> /\ At(c, "building")
      /\ cl' = [d \in Clients |->
                  IF d = c THEN [cl[d] EXCEPT !.pc = "failed"]
                  ELSE IF d \in Crew(RunOf(c)) /\ CleansUp(d) THEN [cl[d] EXCEPT !.pc = "closed"] ELSE cl[d]]
  BY DEF NotBuilt
<1>3. ASSUME NEW d \in Clients
      PROVE  \E n, m, f, e, k :
               /\ n = net'[d] /\ m = cl'[d] /\ f = fast'[d] /\ e = echo'[d] /\ k = made'[d]
               /\ ClientRight(n, m, f, e, k)
  <2>1. PICK n \in NetRecords, m \in ClientRecords, f \in FastRecords, e \in EchoRecords, k \in MadeRecords :
          /\ n = net[d] /\ m = cl[d] /\ f = fast[d] /\ e = echo[d] /\ k = made[d]
          /\ ClientRight(n, m, f, e, k)
    BY PartsOf
  <2>2. PICK m2 : m2 = cl'[d]
    OBVIOUS
  <2>3. \/ m2 = [m EXCEPT !.pc = "failed"] /\ m.pc = "building"
        \/ m2 = [m EXCEPT !.pc = "closed"] /\ m.pc = "idle"
        \/ m2 = m
    BY <2>1, <2>2, <1>2 DEF CleansUp, At
  <2>4. ClientRight(n, m2, f, e, k)
    BY <2>1, <2>3, FailedRight, CleanedRight
  <2>5. QED BY <2>1, <2>2, <2>4, <1>2
<1>4. DOMAIN cl' = Clients
  BY <1>2
<1>5. QED BY <1>1, <1>2, <1>3, <1>4, EachMoves

(* The parallel warm-up calls all the clients at rest.                     *)
LEMMA WarmUpRight ==
  ASSUME ClientsInv, NEW r \in RunIDs, WarmUp(r) PROVE ClientsInv'
<1>1. /\ DOMAIN net = Clients /\ DOMAIN cl = Clients /\ DOMAIN fast = Clients /\ DOMAIN echo = Clients
      /\ DOMAIN made = Clients
  BY DEF ClientsInv
<1>2. /\ UNCHANGED <<conf, net, fast, echo>> /\ AllIdle(r)
      /\ cl' = [c \in Clients |-> IF c \in Crew(r) THEN [cl[c] EXCEPT !.pc = "called"] ELSE cl[c]]
      /\ made' = [c \in Clients |-> IF c \in Crew(r) THEN [made[c] EXCEPT !.warm = 1] ELSE made[c]]
  BY DEF WarmUp
<1>3. ASSUME NEW d \in Clients
      PROVE  \E n, m, f, e, k :
               /\ n = net'[d] /\ m = cl'[d] /\ f = fast'[d] /\ e = echo'[d] /\ k = made'[d]
               /\ ClientRight(n, m, f, e, k)
  <2>1. PICK n \in NetRecords, m \in ClientRecords, f \in FastRecords, e \in EchoRecords, k \in MadeRecords :
          /\ n = net[d] /\ m = cl[d] /\ f = fast[d] /\ e = echo[d] /\ k = made[d]
          /\ ClientRight(n, m, f, e, k)
    BY PartsOf
  <2>2. PICK m2, k2 : m2 = cl'[d] /\ k2 = made'[d]
    OBVIOUS
  <2>3. \/ m2 = [m EXCEPT !.pc = "called"] /\ k2 = [k EXCEPT !.warm = 1] /\ m.pc = "idle"
        \/ m2 = m /\ k2 = k
    BY <2>1, <2>2, <1>2 DEF AllIdle, At
  <2>4. ClientRight(n, m2, f, e, k2)
    BY <2>1, <2>3, WarmCalledRight
  <2>5. QED BY <2>1, <2>2, <2>4, <1>2
<1>4. DOMAIN cl' = Clients /\ DOMAIN made' = Clients
  BY <1>2
<1>5. QED BY <1>1, <1>2, <1>3, <1>4, EachMoves

(* The workers that a run used are some of its own.                        *)
LEMMA CollectRight ==
  ASSUME ClientsInv, UsedRight, NEW r \in RunIDs, Collect(r) PROVE ClientsInv'
<1>1. /\ DOMAIN net = Clients /\ DOMAIN cl = Clients /\ DOMAIN fast = Clients /\ DOMAIN echo = Clients
      /\ DOMAIN made = Clients
  BY DEF ClientsInv
<1>2. PICK s : s = Collected(r) /\ s \subseteq Crew(r)
  BY DEF Collected, UsedRight
<1>3. /\ UNCHANGED <<conf, fast, echo, made>> /\ AllIdle(r)
      /\ cl' = [c \in Clients |-> IF c \in s THEN [cl[c] EXCEPT !.pc = "closed", !.socket = FALSE] ELSE cl[c]]
      /\ net' = [c \in Clients |-> IF c \in s /\ cl[c].socket THEN NoConn ELSE net[c]]
  BY <1>2 DEF Collect
<1>4. ASSUME NEW d \in Clients
      PROVE  \E n, m, f, e, k :
               /\ n = net'[d] /\ m = cl'[d] /\ f = fast'[d] /\ e = echo'[d] /\ k = made'[d]
               /\ ClientRight(n, m, f, e, k)
  <2>1. PICK n \in NetRecords, m \in ClientRecords, f \in FastRecords, e \in EchoRecords, k \in MadeRecords :
          /\ n = net[d] /\ m = cl[d] /\ f = fast[d] /\ e = echo[d] /\ k = made[d]
          /\ ClientRight(n, m, f, e, k)
    BY PartsOf
  <2>2. PICK m2, n2 : m2 = cl'[d] /\ n2 = net'[d]
    OBVIOUS
  <2>3. \/ /\ m2 = [m EXCEPT !.pc = "closed", !.socket = FALSE] /\ m.pc = "idle"
           /\ n2 = IF m.socket THEN NoConn ELSE n
        \/ m2 = m /\ n2 = n
    BY <2>1, <2>2, <1>2, <1>3 DEF AllIdle, At
  <2>4. ClientRight(n2, m2, f, e, k)
    BY <2>1, <2>3, CollectedRight
  <2>5. QED BY <2>1, <2>2, <2>4, <1>3
<1>5. DOMAIN cl' = Clients /\ DOMAIN net' = Clients
  BY <1>3
<1>6. QED BY <1>1, <1>3, <1>4, <1>5, EachMoves

-----------------------------------------------------------------------------
(* A step of the system.                                                   *)

(* Every step keeps what is known of the clients.                          *)
LEMMA ClientsRight ==
  ASSUME ClientsInv, UsedRight, [Next]_vars PROVE ClientsInv'
<1>1. Workers \subseteq Clients
  BY ConfFacts DEF ClientsInv
<1>2. ASSUME NEW c \in Workers, ClientStep(c) PROVE ClientsInv'
  <2>1. CASE FastStep(c) /\ UNCHANGED <<echo, runVars>>
    <3>1. UNCHANGED <<conf, echo, made>>
      BY <2>1 DEF runVars
    <3>2. QED BY <1>1, <2>1, <3>1, FastStepRight
  <2>2. CASE (EchoStep(c) \/ Produce(c) \/ StdStep(c)) /\ UNCHANGED runVars
    <3>1. UNCHANGED <<conf, made>>
      BY <2>2 DEF runVars
    <3>2. QED BY <1>1, <2>2, <3>1, EchoStepRight, ProduceRight, StdStepRight
  <2>3. CASE UNCHANGED <<net, cl, fast, echo, runVars>>
    <3>1. UNCHANGED <<conf, net, cl, fast, echo, made>>
      BY <2>3 DEF runVars
    <3>2. QED BY <3>1, ClientsStutter
  <2>4. QED BY <1>2, <2>1, <2>2, <2>3 DEF ClientStep
<1>3. ASSUME NEW c \in Workers, Invoke(c), UNCHANGED runVars PROVE ClientsInv'
  <2>1. UNCHANGED <<conf, made>>
    BY <1>3 DEF runVars
  <2>2. QED BY <1>1, <1>3, <2>1, InvokeRight
<1>4. ASSUME NEW c \in Workers, NewClient(c) PROVE ClientsInv'
  <2>1. At(c, "new") /\ GoesTo(c, "building") /\ UNCHANGED <<conf, net, fast, echo, made>>
    BY <1>4 DEF NewClient, runVars
  <2>2. QED BY <1>1, <2>1, NewClientRight
<1>5. ASSUME NEW c \in Workers, IdleConnectionEnds(c) PROVE ClientsInv'
  <2>1. PICK x \in Ends : IdleEnds(c, x)
    BY <1>5 DEF IdleConnectionEnds
  <2>2. cl[c].pc \in {"idle", "write"} /\ UNCHANGED <<conf, cl, fast, echo, made>>
    BY <1>5 DEF IdleConnectionEnds, runVars
  <2>3. QED BY <1>1, <2>1, <2>2, IdleEndsRight
<1>6. ASSUME NEW r \in RunIDs, RunStep(r) PROVE ClientsInv'
  <2>1. CASE NotValidated(r) \/ WarmUpFails(r) \/ StartCalls(r)
    <3>1. UNCHANGED <<conf, net, cl, fast, echo, made>>
      BY <2>1 DEF NotValidated, WarmUpFails, StartCalls
    <3>2. QED BY <3>1, ClientsStutter
  <2>2. QED BY <1>6, <2>1, WarmUpRight, CollectRight DEF RunStep
<1>7. CASE UNCHANGED vars
  <2>1. UNCHANGED <<conf, net, cl, fast, echo, made>>
    BY <1>7 DEF vars
  <2>2. QED BY <2>1, ClientsStutter
<1>8. ASSUME NEW c \in Workers, Built(c) \/ NotBuilt(c) \/ Warmed(c) \/ Call(c) \/ Return(c) PROVE ClientsInv'
  BY <1>1, <1>8, BuiltRight, NotBuiltRight, WarmedRight, CallRight, ReturnRight
<1>9. QED BY <1>2, <1>3, <1>4, <1>5, <1>6, <1>7, <1>8 DEF Next

(* The options and the workers used stay; only a run that starts its calls *)
(* draws workers, of its own.                                              *)
LEMMA UsedStays ==
  ASSUME UsedRight, UNCHANGED <<conf, used>> PROVE UsedRight'
BY DEF UsedRight, RunIDs, Crew, Workers, RunOf

(* Every step does.                                                        *)
LEMMA UsedKept ==
  ASSUME UsedRight, [Next]_vars PROVE UsedRight'
<1>1. ASSUME NEW c \in Workers, ClientStep(c) PROVE UNCHANGED <<conf, used>>
  BY <1>1 DEF ClientStep, runVars
<1>2. ASSUME NEW c \in Workers,
             (Invoke(c) /\ UNCHANGED runVars) \/ NewClient(c) \/ Built(c) \/ NotBuilt(c) \/ Warmed(c) \/ Call(c)
               \/ Return(c) \/ IdleConnectionEnds(c)
      PROVE  UNCHANGED <<conf, used>>
  BY <1>2 DEF runVars, NewClient, Built, NotBuilt, Warmed, Call, Return, IdleConnectionEnds
<1>3. ASSUME NEW r \in RunIDs, RunStep(r), ~StartCalls(r) PROVE UNCHANGED <<conf, used>>
  BY <1>3 DEF RunStep, NotValidated, WarmUp, WarmUpFails, Collect
<1>4. ASSUME NEW r \in RunIDs, StartCalls(r) PROVE UsedRight'
  <2>1. PICK n \in Crew(r) : used' = [used EXCEPT ![r] = {c \in Crew(r) : c <= n}]
    BY <1>4 DEF StartCalls
  <2>2. \A q : RunIDs' = RunIDs /\ Crew(q)' = Crew(q)
    BY <1>4 DEF StartCalls, RunIDs, Crew, Workers, RunOf
  <2>3. QED BY <2>1, <2>2 DEF UsedRight
<1>5. CASE UNCHANGED vars
  BY <1>5, UsedStays DEF vars
<1>6. QED BY <1>1, <1>2, <1>3, <1>4, <1>5, UsedStays DEF Next

(* Every step keeps what is known of the resolutions.                      *)
LEMMA DnsRight ==
  ASSUME DnsInv, conf \in Confs, [Next]_vars PROVE DnsInv'
<1>1. Workers \subseteq Resolvers
  BY ConfFacts, RunsAssumption
<1>2. ASSUME NEW c \in Workers, ClientStep(c) PROVE DnsInv'
  <2>1. CASE Resolve(c)
    BY <1>1, <2>1, ResolveKeepsDns
  <2>2. CASE Connect(c)
    <3>1. Goes(c, "start") \/ UNCHANGED dnsVars
      BY <2>2 DEF Connect
    <3>2. QED BY <1>1, <3>1, GoesKeepsDns, StutterKeepsDns DEF Looks
  <2>3. CASE Resolved(c)
    <3>1. Goes(c, "none")
      BY <2>3 DEF Resolved
    <3>2. QED BY <1>1, <3>1, GoesKeepsDns DEF Looks
  <2>4. CASE FastStep(c) /\ ~Connect(c) /\ ~Resolved(c)
    <3>1. UNCHANGED dnsVars
      BY <2>4 DEF FastStep, StreamFetch, Dial, DialFails, WriteFails, Retries, Abandons, Write, Read,
         ReadsNothing,
                  ReadFails, ParseStatus, ParseHeaders, ParseRest, ExamineBody, KeepOrClose
    <3>2. QED BY <3>1, StutterKeepsDns
  <2>5. CASE EchoStep(c)
    <3>1. UNCHANGED dnsVars
      BY <2>5 DEF EchoStep, EchoFetch, EchoConnect, EchoWriteFails, Retries, Abandons, EchoWrite, EchoRead,
                  EchoReadFails, DatagramRead
    <3>2. QED BY <3>1, StutterKeepsDns
  <2>6. CASE Produce(c) \/ StdStep(c)
    <3>1. UNCHANGED dnsVars
      BY <2>6 DEF Produce, StdStep, StdFetch, StdDials, StdReuses, StdAnswered
    <3>2. QED BY <3>1, StutterKeepsDns
  <2>7. QED BY <1>2, <2>1, <2>2, <2>3, <2>4, <2>5, <2>6 DEF ClientStep
<1>3. ASSUME NEW c \in Workers, NewClient(c) PROVE DnsInv'
  <2>1. PICK to \in {"checks", "none", "start"} : to = FirstLookUp
    BY DEF FirstLookUp
  <2>2. Goes(c, to) /\ to \in Looks \ {"found", "adding"}
    BY <1>3, <2>1 DEF NewClient, Looks
  <2>3. QED BY <1>1, <2>2, GoesKeepsDns
<1>4. ASSUME NEW c \in Workers, Built(c) \/ NotBuilt(c) PROVE DnsInv'
  <2>1. Goes(c, "none")
    BY <1>4 DEF Built, NotBuilt
  <2>2. QED BY <1>1, <2>1, GoesKeepsDns DEF Looks
<1>5. ASSUME NEW c \in Workers, Invoke(c) \/ Warmed(c) \/ Call(c) \/ Return(c) \/ IdleConnectionEnds(c)
      PROVE  DnsInv'
  <2>1. UNCHANGED dnsVars
    BY <1>5 DEF Invoke, Warmed, Call, Return, IdleConnectionEnds
  <2>2. QED BY <2>1, StutterKeepsDns
<1>6. ASSUME NEW r \in RunIDs, RunStep(r) PROVE DnsInv'
  <2>1. UNCHANGED dnsVars
    BY <1>6 DEF RunStep, NotValidated, WarmUp, WarmUpFails, StartCalls, Collect
  <2>2. QED BY <2>1, StutterKeepsDns
<1>7. CASE UNCHANGED vars
  <2>1. UNCHANGED dnsVars
    BY <1>7 DEF vars
  <2>2. QED BY <2>1, StutterKeepsDns
<1>8. QED BY <1>2, <1>3, <1>4, <1>5, <1>6, <1>7 DEF Next

-----------------------------------------------------------------------------
(* Sums: the members of a set, counted.                                    *)

(* A sum over a finite set is a number.                                    *)
LEMMA TallyNat ==
  ASSUME NEW S, IsFiniteSet(S), NEW f \in [S -> Nat]
  PROVE  IsFiniteSet(Pieces(f)) /\ Tally(f) \in Nat
<1> DEFINE all == {{c} \X (1 .. f[c]) : c \in S}
<1>1. IsFiniteSet(all)
  <2> DEFINE own == [c \in S |-> {c} \X (1 .. f[c])]
  <2>1. own \in Surjection(S, all)
    BY DEF Surjection
  <2>2. QED BY <2>1, FS_Surjection
<1>2. ASSUME NEW T \in all PROVE IsFiniteSet(T)
  <2>1. PICK c \in S : T = {c} \X (1 .. f[c])
    OBVIOUS
  <2>2. f[c] \in Int /\ 1 \in Int
    OBVIOUS
  <2>3. IsFiniteSet(1 .. f[c]) /\ IsFiniteSet({c})
    BY <2>2, FS_Interval, FS_Singleton
  <2>4. QED BY <2>1, <2>3, FS_Product
<1>3. IsFiniteSet(UNION all)
  BY <1>1, <1>2, FS_UNION
<1>4. Pieces(f) = UNION all
  BY DEF Pieces
<1>5. QED BY <1>3, <1>4, FS_CardinalityType DEF Tally

(* The sum of nothing.                                                     *)
LEMMA TallyNone ==
  ASSUME NEW S, NEW f \in [S -> Nat], \A c \in S : f[c] = 0 PROVE Tally(f) = 0
<1>1. \A c \in S : 1 .. f[c] = {}
  OBVIOUS
<1>2. Pieces(f) = {}
  BY <1>1 DEF Pieces
<1>3. QED BY <1>2, FS_EmptySet DEF Tally

(* Where there is nothing to add, it makes no difference.                  *)
LEMMA TallyZeros ==
  ASSUME NEW S, NEW T \in SUBSET S, NEW f \in [S -> Nat], \A c \in S \ T : f[c] = 0,
         NEW g \in [T -> Nat], \A c \in T : g[c] = f[c]
  PROVE  Tally(g) = Tally(f)
<1>1. \A c \in S \ T : 1 .. f[c] = {}
  OBVIOUS
<1>2. Pieces(g) = Pieces(f)
  BY <1>1 DEF Pieces
<1>3. QED BY <1>2 DEF Tally

(* Less in each place is less in all.                                      *)
LEMMA TallyLess ==
  ASSUME NEW S, IsFiniteSet(S), NEW f \in [S -> Nat], NEW g \in [S -> Nat], \A c \in S : f[c] <= g[c]
  PROVE  Tally(f) <= Tally(g)
<1>1. \A c \in S : 1 .. f[c] \subseteq 1 .. g[c]
  OBVIOUS
<1>2. Pieces(f) \subseteq Pieces(g)
  BY <1>1 DEF Pieces
<1>3. QED BY <1>2, TallyNat, FS_Subset DEF Tally

(* The sum of two sums: the second one's members come after the first's.   *)
LEMMA TallyPlus ==
  ASSUME NEW S, IsFiniteSet(S), NEW f \in [S -> Nat], NEW g \in [S -> Nat], NEW h \in [S -> Nat],
         \A c \in S : h[c] = f[c] + g[c]
  PROVE  Tally(h) = Tally(f) + Tally(g)
<1> DEFINE after == Pieces(h) \ Pieces(f)
           place == [x \in Pieces(g) |-> <<x[1], f[x[1]] + x[2]>>]
<1>1. \A c, i : <<c, i>> \in Pieces(f) <=> c \in S /\ i \in 1 .. f[c]
  BY DEF Pieces
<1>2. \A c, i : <<c, i>> \in Pieces(g) <=> c \in S /\ i \in 1 .. g[c]
  BY DEF Pieces
<1>3. \A c, i : <<c, i>> \in Pieces(h) <=> c \in S /\ i \in 1 .. h[c]
  BY DEF Pieces
<1>4. \A x \in Pieces(g) : x = <<x[1], x[2]>> /\ x[1] \in S /\ x[2] \in 1 .. g[x[1]]
  BY DEF Pieces
<1>5. \A x \in Pieces(h) : x = <<x[1], x[2]>> /\ x[1] \in S /\ x[2] \in 1 .. h[x[1]]
  BY DEF Pieces
<1>6. \A x \in Pieces(f) : x = <<x[1], x[2]>> /\ x[1] \in S /\ x[2] \in 1 .. f[x[1]]
  BY DEF Pieces
<1>7. ASSUME NEW c \in S PROVE f[c] \in Nat /\ g[c] \in Nat /\ h[c] \in Nat
  OBVIOUS
<1>8. Pieces(f) \subseteq Pieces(h)
  <2> SUFFICES ASSUME NEW x \in Pieces(f) PROVE x \in Pieces(h)
    OBVIOUS
  <2>1. PICK c, i : x = <<c, i>> /\ c \in S /\ i \in 1 .. f[c]
    BY <1>6
  <2>2. i \in 1 .. h[c]
    BY <2>1, <1>7
  <2>3. QED BY <2>1, <2>2, <1>3
<1>9. ASSUME NEW x \in Pieces(g) PROVE place[x] \in after
  <2>1. PICK c, i : x = <<c, i>> /\ c \in S /\ i \in 1 .. g[c]
    BY <1>4
  <2>2. place[x] = <<c, f[c] + i>>
    BY <2>1
  <2>3. f[c] + i \in 1 .. h[c] /\ f[c] + i \notin 1 .. f[c]
    BY <2>1, <1>7
  <2>4. QED BY <2>1, <2>2, <2>3, <1>1, <1>3
<1>10. ASSUME NEW x \in Pieces(g), NEW y \in Pieces(g), place[x] = place[y] PROVE x = y
  <2>1. PICK c, i : x = <<c, i>> /\ c \in S /\ i \in 1 .. g[c]
    BY <1>4
  <2>2. PICK d, j : y = <<d, j>> /\ d \in S /\ j \in 1 .. g[d]
    BY <1>4
  <2>3. place[x] = <<c, f[c] + i>> /\ place[y] = <<d, f[d] + j>>
    BY <2>1, <2>2
  <2>4. c = d /\ f[c] + i = f[c] + j
    BY <2>3, <1>10
  <2>5. i = j
    BY <2>1, <2>2, <2>4, <1>7
  <2>6. QED BY <2>1, <2>2, <2>4, <2>5
<1>11. ASSUME NEW y \in after PROVE \E x \in Pieces(g) : place[x] = y
  <2>1. PICK c, i : y = <<c, i>> /\ c \in S /\ i \in 1 .. h[c]
    BY <1>5
  <2>2. i \notin 1 .. f[c]
    BY <2>1, <1>1
  <2>3. i - f[c] \in 1 .. g[c] /\ f[c] + (i - f[c]) = i
    BY <2>1, <2>2, <1>7
  <2>4. <<c, i - f[c]>> \in Pieces(g)
    BY <2>1, <2>3, <1>2
  <2>5. place[<<c, i - f[c]>>] = y
    BY <2>1, <2>3, <2>4
  <2>6. QED BY <2>4, <2>5
<1>12. place \in Bijection(Pieces(g), after)
  <2> HIDE DEF after
  <2>1. place \in [Pieces(g) -> after]
    BY <1>9
  <2> HIDE DEF place
  <2>2. QED BY <2>1, <1>10, <1>11 DEF Bijection, Injection, Surjection, IsInjective
<1>13. ExistsBijection(Pieces(g), after)
  BY <1>12 DEF ExistsBijection
<1>14. IsFiniteSet(Pieces(f)) /\ IsFiniteSet(Pieces(g)) /\ Tally(f) \in Nat /\ Tally(g) \in Nat
  BY TallyNat
<1>15. IsFiniteSet(after) /\ Cardinality(after) = Tally(g)
  BY <1>13, <1>14, FS_Bijection DEF Tally
<1>16. Cardinality(Pieces(f) \cup after)
         = Cardinality(Pieces(f)) + Cardinality(after) - Cardinality(Pieces(f) \cap after)
  BY <1>14, <1>15, FS_Union
<1>17. Pieces(f) \cup after = Pieces(h) /\ Pieces(f) \cap after = {}
  BY <1>8
<1>18. Cardinality(Pieces(f) \cap after) = 0
  BY <1>17, FS_EmptySet
<1>19. Tally(h) = Tally(f) + Tally(g) - 0
  <2> HIDE DEF after
  <2>1. Cardinality(Pieces(h)) = Cardinality(Pieces(f)) + Cardinality(after) - 0
    BY <1>16, <1>17, <1>18
  <2>2. QED BY <2>1, <1>15 DEF Tally
<1>20. QED BY <1>14, <1>19

-----------------------------------------------------------------------------
(* The runs.                                                               *)

(* Whose run it is.                                                        *)
LEMMA CrewFacts ==
  ASSUME conf \in Confs
  PROVE  /\ Workers \subseteq Clients /\ Workers \subseteq Nat
         /\ \A c \in Workers : RunOf(c) \in RunIDs /\ c \in Crew(RunOf(c))
         /\ \A r : Crew(r) \subseteq Workers /\ IsFiniteSet(Crew(r)) /\ \A c \in Crew(r) : RunOf(c) = r
<1>1. Workers \subseteq Clients /\ Workers \subseteq Nat
  BY ConfFacts, RunsAssumption
<1>2. \A r : Crew(r) \in SUBSET Clients
  BY <1>1 DEF Crew
<1>3. \A r : IsFiniteSet(Crew(r))
  BY <1>2, SocketsAssumption, FS_Subset
<1>4. QED BY <1>1, <1>3 DEF Crew, RunIDs

(* Who is in which run rests on the options.                               *)
LEMMA SameCrews ==
  ASSUME conf' = conf
  PROVE  /\ Workers' = Workers /\ RunIDs' = RunIDs /\ IsHTTP' = IsHTTP /\ IsGRPC' = IsGRPC /\ Dynamic' = Dynamic
         /\ \A c : RunOf(c)' = RunOf(c)
         /\ \A r : Crew(r)' = Crew(r)
BY DEF Workers, RunIDs, RunOf, Crew, IsHTTP, IsGRPC, Dynamic

(* What is known of a client in its run rests on the options, too.         *)
LEMMA SameInRun ==
  ASSUME NEW c, NEW p, NEW s, NEW m, NEW e, NEW k, NEW x, conf' = conf, InRun(c, p, s, m, e, k, x)
  PROVE  InRun(c, p, s, m, e, k, x)'
BY SameCrews DEF InRun, PhaseRight, CallsCounted, KafkaCounted, Twice, Flying, NotTaken

(* A sum is the same when what is added is.                                *)
LEMMA TotalsStay ==
  ASSUME NEW r, conf' = conf, used'[r] = used[r], total'[r] = total[r],
         \A c \in Collected(r) : echo'[c] = echo[c] /\ codes'[c] = codes[c], Totalled(r)
  PROVE  Totalled(r)'
<1>1. PICK s : s = Collected(r)
  OBVIOUS
<1>2. Collected(r)' = s
  BY <1>1, SameCrews DEF Collected
<1>3. PICK t : t = total[r]
  OBVIOUS
<1>4. /\ [c \in s |-> codes'[c].ok] = [c \in s |-> codes[c].ok]
      /\ [c \in s |-> codes'[c].bad] = [c \in s |-> codes[c].bad]
  BY <1>1
<1>5. /\ [c \in s |-> echo'[c].acked] = [c \in s |-> echo[c].acked]
      /\ [c \in s |-> echo'[c].requests] = [c \in s |-> echo[c].requests]
      /\ [c \in s |-> echo'[c].errors] = [c \in s |-> echo[c].errors]
  BY <1>1
<1>6. /\ t.ok = Tally([c \in s |-> codes[c].ok]) /\ t.bad = Tally([c \in s |-> codes[c].bad])
      /\ t.kafka = KafkaTotals(s)
  BY <1>1, <1>3 DEF Totalled
<1>7. KafkaTotals(s)' = KafkaTotals(s)
  BY <1>5 DEF KafkaTotals
<1>8. /\ t.ok = Tally([c \in s |-> codes'[c].ok]) /\ t.bad = Tally([c \in s |-> codes'[c].bad])
      /\ t.kafka = KafkaTotals(s)'
  BY <1>4, <1>6, <1>7
<1>9. QED BY <1>2, <1>3, <1>8 DEF Totalled

(* A step of one run keeps what is known of all when it does so for it.    *)
LEMMA OneRunMoves ==
  ASSUME conf \in Confs, UsedRight, RunsInv, conf' = conf, NEW r \in RunIDs,
         run' \in [RunIDs -> RunRecords], DOMAIN total' = RunIDs, DOMAIN codes' = Clients,
         \A q \in RunIDs \ {r} : run'[q] = run[q] /\ total'[q] = total[q] /\ used'[q] = used[q],
         \A d \in Workers : RunOf(d) # r =>
           cl'[d] = cl[d] /\ echo'[d] = echo[d] /\ made'[d] = made[d] /\ codes'[d] = codes[d],
         \A d \in Crew(r) : InRun(d, run'[r].phase, used'[r], cl'[d], echo'[d], made'[d], codes'[d]),
         run'[r].phase = "build" => InOrder(r)',
         run'[r].phase = "over" => Totalled(r)'
  PROVE  RunsInv'
<1>1. ASSUME NEW d \in Workers
      PROVE  InRun(d, Phase(d), used[RunOf(d)], cl[d], echo[d], made[d], codes[d])'
  <2>1. PICK q : q = RunOf(d) /\ q \in RunIDs /\ d \in Crew(q) /\ RunOf(d)' = q
    BY CrewFacts, SameCrews
  <2>2. PICK p, s, m, e, k, x :
          p = run'[q].phase /\ s = used'[q] /\ m = cl'[d] /\ e = echo'[d] /\ k = made'[d] /\ x = codes'[d]
    OBVIOUS
  <2>3. InRun(d, p, s, m, e, k, x)
    <3>1. CASE q = r
      BY <2>1, <2>2, <3>1
    <3>2. CASE q # r
      <4>1. InRun(d, run[q].phase, used[q], cl[d], echo[d], made[d], codes[d])
        BY <2>1 DEF RunsInv, Phase
      <4>2. /\ p = run[q].phase /\ s = used[q] /\ m = cl[d] /\ e = echo[d] /\ k = made[d] /\ x = codes[d]
        BY <2>1, <2>2, <3>2
      <4>3. QED BY <4>1, <4>2
    <3>3. QED BY <3>1, <3>2
  <2>4. InRun(d, p, s, m, e, k, x)'
    BY <2>3, SameInRun
  <2>5. QED BY <2>1, <2>2, <2>4 DEF Phase
<1>2. ASSUME NEW q \in RunIDs, q # r
      PROVE  (run'[q].phase = "build" => InOrder(q)') /\ (run'[q].phase = "over" => Totalled(q)')
  <2>1. \A c \in Crew(q) : cl'[c] = cl[c] /\ echo'[c] = echo[c] /\ codes'[c] = codes[c]
    BY <1>2, CrewFacts
  <2>2. run'[q] = run[q] /\ total'[q] = total[q] /\ used'[q] = used[q] /\ Crew(q)' = Crew(q)
    BY <1>2, SameCrews
  <2>3. InOrder(q) => InOrder(q)'
    BY <2>1, <2>2 DEF InOrder, At
  <2>4. ASSUME run[q].phase = "over" PROVE Totalled(q)'
    <3>1. Totalled(q)
      BY <2>4 DEF RunsInv
    <3>2. Collected(q) \subseteq Crew(q)
      <4>1. CASE ~(IsHTTP \/ IsGRPC)
        BY <4>1 DEF Collected
      <4>2. CASE IsHTTP \/ IsGRPC
        BY <4>2 DEF Collected, UsedRight
      <4>3. QED BY <4>1, <4>2
    <3>3. QED BY <2>1, <2>2, <3>1, <3>2, TotalsStay
  <2>5. QED BY <2>2, <2>3, <2>4 DEF RunsInv
<1>3. \A q \in RunIDs : (run'[q].phase = "build" => InOrder(q)') /\ (run'[q].phase = "over" => Totalled(q)')
  BY <1>2
<1>4. QED BY <1>1, <1>3, SameCrews DEF RunsInv

(* A run in which only one of its clients moves.                           *)
LEMMA OrderStays ==
  ASSUME conf \in Confs, conf' = conf, NEW r, NEW c \in Crew(r), InOrder(r),
         \A d \in Crew(r) \ {c} : cl'[d] = cl[d], ~At(c, "idle"),
         At(c, "new") => \A d \in Crew(r) : d < c => At(d, "idle")
  PROVE  InOrder(r)'
<1>1. Crew(r)' = Crew(r) /\ Crew(r) \subseteq Nat
  BY CrewFacts, SameCrews
<1>2. ASSUME NEW x \in Crew(r), NEW y \in Crew(r), x < y, cl'[y].pc # "new" PROVE cl'[x].pc = "idle"
  <2>1. CASE x = c
    <3>1. y # c
      BY <1>1, <1>2, <2>1
    <3>2. cl[y].pc # "new"
      BY <1>2, <3>1
    <3>3. At(c, "idle")
      BY <1>2, <2>1, <3>2 DEF InOrder
    <3>4. QED BY <3>3
  <2>2. CASE x # c
    <3>1. At(x, "idle")
      <4>1. CASE y = c /\ At(c, "new")
        BY <1>2, <4>1
      <4>2. CASE y = c /\ ~At(c, "new")
        BY <1>2, <4>2 DEF InOrder, At
      <4>3. CASE y # c
        BY <1>2, <4>3 DEF InOrder
      <4>4. QED BY <4>1, <4>2, <4>3
    <3>2. QED BY <2>2, <3>1 DEF At
  <2>3. QED BY <2>1, <2>2
<1>3. QED BY <1>1, <1>2 DEF InOrder, At

(* A client moves on in the phase its run is in.                           *)
LEMMA OneClientMoves ==
  ASSUME ClientsInv, UsedRight, RunsInv, NEW c \in Workers, UNCHANGED <<conf, run, used, total>>,
         DOMAIN codes' = Clients,
         \A d \in Workers \ {c} :
           cl'[d] = cl[d] /\ echo'[d] = echo[d] /\ made'[d] = made[d] /\ codes'[d] = codes[d],
         Phase(c) # "over", ~At(c, "idle") \/ Phase(c) # "build",
         At(c, "new") => \A d \in Crew(RunOf(c)) : d < c => At(d, "idle"),
         InRun(c, Phase(c), used[RunOf(c)], cl'[c], echo'[c], made'[c], codes'[c])
  PROVE  RunsInv'
<1>1. PICK r \in RunIDs : r = RunOf(c) /\ c \in Crew(r)
  BY CrewFacts DEF ClientsInv
<1>2. Phase(c) = run[r].phase /\ run'[r] = run[r] /\ used'[r] = used[r]
  BY <1>1 DEF Phase
<1>3. ASSUME NEW d \in Crew(r)
      PROVE  InRun(d, run'[r].phase, used'[r], cl'[d], echo'[d], made'[d], codes'[d])
  <2>1. CASE d = c
    BY <1>1, <1>2, <2>1
  <2>2. CASE d # c
    <3>1. d \in Workers /\ RunOf(d) = r
      BY CrewFacts DEF ClientsInv
    <3>2. InRun(d, run[r].phase, used[r], cl[d], echo[d], made[d], codes[d])
      BY <3>1 DEF RunsInv, Phase
    <3>3. QED BY <1>2, <2>2, <3>1, <3>2
  <2>3. QED BY <2>1, <2>2
<1>4. ASSUME run'[r].phase = "build" PROVE InOrder(r)'
  <2>1. InOrder(r) /\ ~At(c, "idle")
    BY <1>1, <1>2, <1>4 DEF RunsInv
  <2>2. \A d \in Crew(r) \ {c} : cl'[d] = cl[d]
    BY CrewFacts DEF ClientsInv
  <2>3. QED BY <1>1, <2>1, <2>2, OrderStays DEF ClientsInv
<1>5. run'[r].phase # "over"
  BY <1>2
<1>6. /\ run' \in [RunIDs -> RunRecords] /\ DOMAIN total' = RunIDs
      /\ \A q \in RunIDs \ {r} : run'[q] = run[q] /\ total'[q] = total[q] /\ used'[q] = used[q]
  BY DEF RunsInv
<1>7. \A d \in Workers : RunOf(d) # r =>
        cl'[d] = cl[d] /\ echo'[d] = echo[d] /\ made'[d] = made[d] /\ codes'[d] = codes[d]
  BY <1>1
<1>8. QED BY <1>3, <1>4, <1>5, <1>6, <1>7, OneRunMoves DEF ClientsInv

(* What is known of one client in its run.                                 *)
LEMMA RunParts ==
  ASSUME ClientsInv, RunsInv, NEW c \in Workers
  PROVE  \E n \in NetRecords, m \in ClientRecords, e \in EchoRecords, k \in MadeRecords, x \in [ok : Nat, bad : Nat] :
           /\ n = net[c] /\ m = cl[c] /\ e = echo[c] /\ k = made[c] /\ x = codes[c]
           /\ Placed(n, m) /\ InRun(c, Phase(c), used[RunOf(c)], m, e, k, x)
<1>1. c \in Clients
  BY ConfFacts DEF ClientsInv
<1>2. PICK n \in NetRecords, m \in ClientRecords, f \in FastRecords, e \in EchoRecords, k \in MadeRecords :
        /\ n = net[c] /\ m = cl[c] /\ f = fast[c] /\ e = echo[c] /\ k = made[c]
        /\ ClientRight(n, m, f, e, k)
  BY <1>1, PartsOf
<1>3. Placed(n, m)
  BY <1>2 DEF ClientRight
<1>4. PICK x : x = codes[c]
  OBVIOUS
<1>5. InRun(c, Phase(c), used[RunOf(c)], m, e, k, x)
  BY <1>2, <1>4 DEF RunsInv
<1>6. x \in [ok : Nat, bad : Nat]
  BY <1>5 DEF InRun, CallsCounted
<1>7. QED BY <1>2, <1>3, <1>4, <1>5, <1>6

(* A client in a call stays where its run has it.                          *)
LEMMA FliesInRun ==
  ASSUME NEW c, NEW p, NEW s, NEW m, NEW e, NEW k, NEW x, NEW m2, NEW e2,
         InRun(c, p, s, m, e, k, x), Flying(m), Flying(m2),
         Dynamic /\ m2.pc = "done" => m2.code \in {200, SocketError},
         conf.kind = "kafka" => KafkaCounted(m2, e2, k)
  PROVE  InRun(c, p, s, m2, e2, k, x) /\ p # "over"
<1>1. PhaseRight(c, p, s, m2) /\ p # "over"
  BY DEF InRun, PhaseRight, Flying
<1>2. CallsCounted(c, p, s, m2, k, x)
  BY DEF InRun, CallsCounted
<1>3. QED BY <1>1, <1>2 DEF InRun

(* FastClient's steps are within a call, and no other client's.            *)
LEMMA FastFlies ==
  ASSUME ClientsInv, NEW c \in Clients, FastStep(c)
  PROVE  /\ Flying(cl[c]) /\ Flying(cl'[c]) /\ conf.kind = "fast"
         /\ \A d \in Clients \ {c} : cl'[d] = cl[d]
<1>1. PICK n \in NetRecords, m \in ClientRecords, f \in FastRecords, e \in EchoRecords, k \in MadeRecords :
        /\ n = net[c] /\ m = cl[c] /\ f = fast[c] /\ e = echo[c] /\ k = made[c]
        /\ ClientRight(n, m, f, e, k)
  BY PartsOf
<1>2. Placed(n, m) /\ DOMAIN cl = Clients
  BY <1>1 DEF ClientRight, ClientsInv
<1>3. /\ m.pc \in {"called", "again", "connect", "dial", "write", "read"} => conf.kind = "fast"
      /\ m.pc \in {"called", "again", "connect", "resolve", "dial", "write", "read", "headers", "body", "end"}
  BY <1>1, <1>2 DEF FastStep, StreamFetch, Connect, Resolved, Dial, DialFails, WriteFails, Write, Read, ReadsNothing,
     ReadFails, ParseStatus, ParseHeaders, ParseRest, ExamineBody, KeepOrClose, At, Placed
<1>4. conf.kind = "fast" /\ Flying(m)
  BY <1>2, <1>3 DEF Placed, Flying
<1>5. c \in DOMAIN cl /\ "pc" \in DOMAIN cl[c]
  BY <1>1, <1>2 DEF ClientRecords
<1>6. \A d \in Clients \ {c} : cl'[d] = cl[d]
  <2>1. CASE StreamFetch(c)
    BY <1>2, <1>5, <2>1 DEF StreamFetch
  <2>2. CASE Connect(c)
    BY <1>2, <1>5, <2>2 DEF Connect
  <2>3. CASE Resolved(c)
    BY <1>2, <1>5, <2>3 DEF Resolved
  <2>4. CASE Dial(c)
    BY <1>2, <1>5, <2>4 DEF Dial
  <2>5. CASE DialFails(c)
    BY <1>2, <1>5, <2>5 DEF DialFails
  <2>6. CASE WriteFails(c)
    BY <1>2, <1>5, <2>6 DEF WriteFails, Fails, Retries, Abandons
  <2>7. CASE Write(c)
    <3>1. \E y, z : cl' = [cl EXCEPT ![c].pc = "read", ![c].code = 200, ![c].served = y, ![c].whole = z,
                                    ![c].tries = @ + 1]
      BY <2>7 DEF Write
    <3>2. QED BY <1>2, <1>5, <3>1
  <2>8. CASE Read(c)
    BY <1>2, <1>5, <2>8 DEF Read, GoesTo
  <2>9. CASE ReadsNothing(c)
    BY <1>2, <1>5, <2>9 DEF ReadsNothing, GoesTo
  <2>10. CASE ReadFails(c)
    BY <1>2, <1>5, <2>10 DEF ReadFails, GoesTo, Retries
  <2>11. CASE ParseStatus(c)
    BY <1>2, <1>5, <2>11 DEF ParseStatus
  <2>12. CASE ParseHeaders(c)
    <3>1. \E y, z : cl' = [cl EXCEPT ![c].code = y, ![c].pc = z] /\ z \in {"body", "read", "end"}
      BY <2>12 DEF ParseHeaders
    <3>2. QED BY <1>2, <1>5, <3>1
  <2>13. CASE ExamineBody(c)
    <3>1. GoesTo(c, "read") \/ GoesTo(c, "end") \/ GoesTo(c, "body")
      BY <2>13 DEF ExamineBody
    <3>2. QED BY <1>2, <1>5, <3>1 DEF GoesTo
  <2>14. CASE KeepOrClose(c)
    BY <1>2, <1>5, <2>14 DEF KeepOrClose
  <2>15. CASE ParseRest(c)
    <3>1. \E y, z : cl' = [cl EXCEPT ![c].code = y, ![c].pc = z] /\ z \in {"body", "read", "end"}
      BY <2>15 DEF ParseRest
    <3>2. QED BY <1>2, <1>5, <3>1
  <2>16. QED
    BY <2>1, <2>2, <2>3, <2>4, <2>5, <2>6, <2>7, <2>8, <2>9, <2>10, <2>11, <2>12, <2>13, <2>14, <2>15 DEF FastStep
<1>7. cl'[c].pc \in {"again", "write", "connect", "resolve", "dial", "read", "headers", "body", "end", "done"}
  <2>1. CASE StreamFetch(c)
    BY <1>2, <1>5, <2>1 DEF StreamFetch
  <2>2. CASE Connect(c)
    BY <1>2, <1>5, <2>2 DEF Connect
  <2>3. CASE Resolved(c)
    BY <1>2, <1>5, <2>3 DEF Resolved
  <2>4. CASE Dial(c)
    BY <1>2, <1>5, <2>4 DEF Dial
  <2>5. CASE DialFails(c)
    BY <1>2, <1>5, <2>5 DEF DialFails
  <2>6. CASE WriteFails(c)
    BY <1>2, <1>5, <2>6 DEF WriteFails, Fails, Retries, Abandons
  <2>7. CASE Write(c)
    <3>1. \E y, z : cl' = [cl EXCEPT ![c].pc = "read", ![c].code = 200, ![c].served = y, ![c].whole = z,
                                    ![c].tries = @ + 1]
      BY <2>7 DEF Write
    <3>2. QED BY <1>2, <1>5, <3>1
  <2>8. CASE Read(c)
    BY <1>2, <1>5, <2>8 DEF Read, GoesTo
  <2>9. CASE ReadsNothing(c)
    BY <1>2, <1>5, <2>9 DEF ReadsNothing, GoesTo
  <2>10. CASE ReadFails(c)
    BY <1>2, <1>5, <2>10 DEF ReadFails, GoesTo, Retries
  <2>11. CASE ParseStatus(c)
    BY <1>2, <1>5, <2>11 DEF ParseStatus
  <2>12. CASE ParseHeaders(c)
    <3>1. \E y, z : cl' = [cl EXCEPT ![c].code = y, ![c].pc = z] /\ z \in {"body", "read", "end"}
      BY <2>12 DEF ParseHeaders
    <3>2. QED BY <1>2, <1>5, <3>1
  <2>13. CASE ExamineBody(c)
    <3>1. GoesTo(c, "read") \/ GoesTo(c, "end") \/ GoesTo(c, "body")
      BY <2>13 DEF ExamineBody
    <3>2. QED BY <1>2, <1>5, <3>1 DEF GoesTo
  <2>14. CASE KeepOrClose(c)
    BY <1>2, <1>5, <2>14 DEF KeepOrClose
  <2>15. CASE ParseRest(c)
    <3>1. \E y, z : cl' = [cl EXCEPT ![c].code = y, ![c].pc = z] /\ z \in {"body", "read", "end"}
      BY <2>15 DEF ParseRest
    <3>2. QED BY <1>2, <1>5, <3>1
  <2>16. QED
    BY <2>1, <2>2, <2>3, <2>4, <2>5, <2>6, <2>7, <2>8, <2>9, <2>10, <2>11, <2>12, <2>13, <2>14, <2>15 DEF FastStep
<1>8. QED BY <1>1, <1>4, <1>6, <1>7 DEF Flying

(* So are those of the clients of tcp and udp.                             *)
LEMMA EchoFlies ==
  ASSUME ClientsInv, NEW c \in Clients, EchoStep(c)
  PROVE  /\ Flying(cl[c]) /\ Flying(cl'[c]) /\ conf.kind \in {"tcp", "udp"}
         /\ \A d \in Clients \ {c} : cl'[d] = cl[d] /\ echo'[d] = echo[d]
<1>1. PICK n \in NetRecords, m \in ClientRecords, f \in FastRecords, e \in EchoRecords, k \in MadeRecords :
        /\ n = net[c] /\ m = cl[c] /\ f = fast[c] /\ e = echo[c] /\ k = made[c]
        /\ ClientRight(n, m, f, e, k)
  BY PartsOf
<1>2. DOMAIN cl = Clients /\ DOMAIN echo = Clients
  BY DEF ClientsInv
<1>3. conf.kind \in {"tcp", "udp"} /\ Flying(m)
  BY <1>1 DEF EchoStep, EchoFetch, EchoConnect, EchoWriteFails, EchoWrite, EchoRead, EchoReadFails, DatagramRead, At,
     IsEcho, Flying
<1>4. \A d \in Clients \ {c} : cl'[d] = cl[d] /\ echo'[d] = echo[d]
  BY <1>2 DEF EchoStep, EchoFetch, EchoConnect, EchoWriteFails, EchoWrite, EchoRead, EchoReadFails, DatagramRead,
     GoesTo, Fails, Retries, Abandons
<1>5. cl'[c].pc \in {"again", "write", "connect", "read", "done"}
  <2>1. CASE EchoFetch(c) \/ EchoConnect(c) \/ EchoReadFails(c) \/ EchoWrite(c)
    BY <1>1, <1>2, <2>1 DEF EchoFetch, EchoConnect, EchoReadFails, EchoWrite, GoesTo, ClientRecords
  <2>2. CASE EchoWriteFails(c)
    BY <1>1, <1>2, <2>2 DEF EchoWriteFails, Fails, Retries, Abandons, ClientRecords
  <2>3. CASE EchoRead(c) \/ DatagramRead(c)
    <3>1. At(c, "read")
      BY <2>3 DEF EchoRead, DatagramRead
    <3>2. \/ cl' = cl
          \/ \E y, z : cl' = [cl EXCEPT ![c].pc = "done", ![c].socket = y, ![c].code = z]
      <4>1. CASE EchoRead(c)
        <5>1. CASE MessageSize - Len(echo[c].got) = 0 /\ UNCHANGED <<net, echo, cl>>
          BY <5>1
        <5>2. ASSUME NEW taken \in 1 .. MessageSize - Len(echo[c].got), NEW got,
                     IF Len(got) < Len(Request(echo[c])) THEN UNCHANGED cl
                     ELSE cl' = [cl EXCEPT ![c].pc = "done", ![c].socket = (got = Request(echo[c])),
                                           ![c].code = IF got = Request(echo[c]) THEN 200 ELSE SocketError]
              PROVE  \/ cl' = cl
                     \/ \E y, z : cl' = [cl EXCEPT ![c].pc = "done", ![c].socket = y, ![c].code = z]
          <6>1. PICK less : less = (Len(got) < Len(Request(echo[c])))
            OBVIOUS
          <6>2. CASE less
            BY <5>2, <6>1, <6>2
          <6>3. CASE ~less
            BY <5>2, <6>1, <6>3
          <6>4. QED BY <6>2, <6>3
        <5>3. QED BY <4>1, <5>1, <5>2 DEF EchoRead
      <4>2. CASE DatagramRead(c)
        BY <4>2 DEF DatagramRead
      <4>3. QED BY <2>3, <4>1, <4>2
    <3>3. c \in DOMAIN cl /\ "pc" \in DOMAIN cl[c]
      BY <1>1, <1>2 DEF ClientRecords
    <3>4. CASE cl' = cl
      BY <3>1, <3>4 DEF At
    <3>5. CASE \E y, z : cl' = [cl EXCEPT ![c].pc = "done", ![c].socket = y, ![c].code = z]
      BY <3>3, <3>5
    <3>6. QED BY <3>2, <3>4, <3>5
  <2>4. QED BY <2>1, <2>2, <2>3 DEF EchoStep
<1>6. QED BY <1>1, <1>3, <1>4, <1>5 DEF Flying

(* So are those of the standard client and of its transport.               *)
LEMMA StdFlies ==
  ASSUME ClientsInv, NEW c \in Clients, StdStep(c)
  PROVE  /\ Flying(cl[c]) /\ Flying(cl'[c]) /\ conf.kind = "std" /\ UNCHANGED echo
         /\ \A d \in Clients \ {c} : cl'[d] = cl[d]
<1>1. PICK n \in NetRecords, m \in ClientRecords, f \in FastRecords, e \in EchoRecords, k \in MadeRecords :
        /\ n = net[c] /\ m = cl[c] /\ f = fast[c] /\ e = echo[c] /\ k = made[c]
        /\ ClientRight(n, m, f, e, k)
  BY PartsOf
<1>2. Placed(n, m) /\ DOMAIN cl = Clients
  BY <1>1 DEF ClientRight, ClientsInv
<1>3. conf.kind = "std" /\ Flying(m) /\ UNCHANGED echo
  BY <1>1, <1>2 DEF StdStep, StdFetch, StdDials, StdReuses, StdAnswered, At, Placed, Flying
<1>4. \A d \in Clients \ {c} : cl'[d] = cl[d]
  BY <1>2 DEF StdStep, StdFetch, StdDials, StdReuses, StdAnswered, GoesTo
<1>5. cl'[c].pc \in {"do", "sent", "done"}
  <2>1. c \in DOMAIN cl /\ "pc" \in DOMAIN cl[c]
    BY <1>1, <1>2 DEF ClientRecords
  <2>2. CASE StdFetch(c) \/ StdReuses(c)
    BY <2>1, <2>2 DEF StdFetch, StdReuses, GoesTo
  <2>3. CASE StdDials(c)
    BY <2>1, <2>3 DEF StdDials
  <2>4. CASE StdAnswered(c)
    <3>1. CASE cl' = [cl EXCEPT ![c].pc = "done", ![c].socket = FALSE]
      BY <2>1, <3>1
    <3>2. CASE \E a \in Answers[conf.server] :
                 cl' = [cl EXCEPT ![c].pc = "done", ![c].socket = conf.keepAlive,
                                  ![c].code = a.code, ![c].served = a.code, ![c].whole = TRUE]
      BY <2>1, <3>2
    <3>3. CASE \E a \in Answers[conf.server] :
                 cl' = [cl EXCEPT ![c].pc = "done", ![c].socket = FALSE,
                                  ![c].code = IF CodeIsOK(a.code) THEN 204 ELSE a.code,
                                  ![c].served = a.code, ![c].whole = FALSE]
      BY <2>1, <3>3
    <3>4. QED BY <2>4, <3>1, <3>2, <3>3 DEF StdAnswered
  <2>5. QED BY <2>2, <2>3, <2>4 DEF StdStep
<1>6. QED BY <1>1, <1>3, <1>4, <1>5 DEF Flying

(* A message is taken, or not.                                             *)
LEMMA ProduceInRun ==
  ASSUME ClientsInv, UsedRight, RunsInv, NEW c \in Workers, Produce(c), UNCHANGED runVars PROVE RunsInv'
<1>1. PICK n \in NetRecords, m \in ClientRecords, e \in EchoRecords, k \in MadeRecords, x \in [ok : Nat, bad : Nat] :
        /\ n = net[c] /\ m = cl[c] /\ e = echo[c] /\ k = made[c] /\ x = codes[c]
        /\ Placed(n, m) /\ InRun(c, Phase(c), used[RunOf(c)], m, e, k, x)
  BY RunParts
<1>2. /\ UNCHANGED <<conf, run, used, total, made, codes>> /\ DOMAIN cl = Clients /\ DOMAIN echo = Clients
      /\ DOMAIN codes' = Clients /\ c \in Clients /\ conf.kind = "kafka" /\ m.pc = "called"
  BY <1>1, ConfFacts DEF runVars, ClientsInv, RunsInv, Produce, At
<1>3. PICK m2, e2 : m2 = cl'[c] /\ e2 = echo'[c]
  OBVIOUS
<1>4. \A d \in Workers \ {c} : cl'[d] = cl[d] /\ echo'[d] = echo[d]
  BY <1>2, ConfFacts DEF Produce, ClientsInv
<1>5. PICK j : j = IF conf.collect THEN 1 ELSE 0
  OBVIOUS
<1>6. PICK acked \in Nat, requests \in Nat, errors \in Nat : acked = e.acked /\ requests = e.requests /\ errors = e.errors
  BY DEF EchoRecords
<1>7. \/ /\ m2 = [m EXCEPT !.pc = "done", !.code = 200]
         /\ e2 = [[e EXCEPT !.messages = @ + 1] EXCEPT !.acked = @ + 1, !.requests = @ + j]
      \/ /\ m2 = [m EXCEPT !.pc = "done", !.code = SocketError]
         /\ e2 = [[e EXCEPT !.messages = @ + 1] EXCEPT !.errors = @ + j]
  <2>1. \/ /\ cl' = [cl EXCEPT ![c].pc = "done", ![c].code = 200]
           /\ echo' = [echo EXCEPT ![c] = [[echo[c] EXCEPT !.messages = @ + 1] EXCEPT !.acked = @ + 1,
                                                                                    !.requests = @ + j]]
        \/ /\ cl' = [cl EXCEPT ![c].pc = "done", ![c].code = SocketError]
           /\ echo' = [echo EXCEPT ![c] = [[echo[c] EXCEPT !.messages = @ + 1] EXCEPT !.errors = @ + j]]
    BY <1>5 DEF Produce
  <2>2. CASE /\ cl' = [cl EXCEPT ![c].pc = "done", ![c].code = 200]
             /\ echo' = [echo EXCEPT ![c] = [[echo[c] EXCEPT !.messages = @ + 1] EXCEPT !.acked = @ + 1,
                                                                                      !.requests = @ + j]]
    BY <1>1, <1>2, <1>3, <2>2
  <2>3. CASE /\ cl' = [cl EXCEPT ![c].pc = "done", ![c].code = SocketError]
             /\ echo' = [echo EXCEPT ![c] = [[echo[c] EXCEPT !.messages = @ + 1] EXCEPT !.errors = @ + j]]
    BY <1>1, <1>2, <1>3, <2>3
  <2>4. QED BY <2>1, <2>2, <2>3
<1>8. m2.pc = "done"
  BY <1>7 DEF ClientRecords
<1>9. \/ m2.code = 200 /\ e2.acked = acked + 1 /\ e2.requests = requests + j /\ e2.errors = errors
      \/ m2.code = SocketError /\ e2.acked = acked /\ e2.requests = requests /\ e2.errors = errors + j
  <2>1. CASE /\ m2 = [m EXCEPT !.pc = "done", !.code = 200]
             /\ e2 = [[e EXCEPT !.messages = @ + 1] EXCEPT !.acked = @ + 1, !.requests = @ + j]
    BY <1>6, <2>1 DEF ClientRecords, EchoRecords
  <2>2. CASE /\ m2 = [m EXCEPT !.pc = "done", !.code = SocketError]
             /\ e2 = [[e EXCEPT !.messages = @ + 1] EXCEPT !.errors = @ + j]
    BY <1>6, <2>2 DEF ClientRecords, EchoRecords
  <2>3. QED BY <1>7, <2>1, <2>2
<1>10. KafkaCounted(m2, e2, k)
  <2>1. PICK warm \in Nat, calls \in Nat, failed \in Nat : warm = k.warm /\ calls = k.calls /\ failed = k.failed
    BY DEF MadeRecords
  <2>2. KafkaCounted(m, e, k)
    BY <1>1, <1>2 DEF InRun
  <2>3. /\ acked + failed + 1 = warm + calls
        /\ conf.collect => requests = acked /\ errors = failed + 0
    BY <1>2, <1>6, <2>1, <2>2 DEF KafkaCounted, NotTaken
  <2>4. CASE m2.code = 200
    <3>1. ~NotTaken(m2)
      BY <2>4, ErrorIsNotOK DEF NotTaken
    <3>2. e2.acked = acked + 1 /\ e2.requests = requests + j /\ e2.errors = errors
      BY <1>9, <2>4 DEF SocketError
    <3>3. acked + 1 + failed + 0 = warm + calls /\ (conf.collect => requests + j = acked + 1 /\ errors = failed + 0)
      BY <1>5, <2>3
    <3>4. QED BY <1>8, <2>1, <3>1, <3>2, <3>3 DEF KafkaCounted
  <2>5. CASE m2.code = SocketError
    <3>1. NotTaken(m2)
      BY <2>5, <1>8, ErrorIsNotOK DEF NotTaken
    <3>2. e2.acked = acked /\ e2.requests = requests /\ e2.errors = errors + j
      BY <1>9, <2>5 DEF SocketError
    <3>3. conf.collect => requests = acked /\ errors + j = failed + 1
      BY <1>5, <2>3
    <3>4. QED BY <1>8, <2>1, <2>3, <3>1, <3>2, <3>3 DEF KafkaCounted
  <2>6. QED BY <1>9, <2>4, <2>5
<1>11. InRun(c, Phase(c), used[RunOf(c)], m2, e2, k, x) /\ Phase(c) # "over"
  <2>1. Flying(m) /\ Flying(m2) /\ ~Dynamic
    BY <1>2, <1>8 DEF Flying, Dynamic, IsGRPC
  <2>2. QED BY <1>1, <1>10, <2>1, FliesInRun
<1>12. ~At(c, "idle") /\ ~At(c, "new")
  BY <1>1, <1>2 DEF At
<1>13. made'[c] = k /\ codes'[c] = x
  BY <1>1, <1>2
<1>14. QED BY <1>2, <1>3, <1>4, <1>11, <1>12, <1>13, OneClientMoves

(* A gRPC call is answered, with an error or not.                          *)
LEMMA InvokeInRun ==
  ASSUME ClientsInv, UsedRight, RunsInv, NEW c \in Workers, Invoke(c), UNCHANGED runVars PROVE RunsInv'
<1>1. PICK n \in NetRecords, m \in ClientRecords, e \in EchoRecords, k \in MadeRecords, x \in [ok : Nat, bad : Nat] :
        /\ n = net[c] /\ m = cl[c] /\ e = echo[c] /\ k = made[c] /\ x = codes[c]
        /\ Placed(n, m) /\ InRun(c, Phase(c), used[RunOf(c)], m, e, k, x)
  BY RunParts
<1>2. /\ UNCHANGED <<conf, run, used, total, made, codes, echo>> /\ DOMAIN cl = Clients
      /\ DOMAIN codes' = Clients /\ c \in Clients /\ conf.kind = "grpc" /\ m.pc = "called"
  BY <1>1, ConfFacts DEF runVars, ClientsInv, RunsInv, Invoke, At
<1>3. PICK code :
        /\ code \in {200, SocketError} \cup (IF conf.service = "health" THEN {NotServing} ELSE {})
        /\ cl' = [cl EXCEPT ![c].pc = "done", ![c].code = code]
  BY DEF Invoke
<1>4. PICK m2 : m2 = cl'[c]
  OBVIOUS
<1>5. m2.pc = "done" /\ m2.code = code
  BY <1>1, <1>2, <1>3, <1>4 DEF ClientRecords
<1>6. \A d \in Workers \ {c} : cl'[d] = cl[d]
  BY <1>2, <1>3, ConfFacts DEF ClientsInv
<1>7. Dynamic => code \in {200, SocketError}
  BY <1>3 DEF Dynamic
<1>8. InRun(c, Phase(c), used[RunOf(c)], m2, e, k, x) /\ Phase(c) # "over"
  <2>1. Flying(m) /\ Flying(m2) /\ conf.kind # "kafka"
    BY <1>2, <1>5 DEF Flying
  <2>2. QED BY <1>1, <1>5, <1>7, <2>1, FliesInRun
<1>9. ~At(c, "idle") /\ ~At(c, "new")
  BY <1>1, <1>2 DEF At
<1>10. echo'[c] = e /\ made'[c] = k /\ codes'[c] = x
  BY <1>1, <1>2
<1>11. QED BY <1>2, <1>4, <1>6, <1>8, <1>9, <1>10, OneClientMoves

(* Whoever moves within a call changes nothing of what was counted.        *)
LEMMA FlyingInRun ==
  ASSUME ClientsInv, UsedRight, RunsInv, NEW c \in Workers, UNCHANGED runVars,
         Flying(cl[c]), Flying(cl'[c]), conf.kind \notin {"kafka", "grpc"},
         \A d \in Clients \ {c} : cl'[d] = cl[d] /\ echo'[d] = echo[d]
  PROVE  RunsInv'
<1>1. PICK n \in NetRecords, m \in ClientRecords, e \in EchoRecords, k \in MadeRecords, x \in [ok : Nat, bad : Nat] :
        /\ n = net[c] /\ m = cl[c] /\ e = echo[c] /\ k = made[c] /\ x = codes[c]
        /\ Placed(n, m) /\ InRun(c, Phase(c), used[RunOf(c)], m, e, k, x)
  BY RunParts
<1>2. /\ UNCHANGED <<conf, run, used, total, made, codes>>
      /\ DOMAIN codes' = Clients /\ Workers \subseteq Clients /\ ~Dynamic
  BY ConfFacts DEF runVars, ClientsInv, RunsInv, Dynamic, IsGRPC
<1>3. PICK m2, e2 : m2 = cl'[c] /\ e2 = echo'[c]
  OBVIOUS
<1>4. InRun(c, Phase(c), used[RunOf(c)], m2, e2, k, x) /\ Phase(c) # "over"
  BY <1>1, <1>2, <1>3, FliesInRun
<1>5. ~At(c, "idle") /\ ~At(c, "new")
  BY DEF At, Flying
<1>6. made'[c] = k /\ codes'[c] = x
  BY <1>1, <1>2
<1>7. QED BY <1>2, <1>3, <1>4, <1>5, <1>6, OneClientMoves

(* What the runs are known by is a part of the state.                      *)
LEMMA RunsStutter ==
  ASSUME UsedRight, RunsInv, UNCHANGED <<cl, echo, runVars>> PROVE RunsInv'
<1>1. UNCHANGED <<conf, run, used, made, codes, total, cl, echo>>
  BY DEF runVars
<1>2. ASSUME NEW c \in Workers PROVE InRun(c, Phase(c), used[RunOf(c)], cl[c], echo[c], made[c], codes[c])'
  <2>1. PICK p, s, m, e, k, x :
          p = Phase(c) /\ s = used[RunOf(c)] /\ m = cl[c] /\ e = echo[c] /\ k = made[c] /\ x = codes[c]
    OBVIOUS
  <2>2. InRun(c, p, s, m, e, k, x)'
    BY <1>1, <2>1, SameInRun DEF RunsInv
  <2>3. QED BY <1>1, <2>1, <2>2, SameCrews DEF Phase
<1>3. ASSUME NEW r \in RunIDs PROVE (InOrder(r) => InOrder(r)') /\ (Totalled(r) => Totalled(r)')
  <2>1. InOrder(r) => InOrder(r)'
    BY <1>1, SameCrews DEF InOrder, At
  <2>2. QED BY <1>1, <2>1, TotalsStay
<1>4. QED BY <1>1, <1>2, <1>3, SameCrews DEF RunsInv

(* Every step of a client within a call.                                   *)
LEMMA ClientStepInRun ==
  ASSUME ClientsInv, UsedRight, RunsInv, NEW c \in Workers, ClientStep(c) PROVE RunsInv'
<1>1. c \in Clients
  BY ConfFacts DEF ClientsInv
<1>2. CASE FastStep(c) /\ UNCHANGED <<echo, runVars>>
  <2>1. /\ Flying(cl[c]) /\ Flying(cl'[c]) /\ conf.kind \notin {"kafka", "grpc"}
        /\ \A d \in Clients \ {c} : cl'[d] = cl[d] /\ echo'[d] = echo[d]
    BY <1>1, <1>2, FastFlies
  <2>2. QED BY <1>2, <2>1, FlyingInRun
<1>3. CASE EchoStep(c) /\ UNCHANGED runVars
  <2>1. /\ Flying(cl[c]) /\ Flying(cl'[c]) /\ conf.kind \notin {"kafka", "grpc"}
        /\ \A d \in Clients \ {c} : cl'[d] = cl[d] /\ echo'[d] = echo[d]
    BY <1>1, <1>3, EchoFlies
  <2>2. QED BY <1>3, <2>1, FlyingInRun
<1>4. CASE StdStep(c) /\ UNCHANGED runVars
  <2>1. /\ Flying(cl[c]) /\ Flying(cl'[c]) /\ conf.kind \notin {"kafka", "grpc"}
        /\ \A d \in Clients \ {c} : cl'[d] = cl[d] /\ echo'[d] = echo[d]
    BY <1>1, <1>4, StdFlies
  <2>2. QED BY <1>4, <2>1, FlyingInRun
<1>5. QED BY <1>2, <1>3, <1>4, ProduceInRun, RunsStutter DEF ClientStep

(* A client is begun: the ones before it are at rest.                      *)
LEMMA NewClientInRun ==
  ASSUME ClientsInv, UsedRight, RunsInv, NEW c \in Workers, NewClient(c) PROVE RunsInv'
<1>1. PICK n \in NetRecords, m \in ClientRecords, e \in EchoRecords, k \in MadeRecords, x \in [ok : Nat, bad : Nat] :
        /\ n = net[c] /\ m = cl[c] /\ e = echo[c] /\ k = made[c] /\ x = codes[c]
        /\ Placed(n, m) /\ InRun(c, Phase(c), used[RunOf(c)], m, e, k, x)
  BY RunParts
<1>2. /\ UNCHANGED <<conf, run, used, total, made, codes, echo>> /\ DOMAIN cl = Clients
      /\ DOMAIN codes' = Clients /\ Workers \subseteq Clients /\ m.pc = "new" /\ Phase(c) = "build"
      /\ cl' = [cl EXCEPT ![c].pc = "building"]
  BY <1>1, ConfFacts DEF runVars, ClientsInv, RunsInv, NewClient, At, GoesTo
<1>3. PICK m2 : m2 = cl'[c]
  OBVIOUS
<1>4. m2.pc = "building"
  BY <1>1, <1>2, <1>3 DEF ClientRecords
<1>5. \A d \in Workers \ {c} : cl'[d] = cl[d]
  BY <1>2
<1>6. InRun(c, Phase(c), used[RunOf(c)], m2, e, k, x)
  <2>1. ~Flying(m) /\ ~Flying(m2) /\ ~NotTaken(m) /\ ~NotTaken(m2)
    BY <1>2, <1>4 DEF Flying, NotTaken
  <2>2. PhaseRight(c, Phase(c), used[RunOf(c)], m2)
    BY <1>1, <1>2, <1>4 DEF InRun, PhaseRight
  <2>3. CallsCounted(c, Phase(c), used[RunOf(c)], m2, k, x)
    BY <1>1, <1>2, <1>4, <2>1 DEF InRun, CallsCounted
  <2>4. KafkaCounted(m, e, k) => KafkaCounted(m2, e, k)
    BY <1>2, <1>4, <2>1 DEF KafkaCounted
  <2>5. QED BY <1>1, <2>2, <2>3, <2>4 DEF InRun
<1>7. ~At(c, "idle") /\ \A d \in Crew(RunOf(c)) : d < c => At(d, "idle")
  BY <1>1, <1>2 DEF At, NewClient
<1>8. echo'[c] = e /\ made'[c] = k /\ codes'[c] = x
  BY <1>1, <1>2
<1>9. QED BY <1>2, <1>3, <1>5, <1>6, <1>7, <1>8, OneClientMoves

(* A client is there, and may be called at once.                           *)
LEMMA BuiltInRun ==
  ASSUME ClientsInv, UsedRight, RunsInv, NEW c \in Workers, Built(c) PROVE RunsInv'
<1>1. PICK n \in NetRecords, m \in ClientRecords, e \in EchoRecords, k \in MadeRecords, x \in [ok : Nat, bad : Nat] :
        /\ n = net[c] /\ m = cl[c] /\ e = echo[c] /\ k = made[c] /\ x = codes[c]
        /\ Placed(n, m) /\ InRun(c, Phase(c), used[RunOf(c)], m, e, k, x)
  BY RunParts
<1>2. /\ UNCHANGED <<conf, run, used, total, codes, echo>> /\ DOMAIN cl = Clients /\ DOMAIN made = Clients
      /\ DOMAIN codes' = Clients /\ Workers \subseteq Clients /\ m.pc = "building"
  BY <1>1, ConfFacts DEF ClientsInv, RunsInv, Built, At
<1>3. PICK calls \in BOOLEAN :
        /\ cl' = [cl EXCEPT ![c].pc = IF calls THEN "called" ELSE "idle", ![c].lookups = @ + 1]
        /\ made' = [made EXCEPT ![c].warm = IF calls THEN 1 ELSE 0]
        /\ calls => ~Dynamic
  <2>1. /\ cl' = [cl EXCEPT ![c].pc = IF WarmsUp(c) THEN "called" ELSE "idle", ![c].lookups = @ + 1]
        /\ made' = [made EXCEPT ![c].warm = IF WarmsUp(c) THEN 1 ELSE 0]
    BY DEF Built
  <2>2. WarmsUp(c) => ~Dynamic
    BY DEF WarmsUp, Dynamic
  <2>3. CASE WarmsUp(c)
    BY <2>1, <2>2, <2>3
  <2>4. CASE ~WarmsUp(c)
    BY <2>1, <2>4
  <2>5. QED BY <2>3, <2>4
<1>4. PICK m2, k2 : m2 = cl'[c] /\ k2 = made'[c]
  OBVIOUS
<1>5. m2.pc = IF calls THEN "called" ELSE "idle"
  <2>1. c \in DOMAIN cl /\ "pc" \in DOMAIN cl[c]
    BY <1>1, <1>2 DEF ClientRecords
  <2>2. QED BY <1>3, <1>4, <2>1
<1>6. k2.warm = (IF calls THEN 1 ELSE 0) /\ k2.calls = k.calls /\ k2.failed = k.failed
  BY <1>1, <1>2, <1>3, <1>4 DEF MadeRecords
<1>7. \A d \in Workers \ {c} : cl'[d] = cl[d] /\ made'[d] = made[d]
  BY <1>2, <1>3
<1>8. InRun(c, Phase(c), used[RunOf(c)], m2, e, k2, x) /\ Phase(c) \notin {"calls", "over"}
  <2>1. Flying(m2) => calls
    BY <1>5 DEF Flying
  <2>2. PhaseRight(c, Phase(c), used[RunOf(c)], m2) /\ Phase(c) \notin {"calls", "over"}
    BY <1>1, <1>2, <1>5 DEF InRun, PhaseRight
  <2>3. Twice(k2) = Twice(k)
    BY <1>6 DEF Twice
  <2>4. CallsCounted(c, Phase(c), used[RunOf(c)], m2, k2, x)
    BY <1>1, <1>3, <1>5, <1>6, <2>1, <2>2, <2>3 DEF InRun, CallsCounted
  <2>5. ASSUME conf.kind = "kafka" PROVE KafkaCounted(m2, e, k2)
    <3>1. KafkaCounted(m, e, k) /\ ~NotTaken(m) /\ ~NotTaken(m2)
      BY <1>1, <1>2, <1>5, <2>5 DEF InRun, NotTaken
    <3>2. e.acked \in Nat /\ k.failed \in Nat /\ k.calls \in Nat
      BY DEF EchoRecords, MadeRecords
    <3>3. e.acked + k.failed = k.calls /\ (conf.collect => e.requests = e.acked /\ e.errors = k.failed + 0)
      BY <1>2, <3>1, <3>2 DEF KafkaCounted
    <3>4. e.acked + k.failed + (IF calls THEN 1 ELSE 0) = (IF calls THEN 1 ELSE 0) + k.calls
      BY <3>2, <3>3
    <3>5. QED BY <1>5, <1>6, <3>1, <3>3, <3>4 DEF KafkaCounted
  <2>6. QED BY <2>2, <2>4, <2>5 DEF InRun
<1>9. ~At(c, "idle") /\ ~At(c, "new")
  BY <1>1, <1>2 DEF At
<1>10. echo'[c] = e /\ codes'[c] = x
  BY <1>1, <1>2
<1>11. QED BY <1>2, <1>4, <1>7, <1>8, <1>9, <1>10, OneClientMoves

(* A worker makes its next call.                                           *)
LEMMA CallInRun ==
  ASSUME ClientsInv, UsedRight, RunsInv, NEW c \in Workers, Call(c) PROVE RunsInv'
<1>1. PICK n \in NetRecords, m \in ClientRecords, e \in EchoRecords, k \in MadeRecords, x \in [ok : Nat, bad : Nat] :
        /\ n = net[c] /\ m = cl[c] /\ e = echo[c] /\ k = made[c] /\ x = codes[c]
        /\ Placed(n, m) /\ InRun(c, Phase(c), used[RunOf(c)], m, e, k, x)
  BY RunParts
<1>2. /\ UNCHANGED <<conf, run, used, total, codes, echo>> /\ DOMAIN cl = Clients /\ DOMAIN made = Clients
      /\ DOMAIN codes' = Clients /\ Workers \subseteq Clients /\ m.pc = "idle"
      /\ Phase(c) = "calls" /\ c \in used[RunOf(c)]
      /\ made' = [made EXCEPT ![c].calls = @ + 1] /\ cl' = [cl EXCEPT ![c].pc = "called"]
  BY <1>1, ConfFacts DEF ClientsInv, RunsInv, Call, At
<1>3. PICK m2, k2 : m2 = cl'[c] /\ k2 = made'[c]
  OBVIOUS
<1>4. m2.pc = "called"
  BY <1>1, <1>2, <1>3 DEF ClientRecords
<1>5. PICK warm \in Nat, calls \in Nat, failed \in Nat : warm = k.warm /\ calls = k.calls /\ failed = k.failed
  BY DEF MadeRecords
<1>6. k2.warm = warm /\ k2.calls = calls + 1 /\ k2.failed = failed
  BY <1>1, <1>2, <1>3, <1>5 DEF MadeRecords
<1>7. \A d \in Workers \ {c} : cl'[d] = cl[d] /\ made'[d] = made[d]
  BY <1>2
<1>8. InRun(c, Phase(c), used[RunOf(c)], m2, e, k2, x)
  <2>1. Flying(m2) /\ ~Flying(m) /\ ~NotTaken(m) /\ ~NotTaken(m2)
    BY <1>2, <1>4 DEF Flying, NotTaken
  <2>2. PhaseRight(c, Phase(c), used[RunOf(c)], m2)
    BY <1>1, <1>2, <1>4 DEF InRun, PhaseRight
  <2>3. PICK twice \in Nat : twice = Twice(k) /\ twice = Twice(k2)
    BY <1>5, <1>6 DEF Twice
  <2>4. PICK ok \in Nat, bad \in Nat : ok = x.ok /\ bad = x.bad
    OBVIOUS
  <2>5. bad <= failed + twice /\ ok + bad + 0 = calls + twice
    BY <1>1, <1>2, <1>5, <2>1, <2>3, <2>4 DEF InRun, CallsCounted
  <2>6. ok + bad + 1 = calls + 1 + twice
    BY <2>5
  <2>7. CallsCounted(c, Phase(c), used[RunOf(c)], m2, k2, x)
    BY <1>2, <1>4, <1>6, <2>1, <2>3, <2>4, <2>5, <2>6 DEF CallsCounted
  <2>8. ASSUME conf.kind = "kafka" PROVE KafkaCounted(m2, e, k2)
    <3>1. KafkaCounted(m, e, k)
      BY <1>1, <2>8 DEF InRun
    <3>2. PICK acked \in Nat : acked = e.acked
      BY DEF EchoRecords
    <3>3. acked + failed + 0 = warm + calls /\ (conf.collect => e.requests = e.acked /\ e.errors = failed + 0)
      BY <1>2, <1>5, <2>1, <3>1, <3>2 DEF KafkaCounted
    <3>4. acked + failed + 1 = warm + (calls + 1)
      BY <3>3
    <3>5. QED BY <1>4, <1>6, <2>1, <3>2, <3>3, <3>4 DEF KafkaCounted
  <2>9. QED BY <2>2, <2>7, <2>8 DEF InRun
<1>9. ~At(c, "new")
  BY <1>1, <1>2 DEF At
<1>10. echo'[c] = e /\ codes'[c] = x
  BY <1>1, <1>2
<1>11. QED BY <1>2, <1>3, <1>7, <1>8, <1>9, <1>10, OneClientMoves

(* What a client is left as when its call is over.                         *)
LEMMA Forgotten ==
  ASSUME ClientsInv, NEW c \in Clients, Forget(c)
  PROVE  cl'[c].pc = "idle" /\ \A d \in Clients \ {c} : cl'[d] = cl[d]
<1>1. PICK m \in ClientRecords : m = cl[c]
  BY PartsOf
<1>2. c \in DOMAIN cl /\ "pc" \in DOMAIN cl[c] /\ DOMAIN cl = Clients
  BY <1>1 DEF ClientRecords, ClientsInv
<1>3. cl' = [cl EXCEPT ![c].pc = "idle", ![c].code = 0, ![c].reused = FALSE, ![c].tries = 0,
                       ![c].served = 0, ![c].whole = FALSE]
  BY DEF Forget
<1>4. QED BY <1>2, <1>3

(* What Kafka's metrics say when a call that failed, or not, is counted.   *)
LEMMA KafkaForgotten ==
  ASSUME NEW m, NEW e \in EchoRecords, NEW k \in MadeRecords, NEW m2, NEW k2, KafkaCounted(m, e, k), m.pc = "done",
         m2.pc = "idle", k2.warm = k.warm, k2.calls = k.calls,
         k2.failed = IF CodeIsOK(m.code) THEN k.failed ELSE k.failed + 1
  PROVE  KafkaCounted(m2, e, k2)
<1>1. PICK warm \in Nat, calls \in Nat, failed \in Nat : warm = k.warm /\ calls = k.calls /\ failed = k.failed
  BY DEF MadeRecords
<1>2. PICK acked \in Nat : acked = e.acked
  BY DEF EchoRecords
<1>3. PICK j \in {0, 1} : j = IF CodeIsOK(m.code) THEN 0 ELSE 1
  OBVIOUS
<1>4. k2.failed = failed + j /\ ~NotTaken(m2) /\ (NotTaken(m) <=> j = 1)
  BY <1>1, <1>3 DEF NotTaken
<1>5. acked + failed + j = warm + calls /\ (conf.collect => e.requests = e.acked /\ e.errors = failed + j)
  BY <1>1, <1>2, <1>3, <1>4 DEF KafkaCounted
<1>6. acked + (failed + j) + 0 = warm + calls /\ (conf.collect => e.errors = (failed + j) + 0)
  BY <1>3, <1>5
<1>7. QED BY <1>1, <1>2, <1>4, <1>5, <1>6 DEF KafkaCounted

(* A call of the run is over, and its code counted.                        *)
LEMMA ReturnInRun ==
  ASSUME ClientsInv, UsedRight, RunsInv, NEW c \in Workers, Return(c) PROVE RunsInv'
<1>1. PICK n \in NetRecords, m \in ClientRecords, e \in EchoRecords, k \in MadeRecords, x \in [ok : Nat, bad : Nat] :
        /\ n = net[c] /\ m = cl[c] /\ e = echo[c] /\ k = made[c] /\ x = codes[c]
        /\ Placed(n, m) /\ InRun(c, Phase(c), used[RunOf(c)], m, e, k, x)
  BY RunParts
<1>2. /\ UNCHANGED <<conf, run, used, total, echo>> /\ DOMAIN made = Clients /\ DOMAIN codes = Clients
      /\ Workers \subseteq Clients /\ m.pc = "done" /\ Phase(c) = "calls" /\ Forget(c)
  BY <1>1, ConfFacts DEF ClientsInv, RunsInv, Return, At
<1>3. PICK m2, k2, x2 : m2 = cl'[c] /\ k2 = made'[c] /\ x2 = codes'[c]
  OBVIOUS
<1>4. m2.pc = "idle" /\ \A d \in Workers \ {c} : cl'[d] = cl[d]
  BY <1>2, <1>3, Forgotten
<1>5. PICK warm \in Nat, calls \in Nat, failed \in Nat : warm = k.warm /\ calls = k.calls /\ failed = k.failed
  BY DEF MadeRecords
<1>6. PICK ok \in Nat, bad \in Nat : ok = x.ok /\ bad = x.bad
  OBVIOUS
<1>7. PICK j \in {0, 1} : j = IF CodeIsOK(m.code) THEN 0 ELSE 1
  OBVIOUS
<1>8. PICK h \in {1, 2} : h = IF Dynamic /\ m.code = SocketError THEN 2 ELSE 1
  OBVIOUS
<1>9. /\ made' = [made EXCEPT ![c].failed = IF j = 0 THEN @ ELSE @ + 1]
      /\ codes' = IF j = 0 THEN [codes EXCEPT ![c].ok = @ + h] ELSE [codes EXCEPT ![c].bad = @ + h]
  <2>1. made' = [made EXCEPT ![c].failed = IF j = 0 THEN @ ELSE @ + 1]
    <3>1. made' = [made EXCEPT ![c].failed = IF CodeIsOK(cl[c].code) THEN @ ELSE @ + 1]
      BY DEF Return
    <3>2. CodeIsOK(cl[c].code) <=> j = 0
      BY <1>1, <1>7
    <3>3. QED
      <4>1. CASE j = 0
        BY <3>1, <3>2, <4>1
      <4>2. CASE j # 0
        BY <3>1, <3>2, <4>2
      <4>3. QED BY <4>1, <4>2
  <2>2. Count(c, IF Dynamic /\ m.code = SocketError THEN 2 ELSE 1)
    BY <1>1 DEF Return
  <2>3. codes' = IF j = 0 THEN [codes EXCEPT ![c].ok = @ + h] ELSE [codes EXCEPT ![c].bad = @ + h]
    BY <1>1, <1>7, <1>8, <2>2 DEF Count
  <2>4. QED BY <2>1, <2>3
<1>10. k2.warm = warm /\ k2.calls = calls /\ k2.failed = failed + j
  <2>1. CASE j = 0
    BY <1>1, <1>2, <1>3, <1>5, <1>9, <2>1 DEF MadeRecords
  <2>2. CASE j = 1
    BY <1>1, <1>2, <1>3, <1>5, <1>9, <2>2 DEF MadeRecords
  <2>3. QED BY <2>1, <2>2
<1>11. x2 = IF j = 0 THEN [ok |-> ok + h, bad |-> bad] ELSE [ok |-> ok, bad |-> bad + h]
  <2>1. CASE j = 0
    BY <1>1, <1>2, <1>3, <1>6, <1>9, <2>1
  <2>2. CASE j = 1
    BY <1>1, <1>2, <1>3, <1>6, <1>9, <2>2
  <2>3. QED BY <2>1, <2>2
<1>12. DOMAIN codes' = Clients /\ \A d \in Workers \ {c} : made'[d] = made[d] /\ codes'[d] = codes[d]
  BY <1>2, <1>9
<1>13. InRun(c, Phase(c), used[RunOf(c)], m2, e, k2, x2)
  <2>1. Flying(m) /\ ~Flying(m2)
    BY <1>2, <1>4 DEF Flying
  <2>2. PhaseRight(c, Phase(c), used[RunOf(c)], m2)
    BY <1>1, <1>2, <1>4 DEF InRun, PhaseRight
  <2>3. CallsCounted(c, Phase(c), used[RunOf(c)], m, k, x)
    BY <1>1 DEF InRun
  <2>4. PICK twice \in Nat : twice = Twice(k)
    BY <1>5 DEF Twice
  <2>5. bad <= failed + twice /\ ok + bad + 1 = calls + twice
    BY <1>2, <1>5, <1>6, <2>1, <2>3, <2>4 DEF CallsCounted
  <2>6. c \in used[RunOf(c)]
    <3>1. c \notin used[RunOf(c)] => calls = 0 /\ twice = 0
      BY <1>5, <2>3, <2>4 DEF CallsCounted
    <3>2. QED BY <2>5, <3>1
  <2>7. h = 1 + (IF Dynamic THEN j ELSE 0)
    <3>1. Dynamic => m.code \in {200, SocketError}
      BY <1>2, <2>3 DEF CallsCounted
    <3>2. QED BY <1>7, <1>8, <3>1, ErrorIsNotOK
  <2>8. Twice(k2) = twice + (IF Dynamic THEN j ELSE 0)
    BY <1>5, <1>7, <1>10, <2>4 DEF Twice
  <2>9. PICK again \in {0, 1} : again = IF Dynamic THEN j ELSE 0
    OBVIOUS
  <2>10. h = 1 + again /\ again <= j /\ Twice(k2) = twice + again
    BY <1>7, <2>7, <2>8, <2>9
  <2>11. CASE j = 0
    <3>1. x2.ok = ok + h /\ x2.bad = bad /\ x2 \in [ok : Nat, bad : Nat]
      BY <1>8, <1>11, <2>11
    <3>2. bad <= (failed + j) + (twice + again) /\ (ok + h) + bad + 0 = calls + (twice + again)
      BY <2>5, <2>10, <2>11
    <3>3. CallsCounted(c, Phase(c), used[RunOf(c)], m2, k2, x2)
      BY <1>2, <1>4, <1>10, <2>1, <2>6, <2>10, <3>1, <3>2 DEF CallsCounted
    <3>4. QED
      <4>1. conf.kind = "kafka" => KafkaCounted(m2, e, k2)
        BY <1>1, <1>2, <1>4, <1>5, <1>7, <1>10, KafkaForgotten DEF InRun
      <4>2. QED BY <2>2, <3>3, <4>1 DEF InRun
  <2>12. CASE j = 1
    <3>1. x2.ok = ok /\ x2.bad = bad + h /\ x2 \in [ok : Nat, bad : Nat]
      BY <1>8, <1>11, <2>12
    <3>2. bad + h <= (failed + j) + (twice + again) /\ ok + (bad + h) + 0 = calls + (twice + again)
      BY <2>5, <2>10, <2>12
    <3>3. CallsCounted(c, Phase(c), used[RunOf(c)], m2, k2, x2)
      BY <1>2, <1>4, <1>10, <2>1, <2>6, <2>10, <3>1, <3>2 DEF CallsCounted
    <3>4. QED
      <4>1. conf.kind = "kafka" => KafkaCounted(m2, e, k2)
        BY <1>1, <1>2, <1>4, <1>5, <1>7, <1>10, KafkaForgotten DEF InRun
      <4>2. QED BY <2>2, <3>3, <4>1 DEF InRun
  <2>13. QED BY <2>11, <2>12
<1>14. ~At(c, "new") /\ echo'[c] = e
  BY <1>1, <1>2 DEF At
<1>15. QED BY <1>2, <1>3, <1>4, <1>12, <1>13, <1>14, OneClientMoves

(* A run that fails takes its clients as they are.                         *)
LEMMA FailsInRun ==
  ASSUME NEW c, NEW p, NEW s, NEW m, NEW e, NEW k, NEW x, InRun(c, p, s, m, e, k, x), p \in {"build", "warm"},
         conf.kind = "kafka" => m.pc \in {"new", "failed", "closed"}
  PROVE  InRun(c, "failed", s, m, e, k, x)
<1>1. PhaseRight(c, "failed", s, m)
  BY DEF InRun, PhaseRight
<1>2. CallsCounted(c, "failed", s, m, k, x)
  BY DEF InRun, CallsCounted
<1>3. QED BY <1>1, <1>2 DEF InRun

(* A warm-up call is over: nothing is counted, and the run may fail.       *)
LEMMA WarmedInRun ==
  ASSUME ClientsInv, UsedRight, RunsInv, NEW c \in Workers, Warmed(c) PROVE RunsInv'
<1>1. PICK n \in NetRecords, m \in ClientRecords, e \in EchoRecords, k \in MadeRecords, x \in [ok : Nat, bad : Nat] :
        /\ n = net[c] /\ m = cl[c] /\ e = echo[c] /\ k = made[c] /\ x = codes[c]
        /\ Placed(n, m) /\ InRun(c, Phase(c), used[RunOf(c)], m, e, k, x)
  BY RunParts
<1>2. PICK r \in RunIDs : r = RunOf(c) /\ c \in Crew(r)
  BY CrewFacts DEF ClientsInv
<1>3. /\ UNCHANGED <<conf, used, total, codes, echo>> /\ DOMAIN made = Clients /\ DOMAIN codes = Clients
      /\ Workers \subseteq Clients /\ m.pc = "done" /\ run[r].phase \in {"build", "warm"} /\ Forget(c)
      /\ Phase(c) = run[r].phase /\ run \in [RunIDs -> RunRecords]
  BY <1>1, <1>2, ConfFacts DEF ClientsInv, RunsInv, Warmed, At, Phase
<1>4. PICK m2, k2 : m2 = cl'[c] /\ k2 = made'[c]
  OBVIOUS
<1>5. m2.pc = "idle" /\ \A d \in Workers \ {c} : cl'[d] = cl[d]
  BY <1>3, <1>4, Forgotten
<1>6. \/ run' = run
      \/ run' = [run EXCEPT ![r].bad = TRUE]
      \/ run' = [run EXCEPT ![r].phase = "failed"] /\ conf.kind # "kafka"
  BY <1>2 DEF Warmed, IsHTTP, IsGRPC
<1>7. /\ run' \in [RunIDs -> RunRecords] /\ \A q \in RunIDs \ {r} : run'[q] = run[q]
      /\ run'[r].phase = run[r].phase \/ (run'[r].phase = "failed" /\ conf.kind # "kafka")
  <2>1. PICK ph \in {"build", "warm", "calls", "over", "failed"}, b \in BOOLEAN :
          ph = run[r].phase /\ b = run[r].bad /\ run[r] = [phase |-> ph, bad |-> b]
    BY <1>3 DEF RunRecords
  <2>2. CASE run' = run
    BY <1>3, <2>2
  <2>3. CASE run' = [run EXCEPT ![r].bad = TRUE]
    <3>0. PICK t \in BOOLEAN : t = TRUE
      OBVIOUS
    <3>1. [run[r] EXCEPT !.bad = t] = [phase |-> ph, bad |-> t]
      BY <2>1
    <3>2. run' = [run EXCEPT ![r] = [phase |-> ph, bad |-> t]]
      BY <2>3, <3>0, <3>1
    <3>3. [phase |-> ph, bad |-> t] \in RunRecords
      BY DEF RunRecords
    <3>4. QED BY <1>3, <2>1, <3>2, <3>3
  <2>4. CASE run' = [run EXCEPT ![r].phase = "failed"] /\ conf.kind # "kafka"
    <3>1. [run[r] EXCEPT !.phase = "failed"] = [phase |-> "failed", bad |-> b]
      BY <2>1
    <3>2. run' = [run EXCEPT ![r] = [phase |-> "failed", bad |-> b]]
      BY <2>4, <3>1
    <3>3. [phase |-> "failed", bad |-> b] \in RunRecords
      BY DEF RunRecords
    <3>4. QED BY <1>3, <2>4, <3>2, <3>3
  <2>5. QED BY <1>6, <2>2, <2>3, <2>4
<1>8. k2.warm = k.warm /\ k2.calls = k.calls /\ k2.failed = IF CodeIsOK(m.code) THEN k.failed ELSE k.failed + 1
  <2>1. made' = [made EXCEPT ![c].failed = IF ~CodeIsOK(cl[c].code) THEN @ + 1 ELSE @]
    BY DEF Warmed
  <2>2. CASE CodeIsOK(m.code)
    BY <1>1, <1>3, <1>4, <2>1, <2>2 DEF MadeRecords
  <2>3. CASE ~CodeIsOK(m.code)
    BY <1>1, <1>3, <1>4, <2>1, <2>3 DEF MadeRecords
  <2>4. QED BY <2>2, <2>3
<1>9. \A d \in Workers \ {c} : made'[d] = made[d]
  BY <1>3 DEF Warmed
<1>10. InRun(c, run[r].phase, used[r], m2, e, k2, x)
  <2>1. PhaseRight(c, run[r].phase, used[r], m) /\ CallsCounted(c, run[r].phase, used[r], m, k, x)
    BY <1>1, <1>2, <1>3 DEF InRun
  <2>2. PhaseRight(c, run[r].phase, used[r], m2)
    BY <1>3, <1>5, <2>1 DEF PhaseRight
  <2>3. ~Dynamic /\ c \notin used[r] /\ ~Flying(m2)
    BY <1>3, <1>5, <2>1 DEF PhaseRight, CallsCounted, Flying
  <2>4. Twice(k) = 0 /\ Twice(k2) = 0 /\ k2.failed \in Nat
    BY <1>8, <2>3 DEF Twice, MadeRecords
  <2>5. x.bad = 0 /\ x.ok = 0 /\ k.calls = 0
    BY <2>1, <2>3 DEF CallsCounted
  <2>6. CallsCounted(c, run[r].phase, used[r], m2, k2, x)
    BY <1>3, <1>5, <1>8, <2>3, <2>4, <2>5 DEF CallsCounted
  <2>7. conf.kind = "kafka" => KafkaCounted(m2, e, k2)
    BY <1>1, <1>3, <1>5, <1>8, KafkaForgotten DEF InRun
  <2>8. QED BY <2>2, <2>6, <2>7 DEF InRun
<1>11. ASSUME NEW d \in Crew(r)
       PROVE  InRun(d, run'[r].phase, used'[r], cl'[d], echo'[d], made'[d], codes'[d])
  <2>1. InRun(d, run[r].phase, used[r], cl'[d], echo'[d], made'[d], codes'[d])
    <3>1. CASE d = c
      BY <1>1, <1>3, <1>4, <1>10, <3>1
    <3>2. CASE d # c
      <4>1. d \in Workers /\ RunOf(d) = r
        BY CrewFacts DEF ClientsInv
      <4>2. InRun(d, run[r].phase, used[r], cl[d], echo[d], made[d], codes[d])
        BY <4>1 DEF RunsInv, Phase
      <4>3. QED BY <1>3, <1>5, <1>9, <3>2, <4>1, <4>2
    <3>3. QED BY <3>1, <3>2
  <2>2. PICK s, m1, e1, k1, x1 : s = used[r] /\ m1 = cl'[d] /\ e1 = echo'[d] /\ k1 = made'[d] /\ x1 = codes'[d]
    OBVIOUS
  <2>3. InRun(d, run[r].phase, s, m1, e1, k1, x1)
    BY <2>1, <2>2
  <2>4. InRun(d, run'[r].phase, s, m1, e1, k1, x1)
    BY <1>3, <1>7, <2>3, FailsInRun
  <2>5. QED BY <1>3, <2>2, <2>4
<1>12. ASSUME run'[r].phase = "build" PROVE InOrder(r)'
  <2>1. InOrder(r) /\ ~At(c, "idle") /\ ~At(c, "new")
    BY <1>1, <1>3, <1>7, <1>12 DEF RunsInv, At
  <2>2. \A d \in Crew(r) \ {c} : cl'[d] = cl[d]
    BY <1>5, CrewFacts DEF ClientsInv
  <2>3. QED BY <1>2, <1>3, <2>1, <2>2, OrderStays DEF ClientsInv
<1>13. run'[r].phase # "over"
  BY <1>3, <1>7
<1>14. /\ DOMAIN total' = RunIDs /\ DOMAIN codes' = Clients
       /\ \A q \in RunIDs \ {r} : run'[q] = run[q] /\ total'[q] = total[q] /\ used'[q] = used[q]
  BY <1>3, <1>7 DEF RunsInv
<1>15. \A d \in Workers : RunOf(d) # r =>
         cl'[d] = cl[d] /\ echo'[d] = echo[d] /\ made'[d] = made[d] /\ codes'[d] = codes[d]
  BY <1>2, <1>3, <1>5, <1>9
<1>16. QED BY <1>3, <1>7, <1>11, <1>12, <1>13, <1>14, <1>15, OneRunMoves DEF ClientsInv

(* A client cannot be built: the run fails, and of Kafka's the others are  *)
(* closed, which are all at rest.                                          *)
LEMMA NotBuiltInRun ==
  ASSUME ClientsInv, UsedRight, RunsInv, NEW c \in Workers, NotBuilt(c) PROVE RunsInv'
<1>1. PICK r \in RunIDs : r = RunOf(c) /\ c \in Crew(r)
  BY CrewFacts DEF ClientsInv
<1>2. /\ UNCHANGED <<conf, used, total, codes, echo, made>> /\ DOMAIN codes = Clients
      /\ Workers \subseteq Clients /\ At(c, "building") /\ run' = [run EXCEPT ![r].phase = "failed"]
      /\ run \in [RunIDs -> RunRecords] /\ Crew(r) \subseteq Workers /\ Crew(r) \subseteq Nat
  BY <1>1, CrewFacts DEF ClientsInv, RunsInv, NotBuilt
<1>3. run' \in [RunIDs -> RunRecords] /\ run'[r].phase = "failed" /\ \A q \in RunIDs \ {r} : run'[q] = run[q]
  BY <1>2 DEF RunRecords
<1>4. run[r].phase \in {"build", "failed"} /\ (run[r].phase = "failed" => conf.kind # "kafka")
  <2>1. PICK m \in ClientRecords : m = cl[c]
    BY RunParts
  <2>2. PhaseRight(c, run[r].phase, used[r], m)
    BY <1>1, <2>1 DEF RunsInv, InRun, Phase
  <2>3. run[r].phase \in {"build", "warm", "calls", "over", "failed"}
    BY <1>2 DEF RunRecords
  <2>4. QED BY <1>2, <2>1, <2>2, <2>3 DEF PhaseRight, At
<1>5. cl' = [d \in Clients |->
               IF d = c THEN [cl[d] EXCEPT !.pc = "failed"]
               ELSE IF d \in Crew(r) /\ CleansUp(d) THEN [cl[d] EXCEPT !.pc = "closed"] ELSE cl[d]]
  BY <1>1 DEF NotBuilt
<1>6. ASSUME NEW d \in Crew(r)
      PROVE  InRun(d, run'[r].phase, used'[r], cl'[d], echo'[d], made'[d], codes'[d])
  <2>1. d \in Workers /\ RunOf(d) = r
    BY CrewFacts DEF ClientsInv
  <2>2. PICK m \in ClientRecords, e \in EchoRecords, k \in MadeRecords, x \in [ok : Nat, bad : Nat] :
          /\ m = cl[d] /\ e = echo[d] /\ k = made[d] /\ x = codes[d]
          /\ InRun(d, Phase(d), used[RunOf(d)], m, e, k, x)
    BY <2>1, RunParts
  <2>3. PICK s : s = used[r] /\ InRun(d, run[r].phase, s, m, e, k, x)
    BY <2>1, <2>2 DEF Phase
  <2>4. PICK m2 : m2 = cl'[d]
    OBVIOUS
  <2>5. /\ d = c => m2.pc = "failed" /\ m.pc = "building"
        /\ d # c /\ conf.kind = "kafka" /\ m.pc = "idle" => m2.pc = "closed"
        /\ d # c /\ ~(conf.kind = "kafka" /\ m.pc = "idle") => m2 = m
    BY <1>2, <1>5, <2>1, <2>2, <2>4 DEF CleansUp, At, ClientRecords
  <2>6. conf.kind = "kafka" => m2.pc \in {"new", "failed", "closed"} /\ (m2 = m \/ m.pc \in {"building", "idle"})
    <3> SUFFICES ASSUME conf.kind = "kafka"
                 PROVE  m2.pc \in {"new", "failed", "closed"} /\ (m2 = m \/ m.pc \in {"building", "idle"})
      OBVIOUS
    <3>1. InOrder(r)
      BY <1>4 DEF RunsInv
    <3>2. d \in Nat /\ c \in Nat
      BY <1>1, <1>2
    <3>3. CASE d < c
      BY <1>1, <1>2, <2>2, <2>5, <3>1, <3>2, <3>3 DEF InOrder, At
    <3>4. CASE c < d
      BY <1>1, <1>2, <2>2, <2>5, <3>1, <3>2, <3>4 DEF InOrder, At
    <3>5. CASE d = c
      BY <2>5, <3>5
    <3>6. QED BY <3>2, <3>3, <3>4, <3>5
  <2>7. InRun(d, "failed", s, m2, e, k, x)
    <3>1. PhaseRight(d, run[r].phase, s, m) /\ CallsCounted(d, run[r].phase, s, m, k, x)
      BY <2>3 DEF InRun
    <3>2. PhaseRight(d, "failed", s, m2)
      BY <1>4, <2>6, <3>1 DEF PhaseRight
    <3>3. m2 = m \/ (m2.pc \in {"failed", "closed"} /\ m.pc \in {"building", "idle"})
      BY <2>5
    <3>4. CallsCounted(d, "failed", s, m2, k, x)
      BY <1>4, <3>1, <3>3 DEF CallsCounted, Flying
    <3>5. ASSUME conf.kind = "kafka" PROVE KafkaCounted(m2, e, k)
      <4>1. KafkaCounted(m, e, k)
        BY <2>3, <3>5 DEF InRun
      <4>2. CASE m2 = m
        BY <4>1, <4>2
      <4>3. CASE m2.pc \in {"failed", "closed"} /\ m.pc \in {"building", "idle"}
        BY <4>1, <4>3 DEF KafkaCounted, NotTaken
      <4>4. QED BY <3>3, <4>2, <4>3
    <3>6. QED BY <3>2, <3>4, <3>5 DEF InRun
  <2>8. QED BY <1>2, <1>3, <2>2, <2>3, <2>4, <2>7
<1>7. ASSUME NEW d \in Workers, RunOf(d) # r
      PROVE  cl'[d] = cl[d] /\ echo'[d] = echo[d] /\ made'[d] = made[d] /\ codes'[d] = codes[d]
  <2>1. d # c /\ d \notin Crew(r) /\ d \in Clients
    BY <1>1, <1>2, <1>7, CrewFacts DEF ClientsInv
  <2>2. QED BY <1>2, <1>5, <2>1
<1>8. /\ DOMAIN total' = RunIDs /\ DOMAIN codes' = Clients
      /\ \A q \in RunIDs \ {r} : run'[q] = run[q] /\ total'[q] = total[q] /\ used'[q] = used[q]
  BY <1>2, <1>3 DEF RunsInv
<1>9. run'[r].phase # "build" /\ run'[r].phase # "over"
  BY <1>3
<1>10. QED BY <1>2, <1>3, <1>6, <1>7, <1>8, <1>9, OneRunMoves DEF ClientsInv

(* All the clients of a run.                                               *)
LEMMA CrewParts ==
  ASSUME ClientsInv, RunsInv, NEW r \in RunIDs, NEW d \in Crew(r)
  PROVE  \E m \in ClientRecords, e \in EchoRecords, k \in MadeRecords, x \in [ok : Nat, bad : Nat] :
           /\ m = cl[d] /\ e = echo[d] /\ k = made[d] /\ x = codes[d]
           /\ InRun(d, run[r].phase, used[r], m, e, k, x)
<1>1. d \in Workers /\ RunOf(d) = r
  BY CrewFacts DEF ClientsInv
<1>2. PICK m \in ClientRecords, e \in EchoRecords, k \in MadeRecords, x \in [ok : Nat, bad : Nat] :
        /\ m = cl[d] /\ e = echo[d] /\ k = made[d] /\ x = codes[d]
        /\ InRun(d, Phase(d), used[RunOf(d)], m, e, k, x)
  BY <1>1, RunParts
<1>3. QED BY <1>1, <1>2 DEF Phase

(* A phase that a run goes to.                                             *)
LEMMA PhaseGoes ==
  ASSUME run \in [RunIDs -> RunRecords], NEW r \in RunIDs, NEW p \in {"build", "warm", "calls", "over", "failed"},
         run' = [run EXCEPT ![r].phase = p]
  PROVE  run' \in [RunIDs -> RunRecords] /\ run'[r].phase = p /\ \A q \in RunIDs \ {r} : run'[q] = run[q]
BY DEF RunRecords

(* A run fails before it built, or after the warm-up.                      *)
LEMMA RunFailsInRun ==
  ASSUME ClientsInv, UsedRight, RunsInv, NEW r \in RunIDs, NotValidated(r) \/ WarmUpFails(r) PROVE RunsInv'
<1>1. /\ UNCHANGED <<conf, used, total, codes, echo, made, cl>> /\ DOMAIN codes = Clients /\ DOMAIN total = RunIDs
      /\ run' = [run EXCEPT ![r].phase = "failed"] /\ run \in [RunIDs -> RunRecords]
      /\ run[r].phase \in {"build", "warm"}
      /\ run[r].phase = "build" => \A d \in Crew(r) : cl[d].pc = "new"
  BY DEF RunsInv, NotValidated, WarmUpFails, AllIdle, At
<1>2. run' \in [RunIDs -> RunRecords] /\ run'[r].phase = "failed" /\ \A q \in RunIDs \ {r} : run'[q] = run[q]
  BY <1>1, PhaseGoes
<1>3. ASSUME NEW d \in Crew(r)
      PROVE  InRun(d, run'[r].phase, used'[r], cl'[d], echo'[d], made'[d], codes'[d])
  <2>1. PICK m \in ClientRecords, e \in EchoRecords, k \in MadeRecords, x \in [ok : Nat, bad : Nat], s \in {used[r]} :
          /\ m = cl[d] /\ e = echo[d] /\ k = made[d] /\ x = codes[d] /\ s = used[r]
          /\ InRun(d, run[r].phase, s, m, e, k, x)
    BY CrewParts
  <2>2. conf.kind = "kafka" => m.pc \in {"new", "failed", "closed"}
    <3>1. run[r].phase = "warm" => conf.kind # "kafka"
      BY <2>1 DEF InRun, PhaseRight, IsHTTP
    <3>2. QED BY <1>1, <2>1, <3>1
  <2>3. InRun(d, "failed", s, m, e, k, x)
    BY <1>1, <2>1, <2>2, FailsInRun
  <2>4. QED BY <1>1, <1>2, <2>1, <2>3
<1>4. /\ DOMAIN total' = RunIDs /\ DOMAIN codes' = Clients
      /\ \A q \in RunIDs \ {r} : run'[q] = run[q] /\ total'[q] = total[q] /\ used'[q] = used[q]
      /\ run'[r].phase # "build" /\ run'[r].phase # "over"
  BY <1>1, <1>2
<1>5. \A d \in Workers : RunOf(d) # r =>
        cl'[d] = cl[d] /\ echo'[d] = echo[d] /\ made'[d] = made[d] /\ codes'[d] = codes[d]
  BY <1>1
<1>6. QED BY <1>1, <1>2, <1>3, <1>4, <1>5, OneRunMoves DEF ClientsInv

(* The parallel warm-up calls them all, and counts no code.                *)
LEMMA WarmUpInRun ==
  ASSUME ClientsInv, UsedRight, RunsInv, NEW r \in RunIDs, WarmUp(r) PROVE RunsInv'
<1>1. /\ UNCHANGED <<conf, used, total, codes, echo>> /\ DOMAIN codes = Clients /\ DOMAIN total = RunIDs
      /\ run' = [run EXCEPT ![r].phase = "warm"] /\ run \in [RunIDs -> RunRecords] /\ IsHTTP
      /\ run[r].phase = "build" /\ \A d \in Crew(r) : cl[d].pc = "idle"
      /\ cl' = [c \in Clients |-> IF c \in Crew(r) THEN [cl[c] EXCEPT !.pc = "called"] ELSE cl[c]]
      /\ made' = [c \in Clients |-> IF c \in Crew(r) THEN [made[c] EXCEPT !.warm = 1] ELSE made[c]]
  BY DEF RunsInv, WarmUp, AllIdle, At
<1>2. run' \in [RunIDs -> RunRecords] /\ run'[r].phase = "warm" /\ \A q \in RunIDs \ {r} : run'[q] = run[q]
  BY <1>1, PhaseGoes
<1>3. Crew(r) \subseteq Workers /\ Workers \subseteq Clients /\ \A d \in Crew(r) : RunOf(d) = r
  BY CrewFacts DEF ClientsInv
<1>4. ASSUME NEW d \in Crew(r)
      PROVE  InRun(d, run'[r].phase, used'[r], cl'[d], echo'[d], made'[d], codes'[d])
  <2>1. PICK m \in ClientRecords, e \in EchoRecords, k \in MadeRecords, x \in [ok : Nat, bad : Nat], s \in {used[r]} :
          /\ m = cl[d] /\ e = echo[d] /\ k = made[d] /\ x = codes[d] /\ s = used[r]
          /\ InRun(d, run[r].phase, s, m, e, k, x)
    BY CrewParts
  <2>2. PICK m2, k2 : m2 = cl'[d] /\ k2 = made'[d]
    OBVIOUS
  <2>3. m2 = [m EXCEPT !.pc = "called"] /\ k2 = [k EXCEPT !.warm = 1]
    BY <1>1, <1>3, <2>1, <2>2
  <2>4. m2.pc = "called" /\ m.pc = "idle"
    BY <1>1, <2>1, <2>3 DEF ClientRecords
  <2>5. k2.calls = k.calls /\ k2.failed = k.failed
    BY <2>3 DEF MadeRecords
  <2>6. InRun(d, "warm", s, m2, e, k2, x)
    <3>1. PhaseRight(d, "build", s, m) /\ CallsCounted(d, "build", s, m, k, x) /\ ~Dynamic /\ conf.kind # "kafka"
      BY <1>1, <2>1 DEF InRun, IsHTTP, Dynamic, IsGRPC
    <3>2. PhaseRight(d, "warm", s, m2)
      BY <1>1, <2>4, <3>1 DEF PhaseRight
    <3>3. CallsCounted(d, "warm", s, m2, k2, x)
      BY <2>5, <3>1 DEF CallsCounted, Twice
    <3>4. QED BY <3>1, <3>2, <3>3 DEF InRun
  <2>7. QED BY <1>1, <1>2, <2>1, <2>2, <2>6
<1>5. /\ DOMAIN total' = RunIDs /\ DOMAIN codes' = Clients
      /\ \A q \in RunIDs \ {r} : run'[q] = run[q] /\ total'[q] = total[q] /\ used'[q] = used[q]
      /\ run'[r].phase # "build" /\ run'[r].phase # "over"
  BY <1>1, <1>2
<1>6. \A d \in Workers : RunOf(d) # r =>
        cl'[d] = cl[d] /\ echo'[d] = echo[d] /\ made'[d] = made[d] /\ codes'[d] = codes[d]
  BY <1>1, <1>3
<1>7. QED BY <1>1, <1>2, <1>4, <1>5, <1>6, OneRunMoves DEF ClientsInv

(* The calls begin: nothing was counted before.                            *)
LEMMA StartCallsInRun ==
  ASSUME ClientsInv, UsedRight, RunsInv, NEW r \in RunIDs, StartCalls(r) PROVE RunsInv'
<1>1. PICK u : used' = [used EXCEPT ![r] = u]
  BY DEF StartCalls
<1>2. /\ UNCHANGED <<conf, total, codes, echo, cl, made>> /\ DOMAIN codes = Clients /\ DOMAIN total = RunIDs
      /\ run' = [run EXCEPT ![r].phase = "calls"] /\ run \in [RunIDs -> RunRecords] /\ DOMAIN used = RunIDs
      /\ run[r].phase \in {"build", "warm"} /\ \A d \in Crew(r) : cl[d].pc = "idle"
  BY DEF RunsInv, StartCalls, AllIdle, At, UsedRight
<1>3. run' \in [RunIDs -> RunRecords] /\ run'[r].phase = "calls" /\ \A q \in RunIDs \ {r} : run'[q] = run[q]
  BY <1>2, PhaseGoes
<1>4. ASSUME NEW d \in Crew(r)
      PROVE  InRun(d, run'[r].phase, used'[r], cl'[d], echo'[d], made'[d], codes'[d])
  <2>1. PICK m \in ClientRecords, e \in EchoRecords, k \in MadeRecords, x \in [ok : Nat, bad : Nat], s \in {used[r]} :
          /\ m = cl[d] /\ e = echo[d] /\ k = made[d] /\ x = codes[d] /\ s = used[r]
          /\ InRun(d, run[r].phase, s, m, e, k, x)
    BY CrewParts
  <2>2. InRun(d, "calls", u, m, e, k, x)
    <3>1. PhaseRight(d, run[r].phase, s, m) /\ CallsCounted(d, run[r].phase, s, m, k, x)
      BY <2>1 DEF InRun
    <3>2. m.pc = "idle" /\ ~Flying(m) /\ d \notin s
      BY <1>2, <2>1, <3>1 DEF PhaseRight, Flying
    <3>3. PhaseRight(d, "calls", u, m)
      BY <3>2 DEF PhaseRight
    <3>4. k.calls = 0 /\ Twice(k) = 0 /\ x.ok = 0 /\ x.bad = 0
      BY <3>1, <3>2 DEF CallsCounted
    <3>5. CallsCounted(d, "calls", u, m, k, x)
      BY <3>1, <3>2, <3>4 DEF CallsCounted
    <3>6. QED BY <2>1, <3>3, <3>5 DEF InRun
  <2>3. QED BY <1>1, <1>2, <1>3, <2>1, <2>2
<1>5. /\ DOMAIN total' = RunIDs /\ DOMAIN codes' = Clients
      /\ \A q \in RunIDs \ {r} : run'[q] = run[q] /\ total'[q] = total[q] /\ used'[q] = used[q]
      /\ run'[r].phase # "build" /\ run'[r].phase # "over"
  BY <1>1, <1>2, <1>3
<1>6. \A d \in Workers : RunOf(d) # r =>
        cl'[d] = cl[d] /\ echo'[d] = echo[d] /\ made'[d] = made[d] /\ codes'[d] = codes[d]
  BY <1>2
<1>7. QED BY <1>2, <1>3, <1>4, <1>5, <1>6, OneRunMoves DEF ClientsInv

(* The collection adds up what was counted, and closes.                    *)
LEMMA CollectInRun ==
  ASSUME ClientsInv, UsedRight, RunsInv, NEW r \in RunIDs, Collect(r) PROVE RunsInv'
<1>1. PICK u : u = Collected(r) /\ \A d \in Crew(r) : d \in u <=> (IsHTTP \/ IsGRPC => d \in used[r])
  <2>1. CASE IsHTTP \/ IsGRPC
    BY <2>1 DEF Collected
  <2>2. CASE ~(IsHTTP \/ IsGRPC)
    BY <2>2 DEF Collected
  <2>3. QED BY <2>1, <2>2
<1>2. /\ UNCHANGED <<conf, used, codes, echo, made>> /\ DOMAIN codes = Clients /\ DOMAIN total = RunIDs
      /\ run' = [run EXCEPT ![r].phase = "over"] /\ run \in [RunIDs -> RunRecords]
      /\ run[r].phase = "calls" /\ \A d \in Crew(r) : cl[d].pc = "idle"
      /\ cl' = [c \in Clients |-> IF c \in u THEN [cl[c] EXCEPT !.pc = "closed", !.socket = FALSE] ELSE cl[c]]
  BY <1>1 DEF RunsInv, Collect, AllIdle, At
<1>3. PICK y : total' = [total EXCEPT ![r] =
        [ok |-> Tally([c \in u |-> codes[c].ok]), bad |-> Tally([c \in u |-> codes[c].bad]),
         sockets |-> y, kafka |-> KafkaTotals(u)]]
  BY <1>1 DEF Collect
<1>4. run' \in [RunIDs -> RunRecords] /\ run'[r].phase = "over" /\ \A q \in RunIDs \ {r} : run'[q] = run[q]
  BY <1>2, PhaseGoes
<1>5. Crew(r) \subseteq Workers /\ Workers \subseteq Clients /\ u \subseteq Crew(r)
  <2>1. Crew(r) \subseteq Workers /\ Workers \subseteq Clients
    BY CrewFacts DEF ClientsInv
  <2>2. CASE IsHTTP \/ IsGRPC
    BY <1>1, <2>1, <2>2 DEF Collected, UsedRight
  <2>3. CASE ~(IsHTTP \/ IsGRPC)
    BY <1>1, <2>1, <2>3 DEF Collected
  <2>4. QED BY <2>2, <2>3
<1>6. ASSUME NEW d \in Crew(r)
      PROVE  InRun(d, run'[r].phase, used'[r], cl'[d], echo'[d], made'[d], codes'[d])
  <2>1. PICK m \in ClientRecords, e \in EchoRecords, k \in MadeRecords, x \in [ok : Nat, bad : Nat], s \in {used[r]} :
          /\ m = cl[d] /\ e = echo[d] /\ k = made[d] /\ x = codes[d] /\ s = used[r]
          /\ InRun(d, run[r].phase, s, m, e, k, x)
    BY CrewParts
  <2>2. PICK m2 : m2 = cl'[d]
    OBVIOUS
  <2>3. /\ d \in u => m2.pc = "closed" /\ ~m2.socket
        /\ d \notin u => m2 = m
    BY <1>2, <1>5, <2>1, <2>2 DEF ClientRecords
  <2>4. m.pc = "idle" /\ m2.pc \in {"idle", "closed"} /\ ~Flying(m) /\ ~Flying(m2) /\ ~NotTaken(m) /\ ~NotTaken(m2)
    BY <1>2, <2>1, <2>3 DEF Flying, NotTaken
  <2>5. InRun(d, "over", s, m2, e, k, x)
    <3>1. PhaseRight(d, "over", s, m2)
      BY <1>1, <2>1, <2>3, <2>4 DEF PhaseRight
    <3>2. CallsCounted(d, "calls", s, m, k, x)
      BY <1>2, <2>1 DEF InRun
    <3>3. CallsCounted(d, "over", s, m2, k, x)
      BY <2>4, <3>2 DEF CallsCounted
    <3>4. KafkaCounted(m, e, k) => KafkaCounted(m2, e, k)
      BY <2>4 DEF KafkaCounted
    <3>5. QED BY <2>1, <3>1, <3>3, <3>4 DEF InRun
  <2>6. QED BY <1>2, <1>4, <2>1, <2>2, <2>5
<1>7. Totalled(r)'
  <2>1. /\ total'[r].ok = Tally([c \in u |-> codes[c].ok]) /\ total'[r].bad = Tally([c \in u |-> codes[c].bad])
        /\ total'[r].kafka = KafkaTotals(u)
    BY <1>2, <1>3
  <2>2. Collected(r)' = u
    <3>1. Crew(r)' = Crew(r) /\ IsHTTP' = IsHTTP /\ IsGRPC' = IsGRPC /\ used' = used
      BY <1>2, SameCrews
    <3>2. Collected(r)' = Collected(r)
      BY <3>1 DEF Collected
    <3>3. QED BY <1>1, <3>2
  <2>3. KafkaTotals(u)' = KafkaTotals(u)
    BY <1>2 DEF KafkaTotals
  <2>4. QED BY <1>2, <2>1, <2>2, <2>3 DEF Totalled
<1>8. /\ DOMAIN total' = RunIDs /\ DOMAIN codes' = Clients
      /\ \A q \in RunIDs \ {r} : run'[q] = run[q] /\ total'[q] = total[q] /\ used'[q] = used[q]
      /\ run'[r].phase # "build"
  BY <1>2, <1>3, <1>4
<1>9. \A d \in Workers : RunOf(d) # r =>
        cl'[d] = cl[d] /\ echo'[d] = echo[d] /\ made'[d] = made[d] /\ codes'[d] = codes[d]
  <2>1. \A d \in Workers : RunOf(d) # r => d \notin u /\ d \in Clients
    BY <1>5, CrewFacts DEF ClientsInv
  <2>2. QED BY <1>2, <2>1
<1>10. QED BY <1>2, <1>4, <1>6, <1>7, <1>8, <1>9, OneRunMoves DEF ClientsInv

(* Every step keeps what is known of the runs.                             *)
LEMMA RunsRight ==
  ASSUME ClientsInv, UsedRight, RunsInv, [Next]_vars PROVE RunsInv'
<1>1. ASSUME NEW c \in Workers, IdleConnectionEnds(c) PROVE RunsInv'
  BY <1>1, RunsStutter DEF IdleConnectionEnds
<1>2. ASSUME NEW c \in Workers, Invoke(c) /\ UNCHANGED runVars PROVE RunsInv'
  BY <1>2, InvokeInRun
<1>3. CASE UNCHANGED vars
  <2>1. UNCHANGED <<cl, echo, runVars>>
    BY <1>3 DEF vars, runVars
  <2>2. QED BY <2>1, RunsStutter
<1>4. ASSUME NEW c \in Workers, ClientStep(c) \/ NewClient(c) \/ Built(c) \/ NotBuilt(c) PROVE RunsInv'
  BY <1>4, ClientStepInRun, NewClientInRun, BuiltInRun, NotBuiltInRun
<1>5. ASSUME NEW c \in Workers, Warmed(c) \/ Call(c) \/ Return(c) PROVE RunsInv'
  BY <1>5, WarmedInRun, CallInRun, ReturnInRun
<1>6. ASSUME NEW r \in RunIDs, RunStep(r) PROVE RunsInv'
  BY <1>6, RunFailsInRun, WarmUpInRun, StartCallsInRun, CollectInRun DEF RunStep
<1>7. QED BY <1>1, <1>2, <1>3, <1>4, <1>5, <1>6 DEF Next

-----------------------------------------------------------------------------
(* The initial states.                                                     *)

(* At first nobody has an address, and none was given.                     *)
LEMMA DnsStarts ==
  ASSUME Init PROVE DnsInv
<1>1. /\ method \in Methods /\ name \in [Resolvers -> Hosts]
      /\ dns = [host |-> NoHost, addrs |-> <<>>, rr |-> 0]
      /\ look = [c \in Resolvers |-> "none"] /\ loaded = [c \in Resolvers |-> 0]
      /\ dest = [c \in Resolvers |-> NoAddr] /\ handed = [a \in Addrs |-> 0]
  BY ConfFacts, RunsAssumption DEF Init, DnsInit
<1>2. DnsTypeOK
  BY <1>1 DEF DnsTypeOK, Looks
<1>3. CacheTrue /\ AddrOfName /\ \A c \in Resolvers : look[c] # "adding"
  BY <1>1 DEF CacheTrue, AddrOfName
<1>4. ASSUME NEW h \in Hosts PROVE InTurn(h)
  <2>1. PICK n \in Nat \ {0} : n = Len(Zone[h])
    BY ZoneFacts
  <2>2. 0 % n = 0 /\ 0 \div n = 0
    BY ZeroDivided
  <2>3. \A i \in 1 .. n : handed[Zone[h][i]] = 0
    BY <1>1, <2>1, ZoneFacts
  <2>4. dns.addrs = <<>> /\ dns.rr = 0
    BY <1>1
  <2>5. PICK q, a : q = 0 /\ a = 0 /\ q = (0 \div n) /\ a = (0 % n)
    BY <2>2
  <2>6. \A i \in 1 .. n : handed[Zone[h][i]] = q + IF i <= a THEN 1 ELSE 0
    BY <2>3, <2>5
  <2>7. \A i \in 1 .. n : handed[Zone[h][i]] = (0 \div n) + IF i <= (0 % n) THEN 1 ELSE 0
    BY <2>5, <2>6
  <2>8. QED BY <2>1, <2>4, <2>7 DEF InTurn
<1>5. QED BY <1>2, <1>3, <1>4 DEF DnsInv

(* At first no client has a socket.                                        *)
LEMMA ClientsStart ==
  ASSUME Init PROVE ClientsInv
<1>1. /\ conf \in Confs
      /\ net = [c \in Clients |-> NoConn] /\ cl = [c \in Clients |-> NewClientState]
      /\ fast \in [Clients -> {NewFast(n) : n \in conf.reuseRange}]
      /\ made = [c \in Clients |-> [warm |-> 0, calls |-> 0, failed |-> 0]]
  BY DEF Init, SocketsInit
<1>2. echo = [c \in Clients |-> [messages |-> 0, sent |-> 0, received |-> 0, got |-> <<>>,
                                 acked |-> 0, requests |-> 0, errors |-> 0]]
  BY DEF Init, EchoInit
<1>3. ASSUME NEW c \in Clients PROVE ClientRight(net[c], cl[c], fast[c], echo[c], made[c])
  <2>1. PICK x \in conf.reuseRange : fast[c] = NewFast(x)
    BY <1>1
  <2>2. PICK n : n = NoConn
    OBVIOUS
  <2>3. PICK m : m = NewClientState
    OBVIOUS
  <2>4. PICK f : f = NewFast(x)
    OBVIOUS
  <2>5. PICK e :
             e = [messages |-> 0, sent |-> 0, received |-> 0, got |-> <<>>, acked |-> 0, requests |-> 0, errors |-> 0]
    OBVIOUS
  <2>6. PICK k : k = [warm |-> 0, calls |-> 0, failed |-> 0]
    OBVIOUS
  <2>7. n \in NetRecords
    BY <2>2, NoConnTyped
  <2>8. m \in ClientRecords
    BY <2>3, ErrorIsNotOK DEF NewClientState, ClientRecords, Pcs, Codes
  <2>9. f \in FastRecords /\ Len(f.buf) = 0
    BY <2>4 DEF NewFast, FastRecords
  <2>10. e \in EchoRecords /\ Len(e.got) = 0
    BY <2>5 DEF EchoRecords
  <2>11. k \in MadeRecords
    BY <2>6 DEF MadeRecords
  <2>12. ClientTyped(n, m, f, e, k)
    BY <2>7, <2>8, <2>9, <2>10, <2>11, BufferAssumption, MessageAssumption DEF ClientTyped
  <2>13. Placed(n, m) /\ TriesRight(m) /\ StdRight(m) /\ EchoRight(m, e)
    BY <2>3 DEF NewClientState, Placed, TriesRight, StdRight, EchoRight
  <2>14. Explained(m, k)
    BY <2>3, <2>6 DEF NewClientState, Explained
  <2>15. CountsRight(m, f)
    BY <2>3, <2>4, ConfFacts, <1>1 DEF NewClientState, NewFast, CountsRight
  <2>16. FastRight(n, m, f)
    BY <2>3, <2>4, <2>15 DEF NewClientState, NewFast, FastRight
  <2>17. ClientRight(n, m, f, e, k)
    BY <2>12, <2>13, <2>14, <2>16 DEF ClientRight
  <2>18. n = net[c] /\ m = cl[c] /\ f = fast[c] /\ e = echo[c] /\ k = made[c]
    BY <1>1, <1>2, <2>1, <2>2, <2>3, <2>4, <2>5, <2>6
  <2>19. QED BY <2>17, <2>18
<1>4. \A v \in {net, cl, fast, echo, made} : DOMAIN v = Clients
  BY <1>1, <1>2
<1>5. QED BY <1>1, <1>3, <1>4 DEF ClientsInv

(* At first nothing was called.                                            *)
LEMMA RunsStart ==
  ASSUME Init PROVE RunsInv
<1>1. /\ conf \in Confs /\ cl = [c \in Clients |-> NewClientState]
      /\ run = [r \in RunIDs |-> [phase |-> "build", bad |-> FALSE]] /\ used = [r \in RunIDs |-> {}]
      /\ made = [c \in Clients |-> [warm |-> 0, calls |-> 0, failed |-> 0]]
      /\ codes = [c \in Clients |-> [ok |-> 0, bad |-> 0]] /\ DOMAIN total = RunIDs
      /\ echo = [c \in Clients |-> [messages |-> 0, sent |-> 0, received |-> 0, got |-> <<>>,
                                    acked |-> 0, requests |-> 0, errors |-> 0]]
  BY DEF Init, EchoInit
<1>2. [phase |-> "build", bad |-> FALSE] \in RunRecords
  BY DEF RunRecords
<1>3. ASSUME NEW c \in Workers
      PROVE  InRun(c, Phase(c), used[RunOf(c)], cl[c], echo[c], made[c], codes[c])
  <2>1. c \in Clients /\ RunOf(c) \in RunIDs
    BY <1>1, CrewFacts
  <2>2. PICK m, k, x, e :
          /\ m = NewClientState /\ k = [warm |-> 0, calls |-> 0, failed |-> 0] /\ x = [ok |-> 0, bad |-> 0]
          /\ e = [messages |-> 0, sent |-> 0, received |-> 0, got |-> <<>>, acked |-> 0, requests |-> 0, errors |-> 0]
    OBVIOUS
  <2>3. m.pc = "new" /\ ~Flying(m) /\ ~NotTaken(m)
    BY <2>2 DEF NewClientState, Flying, NotTaken
  <2>4. PhaseRight(c, "build", {}, m)
    BY <2>3 DEF PhaseRight
  <2>5. k.warm = 0 /\ k.calls = 0 /\ k.failed = 0 /\ Twice(k) = 0 /\ x.ok = 0 /\ x.bad = 0
    BY <2>2 DEF Twice
  <2>6. x \in [ok : Nat, bad : Nat]
    BY <2>2
  <2>7. CallsCounted(c, "build", {}, m, k, x)
    BY <2>3, <2>5, <2>6 DEF CallsCounted
  <2>8. KafkaCounted(m, e, k)
    BY <2>2, <2>3, <2>5 DEF KafkaCounted
  <2>9. Phase(c) = "build" /\ used[RunOf(c)] = {}
    BY <1>1, <2>1 DEF Phase
  <2>10. m = cl[c] /\ k = made[c] /\ x = codes[c] /\ e = echo[c]
    BY <1>1, <2>1, <2>2
  <2>11. QED BY <2>4, <2>7, <2>8, <2>9, <2>10 DEF InRun
<1>4. ASSUME NEW r \in RunIDs PROVE InOrder(r) /\ run[r].phase # "over"
  <2>1. \A d \in Crew(r) : cl[d].pc = "new"
    BY <1>1, CrewFacts DEF NewClientState
  <2>2. QED BY <1>1, <2>1 DEF InOrder
<1>5. run \in [RunIDs -> RunRecords] /\ DOMAIN codes = Clients
  BY <1>1, <1>2
<1>6. QED BY <1>1, <1>3, <1>4, <1>5 DEF RunsInv

-----------------------------------------------------------------------------
(* The result of a run that is over.                                       *)

(* What each client counted adds up to the result of a run that is over.   *)
LEMMA ResultOfRun ==
  ASSUME ClientsInv, UsedRight, RunsInv, NEW r \in RunIDs, run[r].phase = "over" PROVE Accounted(r)
<1> DEFINE S == Crew(r)
           T == Collected(r)
           oks == [c \in S |-> codes[c].ok]
           bads == [c \in S |-> codes[c].bad]
           calls == [c \in S |-> made[c].calls]
           failed == [c \in S |-> made[c].failed]
           again == [c \in S |-> IF Dynamic THEN made[c].failed ELSE 0]
           both == [c \in S |-> codes[c].ok + codes[c].bad]
           most == [c \in S |-> failed[c] + again[c]]
<1>1. IsFiniteSet(S) /\ T \subseteq S
  <2>1. IsFiniteSet(S)
    BY CrewFacts DEF ClientsInv
  <2>2. CASE IsHTTP \/ IsGRPC
    BY <2>1, <2>2 DEF Collected, UsedRight
  <2>3. CASE ~(IsHTTP \/ IsGRPC)
    BY <2>1, <2>3 DEF Collected
  <2>4. QED BY <2>1, <2>2, <2>3
<1>2. ASSUME NEW c \in S
      PROVE  /\ codes[c].ok \in Nat /\ codes[c].bad \in Nat /\ made[c].calls \in Nat /\ made[c].failed \in Nat
             /\ codes[c].ok + codes[c].bad = made[c].calls + (IF Dynamic THEN made[c].failed ELSE 0)
             /\ codes[c].bad <= made[c].failed + (IF Dynamic THEN made[c].failed ELSE 0)
             /\ c \notin T => codes[c].ok = 0 /\ codes[c].bad = 0
             /\ c \in T => ~cl[c].socket
             /\ conf.kind = "kafka" => echo[c].acked = made[c].warm + made[c].calls - made[c].failed
             /\ conf.kind = "kafka" /\ conf.collect => echo[c].requests = echo[c].acked /\ echo[c].errors = made[c].failed
  <2>1. PICK m \in ClientRecords, e \in EchoRecords, k \in MadeRecords, x \in [ok : Nat, bad : Nat], s \in {used[r]} :
          /\ m = cl[c] /\ e = echo[c] /\ k = made[c] /\ x = codes[c] /\ s = used[r]
          /\ InRun(c, "over", s, m, e, k, x)
    BY CrewParts
  <2>2. /\ PhaseRight(c, "over", s, m) /\ CallsCounted(c, "over", s, m, k, x)
        /\ conf.kind = "kafka" => KafkaCounted(m, e, k)
    BY <2>1 DEF InRun
  <2>3. c \in T <=> (IsHTTP \/ IsGRPC => c \in s)
    <3>1. CASE IsHTTP \/ IsGRPC
      BY <2>1, <3>1 DEF Collected
    <3>2. CASE ~(IsHTTP \/ IsGRPC)
      BY <3>2 DEF Collected
    <3>3. QED BY <3>1, <3>2
  <2>4. m.pc \in {"idle", "closed"} /\ ~Flying(m) /\ ~NotTaken(m) /\ (c \in T => ~m.socket)
    BY <2>2, <2>3 DEF PhaseRight, Flying, NotTaken
  <2>5. PICK warm \in Nat, n \in Nat, f \in Nat : warm = k.warm /\ n = k.calls /\ f = k.failed
    BY DEF MadeRecords
  <2>6. PICK ok \in Nat, bad \in Nat : ok = x.ok /\ bad = x.bad
    OBVIOUS
  <2>7. PICK twice \in Nat : twice = Twice(k) /\ twice = IF Dynamic THEN f ELSE 0
    BY <2>5 DEF Twice
  <2>8. ok + bad + 0 = n + twice /\ bad <= f + twice /\ (c \notin s => ok = 0 /\ bad = 0)
    BY <2>2, <2>4, <2>5, <2>6, <2>7 DEF CallsCounted
  <2>9. PICK acked \in Nat : acked = e.acked
    BY DEF EchoRecords
  <2>10. conf.kind = "kafka" =>
           /\ acked + f + 0 = warm + n
           /\ conf.collect => e.requests = e.acked /\ e.errors = f + 0
    BY <2>2, <2>4, <2>5, <2>9 DEF KafkaCounted
  <2>11. ok + bad = n + twice /\ (conf.kind = "kafka" => acked = warm + n - f /\ f + 0 = f)
    BY <2>8, <2>10
  <2>12. QED BY <2>1, <2>3, <2>4, <2>5, <2>6, <2>7, <2>8, <2>9, <2>10, <2>11
<1>3. /\ oks \in [S -> Nat] /\ bads \in [S -> Nat] /\ calls \in [S -> Nat] /\ failed \in [S -> Nat]
      /\ again \in [S -> Nat] /\ both \in [S -> Nat] /\ most \in [S -> Nat]
  <2>1. oks \in [S -> Nat] /\ bads \in [S -> Nat] /\ calls \in [S -> Nat] /\ failed \in [S -> Nat]
    BY <1>2
  <2>2. again \in [S -> Nat] /\ both \in [S -> Nat]
    BY <1>2
  <2>3. \A c \in S : most[c] \in Nat
    BY <2>1, <2>2
  <2>4. QED BY <2>1, <2>2, <2>3
<1>4. Totalled(r)
  BY DEF RunsInv
<1>5. total[r].ok = Tally(oks) /\ total[r].bad = Tally(bads)
  <2>1. (\A c \in S \ T : oks[c] = 0) /\ (\A c \in S \ T : bads[c] = 0) /\ T \in SUBSET S
    BY <1>1, <1>2
  <2>2. PICK g, h : g = [c \in T |-> codes[c].ok] /\ h = [c \in T |-> codes[c].bad]
    OBVIOUS
  <2>3. g \in [T -> Nat] /\ h \in [T -> Nat] /\ (\A c \in T : g[c] = oks[c]) /\ (\A c \in T : h[c] = bads[c])
    BY <1>1, <1>2, <2>2
  <2>4. PICK All, Part : All = S /\ Part = T /\ Part \in SUBSET All
    BY <2>1
  <2>5. PICK f \in [All -> Nat] : f = oks
    BY <1>3, <2>4
  <2>6. PICK k \in [All -> Nat] : k = bads
    BY <1>3, <2>4
  <2>7. g \in [Part -> Nat] /\ (\A c \in Part : g[c] = f[c]) /\ (\A c \in All \ Part : f[c] = 0)
    <3> HIDE DEF oks, bads, T, S
    <3>1. QED BY <2>1, <2>3, <2>4, <2>5
  <2>8. h \in [Part -> Nat] /\ (\A c \in Part : h[c] = k[c]) /\ (\A c \in All \ Part : k[c] = 0)
    <3> HIDE DEF oks, bads, T, S
    <3>1. QED BY <2>1, <2>3, <2>4, <2>6
  <2>9. Tally(g) = Tally(f)
    <3> HIDE DEF oks, bads, T, S
    <3>1. QED BY <2>4, <2>7, TallyZeros
  <2>10. Tally(h) = Tally(k)
    <3> HIDE DEF oks, bads, T, S
    <3>1. QED BY <2>4, <2>8, TallyZeros
  <2>11. QED BY <1>4, <2>2, <2>5, <2>6, <2>9, <2>10 DEF Totalled
<1>6. Tally(oks) \in Nat /\ Tally(bads) \in Nat /\ Tally(calls) \in Nat /\ Tally(failed) \in Nat /\ Tally(again) \in Nat
  <2> HIDE DEF oks, bads, calls, failed, again, S
  <2>1. QED BY <1>1, <1>3, TallyNat
<1>7. Tally(both) = Tally(oks) + Tally(bads)
  <2>1. \A c \in S : both[c] = oks[c] + bads[c]
    OBVIOUS
  <2> HIDE DEF oks, bads, both, S
  <2>2. QED BY <1>1, <1>3, <2>1, TallyPlus
<1>8. Tally(both) = Tally(calls) + Tally(again)
  <2>1. \A c \in S : both[c] = calls[c] + again[c]
    BY <1>2
  <2> HIDE DEF calls, again, both, S
  <2>2. QED BY <1>1, <1>3, <2>1, TallyPlus
<1>9. Tally(most) = Tally(failed) + Tally(again)
  <2>1. \A c \in S : most[c] = failed[c] + again[c]
    OBVIOUS
  <2> HIDE DEF failed, again, most, S
  <2>2. QED BY <1>1, <1>3, <2>1, TallyPlus
<1>10. Tally(bads) <= Tally(most)
  <2>1. \A c \in S : bads[c] <= most[c]
    BY <1>2
  <2> HIDE DEF bads, most, S
  <2>2. QED BY <1>1, <1>3, <2>1, TallyLess
<1>11. Tally(again) = IF Dynamic THEN Tally(failed) ELSE 0
  <2>1. CASE Dynamic
    <3>1. again = failed
      BY <2>1
    <3>2. QED BY <2>1, <3>1
  <2>2. CASE ~Dynamic
    <3>1. \A c \in S : again[c] = 0
      BY <2>2
    <3> HIDE DEF again, S
    <3>2. QED BY <1>3, <2>2, <3>1, TallyNone
  <2>3. QED BY <2>1, <2>2
<1>12. /\ total[r].ok + total[r].bad = Tally(calls) + (IF Dynamic THEN Tally(failed) ELSE 0)
       /\ total[r].bad <= Tally(failed) + (IF Dynamic THEN Tally(failed) ELSE 0)
  <2> HIDE DEF oks, bads, calls, failed, again, both, most
  <2>1. /\ Tally(oks) + Tally(bads) = Tally(calls) + Tally(again)
        /\ Tally(bads) <= Tally(failed) + Tally(again)
    BY <1>6, <1>7, <1>8, <1>9, <1>10
  <2>2. QED BY <1>5, <1>11, <2>1
<1>13. ASSUME conf.kind = "kafka"
       PROVE  /\ total[r].kafka.messages = Tally([c \in S |-> made[c].warm + made[c].calls - made[c].failed])
              /\ conf.collect => /\ total[r].kafka.requests = total[r].kafka.messages
                                 /\ total[r].kafka.errors = Tally(failed)
  <2>1. T = S
    BY <1>13 DEF Collected, IsHTTP, IsGRPC
  <2>2. /\ total[r].kafka.messages = Tally([c \in S |-> echo[c].acked])
        /\ total[r].kafka.requests = Tally([c \in S |-> echo[c].requests])
        /\ total[r].kafka.errors = Tally([c \in S |-> echo[c].errors])
    BY <1>4, <2>1 DEF Totalled, KafkaTotals
  <2>3. [c \in S |-> echo[c].acked] = [c \in S |-> made[c].warm + made[c].calls - made[c].failed]
    BY <1>2, <1>13
  <2>4. ASSUME conf.collect
        PROVE  [c \in S |-> echo[c].requests] = [c \in S |-> echo[c].acked] /\ [c \in S |-> echo[c].errors] = failed
    BY <1>2, <1>13, <2>4
  <2>5. QED BY <2>2, <2>3, <2>4
<1>14. \A c \in T : ~cl[c].socket
  BY <1>1, <1>2
<1>15. QED BY <1>12, <1>13, <1>14 DEF Accounted

-----------------------------------------------------------------------------
(* The inductive invariant holds, whatever the clients, the addresses of   *)
(* the names, the answers of the servers and the options of the runs.      *)
THEOREM Invariance == Spec => []IInv
<1>1. Init => IInv
  <2> SUFFICES ASSUME Init PROVE IInv
    OBVIOUS
  <2>1. UsedRight
    BY DEF Init, UsedRight
  <2>2. QED BY <2>1, ClientsStart, DnsStarts, RunsStart DEF IInv
<1>2. IInv /\ [Next]_vars => IInv'
  BY ClientsRight, UsedKept, DnsRight, RunsRight DEF IInv, ClientsInv
<1>3. QED BY <1>1, <1>2, PTL DEF Spec

(* Every variable has its type, and a client that holds a socket has a     *)
(* connection that is up.                                                  *)
THEOREM Typed == Spec => []TypeOK
<1>1. IInv => TypeOK
  <2> SUFFICES ASSUME IInv PROVE TypeOK
    OBVIOUS
  <2>1. DnsTypeOK
    BY DEF IInv, DnsInv
  <2>2. ASSUME NEW c \in Clients
        PROVE  /\ net[c].up \in BOOLEAN /\ net[c].end \in Ends
               /\ cl[c].socket => net[c].up
               /\ Len(fast[c].buf) <= BufferSize /\ Len(echo[c].got) <= MessageSize /\ fast[c].maxV \in Nat
    <3>1. PICK n \in NetRecords, m \in ClientRecords, f \in FastRecords, e \in EchoRecords, k \in MadeRecords :
            /\ n = net[c] /\ m = cl[c] /\ f = fast[c] /\ e = echo[c] /\ k = made[c]
            /\ ClientRight(n, m, f, e, k)
      BY PartsOf DEF IInv
    <3>2. n.up \in BOOLEAN /\ n.end \in Ends /\ f.maxV \in Nat
      BY DEF NetRecords, FastRecords
    <3>3. Len(f.buf) <= BufferSize /\ Len(e.got) <= MessageSize /\ (m.socket => n.up)
      BY <3>1 DEF ClientRight, ClientTyped, Placed
    <3>4. QED BY <3>1, <3>2, <3>3
  <2>3. QED BY <2>1, <2>2 DEF TypeOK
<1>2. QED BY <1>1, Invariance, PTL

(* A name is resolved to one of its addresses, though others replace what  *)
(* is cached between the look-up and its use; with cached-rr and one name, *)
(* to each in turn, whoever resolves at the same time.                     *)
THEOREM NamesRight == Spec => []NamesResolved
<1>1. IInv => NamesResolved
  BY DnsInvNames DEF IInv
<1>2. QED BY <1>1, Invariance, PTL

(* FastClient keeps no connection on which there is more of an answer to   *)
(* read, but when it warned of it; and reads the rest of one only then.    *)
THEOREM Kept == Spec => []KeptClean
<1>1. IInv => KeptClean
  <2> SUFFICES ASSUME IInv, conf.kind = "fast", NEW c \in Clients
               PROVE  /\ cl[c].socket /\ net[c].bytes # <<>> => fast[c].warned
                      /\ fast[c].rest => fast[c].warned
    BY DEF KeptClean
  <2>1. ClientRight(net[c], cl[c], fast[c], echo[c], made[c])
    BY DEF IInv, ClientsInv
  <2>2. (cl[c].socket => Leftover(net[c], fast[c])) /\ (fast[c].rest => fast[c].warned)
    BY <2>1 DEF ClientRight, FastRight
  <2>3. QED BY <2>2 DEF Leftover
<1>2. QED BY <1>1, Invariance, PTL

(* A code that is no error is that of the answer to this very request, on  *)
(* a connection that was used before too, but for one of which the client  *)
(* warned that it left something there; an echo is that of the message.    *)
THEOREM OwnAnswer == Spec => []AnswerIsOwn
<1>1. IInv => AnswerIsOwn
  <2> SUFFICES ASSUME IInv, NEW c \in Clients, At(c, "done"), cl[c].code # SocketError
               PROVE  /\ conf.kind = "fast" =>
                           /\ fast[c].buf # <<>>
                           /\ \/ cl[c].code = cl[c].served \/ conf.http10 \/ Len(fast[c].buf) < 2
                              \/ fast[c].rest /\ fast[c].warned
                      /\ conf.kind = "std" =>
                           cl[c].code = IF cl[c].whole \/ ~CodeIsOK(cl[c].served) THEN cl[c].served ELSE 204
                      /\ IsEcho => echo[c].got = Request(echo[c])
    BY DEF AnswerIsOwn
  <2>1. ClientRight(net[c], cl[c], fast[c], echo[c], made[c])
    BY DEF IInv, ClientsInv
  <2>2. conf.kind = "fast" => /\ fast[c].buf # <<>> /\ (fast[c].rest => fast[c].warned)
                              /\ fast[c].rest \/ CodeOwn(cl[c], fast[c])
    BY <2>1 DEF ClientRight, FastRight, At
  <2>3. conf.kind = "std" => StdRight(cl[c])
    BY <2>1 DEF ClientRight
  <2>4. IsEcho => echo[c].got = Request(echo[c])
    BY <2>1 DEF ClientRight, EchoRight, At
  <2>5. QED BY <2>2, <2>3, <2>4 DEF CodeOwn, StdRight, At
<1>2. QED BY <1>1, Invariance, PTL

(* No socket without a reason: of an echo client, or of FastClient when it *)
(* may keep its connections, all but the first follow a call that failed   *)
(* or a retry; none is used more often than was drawn, and the name is     *)
(* resolved once for each.                                                 *)
THEOREM SocketsCounted == Spec => []SocketsExplained
<1>1. IInv => SocketsExplained
  <2> SUFFICES ASSUME IInv, NEW c \in Clients
               PROVE  /\ IsEcho \/ PlainKept => cl[c].sockets <= 1 + made[c].failed + cl[c].retries
                      /\ cl[c].tries <= 2
                      /\ conf.kind = "fast" =>
                           /\ fast[c].connReuse # 0 => fast[c].reuseCount <= fast[c].connReuse
                           /\ Resting(c) =>
                                /\ cl[c].sockets = cl[c].connects + cl[c].unresolved
                                /\ cl[c].lookups = IF conf.reResolve /\ cl[c].sockets > 1 THEN cl[c].sockets ELSE 1
    BY DEF SocketsExplained, PlainKept
  <2>1. PICK n \in NetRecords, m \in ClientRecords, f \in FastRecords, e \in EchoRecords, k \in MadeRecords :
          /\ n = net[c] /\ m = cl[c] /\ f = fast[c] /\ e = echo[c] /\ k = made[c]
          /\ ClientRight(n, m, f, e, k)
    BY PartsOf DEF IInv
  <2>2. IsEcho \/ PlainKept => m.sockets <= 1 + k.failed + m.retries
    BY <2>1 DEF ClientRight, Explained
  <2>3. m.tries <= 2
    BY DEF ClientRecords
  <2>4. conf.kind = "fast" => CountsRight(m, f)
    BY <2>1 DEF ClientRight, FastRight
  <2>5. conf.kind = "fast" /\ f.connReuse # 0 => f.reuseCount <= f.connReuse
    BY <2>4 DEF CountsRight
  <2>6. conf.kind = "fast" /\ m.pc \in {"idle", "done"} => m.sockets = m.connects + m.unresolved + 0
    BY <2>4 DEF CountsRight
  <2>7. m.connects \in Nat /\ m.unresolved \in Nat
    BY DEF ClientRecords
  <2>8. conf.kind = "fast" /\ m.pc \in {"idle", "done"} => m.sockets = m.connects + m.unresolved
    BY <2>6, <2>7
  <2>9. conf.kind = "fast" /\ m.pc \in {"idle", "done"} =>
          m.lookups = IF conf.reResolve /\ m.sockets > 1 THEN m.sockets ELSE 1
    BY <2>4 DEF CountsRight
  <2>10. QED BY <2>1, <2>2, <2>3, <2>5, <2>8, <2>9 DEF Resting
<1>2. QED BY <1>1, Invariance, PTL

(* The result of a run is that of all its calls: what each client counted, *)
(* the warm-up's calls aside, the errors of dynamic gRPC methods twice,    *)
(* while Kafka's messages and metrics include the warm-up; no client that  *)
(* a run used holds a connection when it is over, and a Kafka run that     *)
(* failed has closed those it built.                                       *)
THEOREM ResultAddsUp == Spec => []AddsUp
<1>1. IInv => AddsUp
  <2> SUFFICES ASSUME IInv PROVE AddsUp
    OBVIOUS
  <2>1. ClientsInv /\ UsedRight /\ RunsInv
    BY DEF IInv
  <2>2. ASSUME NEW r \in RunIDs, run[r].phase = "failed", conf.kind = "kafka", NEW c \in Crew(r)
        PROVE  cl[c].pc \in {"new", "failed", "closed"}
    <3>1. PICK m, e, k, x, s : m = cl[c] /\ InRun(c, run[r].phase, s, m, e, k, x)
      BY <2>1, CrewParts
    <3>2. QED BY <2>2, <3>1 DEF InRun, PhaseRight
  <2>3. QED BY <2>1, <2>2, ResultOfRun DEF AddsUp
<1>2. QED BY <1>1, Invariance, PTL
=============================================================================
