--------------------------- MODULE ProxyModeProofs ---------------------------
(***************************************************************************)
(* For every set of ACKs, clients and listeners, every grant and every     *)
(* width of the integer: the invariants of ProxyMode, that leases only     *)
(* count down, that batches only move forward, and that all of it          *)
(* implements LeaseLedger.                                                 *)
(***************************************************************************)
EXTENDS ProxyMode, Option82Proofs

(* A number below the width is itself modulo the width. *)
LEMMA ModSmall == ASSUME NEW w \in Nat \ {0}, NEW x \in 0 .. w - 1 PROVE x % w = x
  OBVIOUS

(* A positive factor does not make a positive number smaller. *)
LEMMA FactorGrows == ASSUME NEW k \in Nat, NEW p \in Nat \ {0} PROVE k + 1 <= (k + 1) * p
<1>1. (k + 1) * p = (k + 1) * (p - 1) + (k + 1)
  OBVIOUS
<1>2. k + 1 \in Nat /\ p - 1 \in Nat
  OBVIOUS
<1>3. \A x, y \in Nat : x * y \in Nat
  OBVIOUS
<1>4. (k + 1) * (p - 1) \in Nat
  BY <1>2, <1>3
<1> QED
  BY <1>1, <1>4

(* A slot holds a lease or nothing, and the two are told apart by the ACK. *)
LEMMA LeaseIsNotNone == \A v \in Lease : v # NotALease /\ v.ack \in Ack
  BY NamesOK DEF Lease, NotALease

(* What a trim makes of a lease. *)
LEMMA TrimmedLease ==
  ASSUME NEW v \in Lease
  PROVE  /\ Trimmed(v) \in Lease
         /\ Trimmed(v).ack = v.ack
         /\ Trimmed(v).leaseTime <= v.leaseTime
         /\ v.isExpired => Trimmed(v) = v
         /\ Trimmed(v).isExpired /\ ~v.isExpired => v.leaseTime < Period /\ Trimmed(v).leaseTime = 0
         /\ ~Trimmed(v).isExpired => ~v.isExpired /\ v.leaseTime = Trimmed(v).leaseTime + Period
<1>1. CASE v.isExpired
  BY <1>1, SizesOK DEF Trimmed, Lease
<1>2. CASE ~v.isExpired /\ v.leaseTime < Period
  <2>1. Trimmed(v) = [v EXCEPT !.leaseTime = 0, !.isExpired = TRUE]
    BY <1>2 DEF Trimmed
  <2>2. Trimmed(v) = [ack |-> v.ack, rid |-> v.rid, leaseTime |-> 0, isExpired |-> TRUE]
    BY <2>1 DEF Lease
  <2>3. v.ack \in Ack /\ v.rid \in Rids /\ v.leaseTime \in Nat /\ 0 \in 0 .. Uint - 1
    BY SizesOK DEF Lease
  <2>4. Trimmed(v) \in Lease
    BY <2>2, <2>3 DEF Lease
  <2> QED
    BY <1>2, <2>2, <2>3, <2>4
<1>3. CASE ~v.isExpired /\ ~(v.leaseTime < Period)
  <2>1. v.leaseTime - Period \in 0 .. Uint - 1 /\ Uint \in Nat \ {0}
    BY <1>3, SizesOK DEF Lease
  <2>2. (v.leaseTime - Period) % Uint = v.leaseTime - Period
    BY <2>1, ModSmall
  <2>3. Trimmed(v) = [v EXCEPT !.leaseTime = v.leaseTime - Period]
    BY <1>3, <2>2 DEF Trimmed
  <2> QED
    BY <1>3, <2>1, <2>3, SizesOK DEF Lease
<1> QED
  BY <1>1, <1>2, <1>3

(* A step that is not about the table or the slice. *)
LEMMA TableStays ==
  ASSUME Accounting, NotAheadOfTable, SliceIsNewer, UNCHANGED <<entry, sched, toCopy, t, dispatched>>
  PROVE  /\ Accounting' /\ NotAheadOfTable' /\ SliceIsNewer'
         /\ Leased' = Leased /\ \A a : Held(a)' <=> Held(a)
<1>1. Leased' = Leased
  BY DEF Leased
<1>2. \A a : Held(a)' <=> Held(a)
  BY <1>1 DEF Held
<1>3. Accounting' /\ NotAheadOfTable'
  BY <1>1 DEF Accounting, NotAheadOfTable
<1>4. Drawn' = Drawn
  BY DEF Drawn
<1>5. SliceIsNewer'
  BY <1>2, <1>4 DEF SliceIsNewer, BringsUpToDate
<1> QED
  BY <1>1, <1>2, <1>3, <1>5

(* No step of ProxyMode breaks the inductive invariant. *)
LEMMA InvStep == IndInv /\ [Next]_vars => IndInv'
<1> SUFFICES ASSUME IndInv, [Next]_vars PROVE IndInv'
  OBVIOUS
<1> USE SizesOK, AcksOK, NamesOK DEF IndInv, Bookkeeping, TypeOK, listenerVars, trimVars,
      schedulerVars, At, Goto
<1>1. ASSUME NEW l \in Listener, NEW a \in Ack, ServeACK(l, a) PROVE IndInv'
  <2>1. /\ TypeOK' /\ LockDiscipline' /\ OneHandlerEach' /\ Loops'
        /\ UNCHANGED <<entry, sched, toCopy, t, dispatched>> /\ \A b \in Ack : Fresh(b)' => Fresh(b)
    BY <1>1 DEF ServeACK, TypeOK, LockDiscipline, OneHandlerEach, Loops, Leased, Fresh
  <2>2. Accounting' /\ NotAheadOfTable' /\ SliceIsNewer' /\ FreshIsUnknown'
    BY <2>1, TableStays DEF FreshIsUnknown
  <2> QED
    BY <2>1, <2>2
<1>2. ASSUME NEW l \in Listener, AddLeaseLock(l) PROVE IndInv'
  <2>1. /\ TypeOK' /\ LockDiscipline' /\ OneHandlerEach' /\ Loops'
        /\ UNCHANGED <<entry, sched, toCopy, t, dispatched>> /\ \A b \in Ack : Fresh(b)' => Fresh(b)
    BY <1>2 DEF AddLeaseLock, TypeOK, LockDiscipline, OneHandlerEach, Loops, Leased, Fresh
  <2>2. Accounting' /\ NotAheadOfTable' /\ SliceIsNewer' /\ FreshIsUnknown'
    BY <2>1, TableStays DEF FreshIsUnknown
  <2> QED
    BY <2>1, <2>2
<1>3. ASSUME NEW l \in Listener, AddLeaseStore(l) PROVE IndInv'
  <2>1. TypeOK'
    BY <1>3, LeaseIsNotNone DEF AddLeaseStore, TypeOK, Lease, Rids, Assignment, Leased, Granted, OneHandlerEach
  <2>2. LockDiscipline'
    BY <1>3, LeaseIsNotNone DEF AddLeaseStore, LockDiscipline, Granted, OneHandlerEach
  <2>3. Accounting'
    BY <1>3, LeaseIsNotNone DEF AddLeaseStore, Accounting, Leased, Granted, OneHandlerEach, LockDiscipline
  <2>4. OneHandlerEach'
    BY <1>3, LeaseIsNotNone DEF AddLeaseStore, OneHandlerEach, Granted
  <2>5. FreshIsUnknown'
    BY <1>3, LeaseIsNotNone DEF AddLeaseStore, FreshIsUnknown, Fresh, Held, Leased, OneHandlerEach, Granted
  <2>6. NotAheadOfTable'
    <3>1. serve[l].ack \in Ack /\ Fresh(serve[l].ack)
      BY <1>3 DEF AddLeaseStore, OneHandlerEach, Fresh
    <3>2. \A x \in t \cup dispatched : x.ack # serve[l].ack
      BY <3>1 DEF FreshIsUnknown
    <3>3. Granted(serve[l].ack) # NotALease /\ Granted(serve[l].ack).ack = serve[l].ack
      BY <3>1 DEF Granted, NotALease
    <3>4. entry' = [entry EXCEPT ![MacOf[serve[l].ack]] = Granted(serve[l].ack)]
      BY <1>3 DEF AddLeaseStore
    <3>5. ASSUME NEW x \in t \cup dispatched
          PROVE  LET m == MacOf[x.ack] IN
                 m \in Leased' /\ (entry'[m].ack = x.ack /\ x.expired => entry'[m].isExpired)
      <4>1. MacOf[x.ack] \in Leased
        BY DEF NotAheadOfTable
      <4>2. CASE MacOf[x.ack] = MacOf[serve[l].ack]
        BY <3>2, <3>3, <3>4, <4>1, <4>2 DEF Leased
      <4>3. CASE MacOf[x.ack] # MacOf[serve[l].ack]
        BY <3>4, <4>1, <4>3 DEF NotAheadOfTable, Leased
      <4> QED
        BY <4>2, <4>3
    <3> QED
      BY <1>3, <3>5 DEF AddLeaseStore, NotAheadOfTable
  <2>7. SliceIsNewer'
    BY SMTT(30), <1>3, LeaseIsNotNone DEF AddLeaseStore, SliceIsNewer, Drawn, Loops, BringsUpToDate, Held, Leased, Granted, OneHandlerEach, LockDiscipline, FreshIsUnknown, Fresh
  <2>8. Loops'
    <3>1. Granted(serve[l].ack) # NotALease /\ UNCHANGED <<trimVars, schedulerVars>>
      BY <1>3 DEF AddLeaseStore, OneHandlerEach, Granted, NotALease
    <3>2. Leased \subseteq Leased'
      BY <1>3, <3>1 DEF AddLeaseStore, Leased
    <3> QED
      BY <3>1, <3>2 DEF Loops
  <2> QED
    BY <2>1, <2>2, <2>3, <2>4, <2>5, <2>6, <2>7, <2>8
<1>4. ASSUME NEW l \in Listener, AddLeaseUnlock(l) PROVE IndInv'
  <2>1. /\ TypeOK' /\ LockDiscipline' /\ OneHandlerEach' /\ Loops'
        /\ UNCHANGED <<entry, sched, toCopy, t, dispatched>> /\ \A b \in Ack : Fresh(b)' => Fresh(b)
    BY <1>4 DEF AddLeaseUnlock, TypeOK, LockDiscipline, OneHandlerEach, Loops, Leased, Fresh
  <2>2. Accounting' /\ NotAheadOfTable' /\ SliceIsNewer' /\ FreshIsUnknown'
    BY <2>1, TableStays DEF FreshIsUnknown
  <2> QED
    BY <2>1, <2>2
<1>5. ASSUME NEW l \in Listener, AddLeasePrinted(l) PROVE IndInv'
  <2>1. /\ TypeOK' /\ LockDiscipline' /\ OneHandlerEach' /\ Loops'
        /\ UNCHANGED <<entry, sched, toCopy, t, dispatched>> /\ \A b \in Ack : Fresh(b)' => Fresh(b)
    BY <1>5 DEF AddLeasePrinted, TypeOK, LockDiscipline, OneHandlerEach, Loops, Leased, Fresh
  <2>2. Accounting' /\ NotAheadOfTable' /\ SliceIsNewer' /\ FreshIsUnknown'
    BY <2>1, TableStays DEF FreshIsUnknown
  <2> QED
    BY <2>1, <2>2
<1>6. CASE TrimTick
  <2>1. /\ TypeOK' /\ LockDiscipline' /\ OneHandlerEach' /\ Loops'
        /\ UNCHANGED <<entry, sched, toCopy, t, dispatched>> /\ \A b \in Ack : Fresh(b)' => Fresh(b)
    BY <1>6 DEF TrimTick, TypeOK, LockDiscipline, OneHandlerEach, Loops, Leased, Fresh
  <2>2. Accounting' /\ NotAheadOfTable' /\ SliceIsNewer' /\ FreshIsUnknown'
    BY <2>1, TableStays DEF FreshIsUnknown
  <2> QED
    BY <2>1, <2>2
<1>7. CASE TrimSelect
  <2>1. /\ TypeOK' /\ LockDiscipline' /\ OneHandlerEach' /\ Loops'
        /\ UNCHANGED <<entry, sched, toCopy, t, dispatched>> /\ \A b \in Ack : Fresh(b)' => Fresh(b)
    BY ZenonT(60), <1>7 DEF TrimSelect, TypeOK, LockDiscipline, OneHandlerEach, Loops, Leased, Fresh
  <2>2. Accounting' /\ NotAheadOfTable' /\ SliceIsNewer' /\ FreshIsUnknown'
    BY <2>1, TableStays DEF FreshIsUnknown
  <2> QED
    BY <2>1, <2>2
<1>8. CASE TrimLock
  <2>1. /\ TypeOK' /\ LockDiscipline' /\ OneHandlerEach' /\ Loops'
        /\ UNCHANGED <<entry, sched, toCopy, t, dispatched>> /\ \A b \in Ack : Fresh(b)' => Fresh(b)
    BY <1>8 DEF TrimLock, TypeOK, LockDiscipline, OneHandlerEach, Loops, Leased, Fresh
  <2>2. Accounting' /\ NotAheadOfTable' /\ SliceIsNewer' /\ FreshIsUnknown'
    BY <2>1, TableStays DEF FreshIsUnknown
  <2> QED
    BY <2>1, <2>2
<1>9. ASSUME NEW m \in MAC, TrimTake(m) PROVE IndInv'
  <2> DEFINE v == entry[m]
  <2>a. /\ m \in Leased /\ v \in Lease /\ Trimmed(v) \in Lease /\ Trimmed(v).ack = v.ack
        /\ sched # "range" /\ toCopy = {} /\ Drawn = t
    BY <1>9, TrimmedLease DEF TrimTake, Loops, Leased, LockDiscipline, Drawn
  <2>b. /\ entry' \in [MAC -> Lease \cup {NotALease}]
        /\ entry'[m] = Trimmed(v) /\ \A n \in MAC \ {m} : entry'[n] = entry[n]
        /\ UNCHANGED <<listenerVars, mutex, trim, trimTick, schedulerVars, main>>
    BY <1>9, <2>a DEF TrimTake
  <2>c. Leased' = Leased /\ \A n \in Leased : entry'[n].ack = entry[n].ack
    BY <2>a, <2>b, LeaseIsNotNone DEF Leased
  <2>d. \A a : Held(a)' <=> Held(a)
    BY <2>c DEF Held
  <2>1. TypeOK'
    BY <1>9, <2>b DEF TrimTake, TypeOK
  <2>2. LockDiscipline'
    BY <2>b DEF LockDiscipline
  <2>3. Accounting'
    <3> SUFFICES ASSUME NEW n \in Leased'
                 PROVE  LET w == entry'[n] IN
                        /\ MacOf[w.ack] = n
                        /\ w.leaseTime <= GrantOf[w.ack]
                        /\ w.isExpired => w.leaseTime = 0
                        /\ ~w.isExpired =>
                             \E k \in 0 .. GrantOf[w.ack] : w.leaseTime + k * Period = GrantOf[w.ack]
      BY DEF Accounting
    <3>1. CASE n # m
      BY <2>b, <2>c, <3>1 DEF Accounting, Leased
    <3>2. CASE n = m
      <4>1. MacOf[v.ack] = m /\ v.leaseTime <= GrantOf[v.ack] /\ (v.isExpired => v.leaseTime = 0)
        BY <2>a DEF Accounting
      <4>2. v.leaseTime \in Nat /\ Trimmed(v).leaseTime \in Nat /\ GrantOf[v.ack] \in Nat
        BY <2>a DEF Lease
      <4>3. ASSUME ~Trimmed(v).isExpired
            PROVE  \E k \in 0 .. GrantOf[v.ack] : Trimmed(v).leaseTime + k * Period = GrantOf[v.ack]
        <5>1. v.leaseTime = Trimmed(v).leaseTime + Period /\ ~v.isExpired
          BY <2>a, <4>3, TrimmedLease
        <5>2. PICK k \in 0 .. GrantOf[v.ack] : v.leaseTime + k * Period = GrantOf[v.ack]
          BY <2>a, <5>1 DEF Accounting
        <5>3. Trimmed(v).leaseTime + (k + 1) * Period = GrantOf[v.ack]
          BY <4>2, <5>1, <5>2
        <5>4. k + 1 <= (k + 1) * Period
          <6>1. k \in Nat /\ Period \in Nat \ {0}
            BY <4>2
          <6> QED
            BY <6>1, FactorGrows
        <5>5. k + 1 \in 0 .. GrantOf[v.ack]
          BY <4>2, <5>2, <5>3, <5>4
        <5> QED
          BY <5>3, <5>5
      <4>4. Trimmed(v).isExpired => Trimmed(v).leaseTime = 0
        BY <2>a, <4>1, TrimmedLease
      <4>5. Trimmed(v).leaseTime <= v.leaseTime
        BY <2>a, TrimmedLease
      <4> QED
        BY <2>a, <2>b, <3>2, <4>1, <4>2, <4>3, <4>4, <4>5
    <3> QED
      BY <3>1, <3>2
  <2>4. OneHandlerEach'
    BY <2>b DEF OneHandlerEach
  <2>5. FreshIsUnknown'
    BY <2>b, <2>d DEF FreshIsUnknown, Fresh
  <2>6. NotAheadOfTable'
    <3> SUFFICES ASSUME NEW x \in t \cup dispatched
                 PROVE  LET n == MacOf[x.ack] IN
                        n \in Leased' /\ (entry'[n].ack = x.ack /\ x.expired => entry'[n].isExpired)
      BY <2>b DEF NotAheadOfTable
    <3> DEFINE n == MacOf[x.ack]
    <3>1. n \in Leased /\ (entry[n].ack = x.ack /\ x.expired => entry[n].isExpired)
      BY DEF NotAheadOfTable
    <3>2. CASE n # m
      BY <2>b, <2>c, <3>1, <3>2 DEF Leased
    <3>3. CASE n = m
      <4>1. v.isExpired => Trimmed(v) = v
        BY <2>a, TrimmedLease
      <4> QED
        BY <2>a, <2>b, <2>c, <3>1, <3>3, <4>1
    <3> QED
      BY <3>2, <3>3
  <2>7. SliceIsNewer'
    <3>1. Drawn' = Drawn
      BY <2>a, <2>b DEF Drawn
    <3> QED
      BY <2>b, <2>d, <3>1 DEF SliceIsNewer, BringsUpToDate
  <2>8. Loops'
    <3>1. toTrim' \subseteq toTrim /\ UNCHANGED <<toCopy, trim, sched>>
      BY <1>9, <2>b DEF TrimTake
    <3> QED
      BY <2>c, <3>1 DEF Loops
  <2> QED
    BY <2>1, <2>2, <2>3, <2>4, <2>5, <2>6, <2>7, <2>8
<1>10. CASE TrimUnlock
  <2>1. /\ TypeOK' /\ LockDiscipline' /\ OneHandlerEach' /\ Loops'
        /\ UNCHANGED <<entry, sched, toCopy, t, dispatched>> /\ \A b \in Ack : Fresh(b)' => Fresh(b)
    BY <1>10 DEF TrimUnlock, TypeOK, LockDiscipline, OneHandlerEach, Loops, Leased, Fresh
  <2>2. Accounting' /\ NotAheadOfTable' /\ SliceIsNewer' /\ FreshIsUnknown'
    BY <2>1, TableStays DEF FreshIsUnknown
  <2> QED
    BY <2>1, <2>2
<1>11. CASE TrimPrinted
  <2>1. /\ TypeOK' /\ LockDiscipline' /\ OneHandlerEach' /\ Loops'
        /\ UNCHANGED <<entry, sched, toCopy, t, dispatched>> /\ \A b \in Ack : Fresh(b)' => Fresh(b)
    BY <1>11 DEF TrimPrinted, TypeOK, LockDiscipline, OneHandlerEach, Loops, Leased, Fresh
  <2>2. Accounting' /\ NotAheadOfTable' /\ SliceIsNewer' /\ FreshIsUnknown'
    BY <2>1, TableStays DEF FreshIsUnknown
  <2> QED
    BY <2>1, <2>2
<1>12. CASE Tick
  <2>1. /\ TypeOK' /\ LockDiscipline' /\ OneHandlerEach' /\ Loops'
        /\ UNCHANGED <<entry, sched, toCopy, t, dispatched>> /\ \A b \in Ack : Fresh(b)' => Fresh(b)
    BY <1>12 DEF Tick, TypeOK, LockDiscipline, OneHandlerEach, Loops, Leased, Fresh
  <2>2. Accounting' /\ NotAheadOfTable' /\ SliceIsNewer' /\ FreshIsUnknown'
    BY <2>1, TableStays DEF FreshIsUnknown
  <2> QED
    BY <2>1, <2>2
<1>13. CASE SchedulerTick
  <2>1. TypeOK'
    BY <1>13 DEF SchedulerTick, TypeOK, Lease, Assignment, Leased, Granted
  <2>2. LockDiscipline'
    BY <1>13 DEF SchedulerTick, LockDiscipline
  <2>3. Accounting'
    BY <1>13 DEF SchedulerTick, Accounting, Leased, Granted
  <2>4. OneHandlerEach'
    BY <1>13 DEF SchedulerTick, OneHandlerEach
  <2>5. FreshIsUnknown'
    BY <1>13 DEF SchedulerTick, FreshIsUnknown, Fresh, Held, Leased, OneHandlerEach
  <2>6. NotAheadOfTable'
    BY <1>13 DEF SchedulerTick, NotAheadOfTable, Leased
  <2>7. SliceIsNewer'
    BY <1>13 DEF SchedulerTick, SliceIsNewer, Drawn, Loops, BringsUpToDate, Held, Leased
  <2>8. Loops'
    BY <1>13 DEF SchedulerTick, Loops, Leased, LockDiscipline
  <2> QED
    BY <2>1, <2>2, <2>3, <2>4, <2>5, <2>6, <2>7, <2>8
<1>14. CASE SchedulerCount
  BY <1>14 DEF SchedulerCount, LockDiscipline, Accounting, OneHandlerEach, FreshIsUnknown, Fresh,
    NotAheadOfTable, SliceIsNewer, Drawn, Loops, BringsUpToDate, Held, Leased
<1>15. CASE SchedulerLock
  <2>a. /\ sched = "lock" /\ sched' = "range" /\ mutex = None /\ toCopy' = Leased
        /\ UNCHANGED <<listenerVars, entry, trimVars, tick, t, dispatched, main>>
    BY <1>15 DEF SchedulerLock
  <2>1. TypeOK'
    BY <1>15 DEF SchedulerLock, TypeOK, Leased
  <2>2. LockDiscipline'
    BY <1>15 DEF SchedulerLock, LockDiscipline
  <2>3. Accounting' /\ OneHandlerEach' /\ FreshIsUnknown' /\ NotAheadOfTable'
    BY <2>a DEF Accounting, OneHandlerEach, FreshIsUnknown, Fresh, Held, NotAheadOfTable, Leased
  <2>7. SliceIsNewer'
    <3>1. t = {} /\ Leased # {}
      BY <2>a DEF SliceIsNewer, Loops
    <3>2. Drawn' = {Copy(entry[m]) : m \in Leased}
      BY <2>a, <3>1 DEF Drawn
    <3>3. ASSUME NEW x \in dispatched PROVE \E y \in Drawn' : BringsUpToDate(x, y)
      <4> DEFINE m == MacOf[x.ack]
                 y == Copy(entry[m])
      <4>1. m \in Leased /\ (entry[m].ack = x.ack /\ x.expired => entry[m].isExpired)
        BY DEF NotAheadOfTable
      <4>2. y \in Drawn'
        BY <3>2, <4>1
      <4>3. y.ack = entry[m].ack /\ y.expired = entry[m].isExpired /\ MacOf[y.ack] = m
        BY <4>1 DEF Accounting, Copy
      <4>4. y.ack # x.ack => ~Held(x.ack)
        BY <4>1, <4>3 DEF Held, Accounting
      <4> QED
        BY <4>1, <4>2, <4>3, <4>4 DEF BringsUpToDate
    <3>4. Drawn' # {}
      BY <3>1, <3>2
    <3>5. \A a : Held(a)' <=> Held(a)
      BY <2>a DEF Held, Leased
    <3> QED
      BY <2>a, <3>3, <3>4, <3>5 DEF SliceIsNewer, BringsUpToDate
  <2>8. Loops'
    BY <1>15 DEF SchedulerLock, Loops, Leased, LockDiscipline
  <2> QED
    BY <2>1, <2>2, <2>3, <2>7, <2>8
<1>16. ASSUME NEW m \in MAC, SchedulerTake(m) PROVE IndInv'
  <2>a. /\ sched = "range" /\ sched' = sched /\ m \in toCopy /\ toCopy' = toCopy \ {m}
        /\ t' = t \cup {Copy(entry[m])}
        /\ UNCHANGED <<listenerVars, mutex, entry, trimVars, tick, dispatched, main>>
    BY <1>16 DEF SchedulerTake
  <2>b. m \in Leased /\ entry[m] \in Lease /\ MacOf[entry[m].ack] = m
    BY <2>a DEF Loops, Leased, Accounting
  <2>c. Copy(entry[m]) \in Assignment
    BY <2>b DEF Copy, Lease, Assignment
  <2>d. \A x \in t' \cup dispatched' : x \in t \cup dispatched \/ x = Copy(entry[m])
    BY <2>a
  <2>1. TypeOK'
    BY <2>a, <2>c DEF TypeOK
  <2>2. LockDiscipline' /\ Accounting' /\ OneHandlerEach'
    BY <2>a DEF LockDiscipline, Accounting, Leased, OneHandlerEach
  <2>5. FreshIsUnknown'
    <3>1. Held(entry[m].ack)
      BY <2>b DEF Held
    <3>2. \A a : (Held(a)' <=> Held(a)) /\ (Fresh(a)' <=> Fresh(a))
      BY <2>a DEF Held, Leased, Fresh
    <3>3. Copy(entry[m]).ack = entry[m].ack
      BY DEF Copy
    <3> QED
      BY <2>d, <3>1, <3>2, <3>3 DEF FreshIsUnknown
  <2>6. NotAheadOfTable'
    BY <2>a, <2>b, <2>d DEF NotAheadOfTable, Copy, Leased
  <2>7. SliceIsNewer'
    <3>1. Drawn' = Drawn
      BY <2>a DEF Drawn
    <3>2. \A a : Held(a)' <=> Held(a)
      BY <2>a DEF Held, Leased
    <3> QED
      BY <2>a, <3>1, <3>2 DEF SliceIsNewer, BringsUpToDate
  <2>8. Loops'
    BY <2>a DEF Loops, Leased
  <2> QED
    BY <2>1, <2>2, <2>5, <2>6, <2>7, <2>8
<1>17. CASE SchedulerUnlock
  <2>1. TypeOK'
    BY <1>17 DEF SchedulerUnlock, TypeOK, Lease, Assignment, Leased, Granted
  <2>2. LockDiscipline'
    BY <1>17 DEF SchedulerUnlock, LockDiscipline
  <2>3. Accounting'
    BY <1>17 DEF SchedulerUnlock, Accounting, Leased, Granted
  <2>4. OneHandlerEach'
    BY <1>17 DEF SchedulerUnlock, OneHandlerEach
  <2>5. FreshIsUnknown'
    BY <1>17 DEF SchedulerUnlock, FreshIsUnknown, Fresh, Held, Leased, OneHandlerEach
  <2>6. NotAheadOfTable'
    BY <1>17 DEF SchedulerUnlock, NotAheadOfTable, Leased
  <2>7. SliceIsNewer'
    BY <1>17 DEF SchedulerUnlock, SliceIsNewer, Drawn, Loops, BringsUpToDate, Held, Leased
  <2>8. Loops'
    BY <1>17 DEF SchedulerUnlock, Loops, Leased, LockDiscipline
  <2> QED
    BY <2>1, <2>2, <2>3, <2>4, <2>5, <2>6, <2>7, <2>8
<1>18. CASE SchedulerDispatch
  <2>1. TypeOK'
    BY <1>18 DEF SchedulerDispatch, TypeOK, Lease, Assignment, Leased, Granted, SliceIsNewer
  <2>2. LockDiscipline'
    BY <1>18 DEF SchedulerDispatch, LockDiscipline, SliceIsNewer
  <2>3. Accounting'
    BY <1>18 DEF SchedulerDispatch, Accounting, Leased, Granted, SliceIsNewer
  <2>4. OneHandlerEach'
    BY <1>18 DEF SchedulerDispatch, OneHandlerEach, SliceIsNewer
  <2>5. FreshIsUnknown'
    BY <1>18 DEF SchedulerDispatch, FreshIsUnknown, Fresh, Held, Leased, OneHandlerEach, SliceIsNewer
  <2>6. NotAheadOfTable'
    BY <1>18 DEF SchedulerDispatch, NotAheadOfTable, Leased, SliceIsNewer
  <2>7. SliceIsNewer'
    BY <1>18 DEF SchedulerDispatch, SliceIsNewer, Drawn, Loops, BringsUpToDate, Held, Leased
  <2>8. Loops'
    BY <1>18 DEF SchedulerDispatch, Loops, Leased, LockDiscipline
  <2> QED
    BY <2>1, <2>2, <2>3, <2>4, <2>5, <2>6, <2>7, <2>8
<1>19. CASE Interrupt
  <2>1. /\ TypeOK' /\ LockDiscipline' /\ OneHandlerEach' /\ Loops'
        /\ UNCHANGED <<entry, sched, toCopy, t, dispatched>> /\ \A b \in Ack : Fresh(b)' => Fresh(b)
    BY <1>19 DEF Interrupt, TypeOK, LockDiscipline, OneHandlerEach, Loops, Leased, Fresh
  <2>2. Accounting' /\ NotAheadOfTable' /\ SliceIsNewer' /\ FreshIsUnknown'
    BY <2>1, TableStays DEF FreshIsUnknown
  <2> QED
    BY <2>1, <2>2
<1>20. CASE SchedulerExit
  BY <1>20 DEF SchedulerExit, LockDiscipline, Accounting, OneHandlerEach, FreshIsUnknown, Fresh,
    NotAheadOfTable, SliceIsNewer, Drawn, Loops, BringsUpToDate, Held, Leased
<1>21. CASE TrimExit
  <2>1. /\ TypeOK' /\ LockDiscipline' /\ OneHandlerEach' /\ Loops'
        /\ UNCHANGED <<entry, sched, toCopy, t, dispatched>> /\ \A b \in Ack : Fresh(b)' => Fresh(b)
    BY <1>21 DEF TrimExit, TypeOK, LockDiscipline, OneHandlerEach, Loops, Leased, Fresh
  <2>2. Accounting' /\ NotAheadOfTable' /\ SliceIsNewer' /\ FreshIsUnknown'
    BY <2>1, TableStays DEF FreshIsUnknown
  <2> QED
    BY <2>1, <2>2
<1>22. CASE Exit
  <2>1. /\ TypeOK' /\ LockDiscipline' /\ OneHandlerEach' /\ Loops'
        /\ UNCHANGED <<entry, sched, toCopy, t, dispatched>> /\ \A b \in Ack : Fresh(b)' => Fresh(b)
    BY <1>22 DEF Exit, TypeOK, LockDiscipline, OneHandlerEach, Loops, Leased, Fresh
  <2>2. Accounting' /\ NotAheadOfTable' /\ SliceIsNewer' /\ FreshIsUnknown'
    BY <2>1, TableStays DEF FreshIsUnknown
  <2> QED
    BY <2>1, <2>2
<1>23. CASE Fatal
  <2>1. /\ TypeOK' /\ LockDiscipline' /\ OneHandlerEach' /\ Loops'
        /\ UNCHANGED <<entry, sched, toCopy, t, dispatched>> /\ \A b \in Ack : Fresh(b)' => Fresh(b)
    BY <1>23 DEF Fatal, TypeOK, LockDiscipline, OneHandlerEach, Loops, Leased, Fresh
  <2>2. Accounting' /\ NotAheadOfTable' /\ SliceIsNewer' /\ FreshIsUnknown'
    BY <2>1, TableStays DEF FreshIsUnknown
  <2> QED
    BY <2>1, <2>2
<1>24. ASSUME NEW l \in Listener, NEW a \in Ack, AddLeasePanics(l, a) PROVE IndInv'
  <2>1. /\ TypeOK' /\ LockDiscipline' /\ OneHandlerEach' /\ Loops'
        /\ UNCHANGED <<entry, sched, toCopy, t, dispatched>> /\ \A b \in Ack : Fresh(b)' => Fresh(b)
    BY <1>24 DEF AddLeasePanics, TypeOK, LockDiscipline, OneHandlerEach, Loops, Leased, Fresh
  <2>2. Accounting' /\ NotAheadOfTable' /\ SliceIsNewer' /\ FreshIsUnknown'
    BY <2>1, TableStays DEF FreshIsUnknown
  <2> QED
    BY <2>1, <2>2
<1>25. CASE UNCHANGED vars
  <2>1. /\ TypeOK' /\ LockDiscipline' /\ OneHandlerEach' /\ Loops'
        /\ UNCHANGED <<entry, sched, toCopy, t, dispatched>> /\ \A b \in Ack : Fresh(b)' => Fresh(b)
    BY <1>25 DEF vars, TypeOK, LockDiscipline, OneHandlerEach, Loops, Leased, Fresh
  <2>2. Accounting' /\ NotAheadOfTable' /\ SliceIsNewer' /\ FreshIsUnknown'
    BY <2>1, TableStays DEF FreshIsUnknown
  <2> QED
    BY <2>1, <2>2
<1> QED
  BY <1>1, <1>2, <1>3, <1>4, <1>5, <1>6, <1>7, <1>8, <1>9, <1>10, <1>11, <1>12,
    <1>13, <1>14, <1>15, <1>16, <1>17, <1>18, <1>19, <1>20, <1>21, <1>22, <1>23, <1>24, <1>25
    DEF Next, Live, Running, Stopped, AddLease, RunTrim, RunScheduler

(* The inductive invariant holds in every state of every behaviour. *)
THEOREM InvCorrect == Spec => []IndInv
<1>1. Init => IndInv
  <2> SUFFICES ASSUME Init PROVE IndInv
    OBVIOUS
  <2>1. Leased = {}
    BY DEF Init, Leased
  <2>2. \A l \in Listener : At(l, "read")
    BY DEF Init, At
  <2>3. TypeOK
    BY AcksOK, NamesOK DEF Init, TypeOK
  <2>4. LockDiscipline
    BY <2>2, NamesOK DEF Init, LockDiscipline
  <2>5. Accounting /\ OneHandlerEach /\ FreshIsUnknown /\ NotAheadOfTable /\ SliceIsNewer /\ Loops
    BY <2>1, <2>2 DEF Init, Accounting, OneHandlerEach, FreshIsUnknown, Held,
       NotAheadOfTable, SliceIsNewer, Loops
  <2> QED
    BY <2>3, <2>4, <2>5 DEF IndInv, Bookkeeping
<1> QED
  BY <1>1, InvStep, PTL DEF Spec

(* The variables keep to their sets: no lease time leaves the uint32's      *)
(* range, and every slot holds a whole lease or none.                       *)
THEOREM TypeCorrect == Spec => []TypeOK
  BY InvCorrect, PTL DEF IndInv

(* leaseTable.mutex is with exactly the goroutine between Lock and Unlock.  *)
THEOREM LockDisciplineHolds == Spec => []LockDiscipline
  BY InvCorrect, PTL DEF IndInv

(* A live lease's time is the granted time less whole trims, an expired     *)
(* one's is zero: leaseTime -= 10 never wraps (proxy_lease.go:90-98).       *)
THEOREM AccountingHolds == Spec => []Accounting
  BY InvCorrect, PTL DEF IndInv

(* A step never makes a lease grow, live again, or vanish from the table,   *)
(* except by storing another ACK.                                           *)
LEMMA CountsDownStep == IndInv /\ [Next]_vars => [StepCountsDown]_vars
<1> SUFFICES ASSUME IndInv, Next, NEW m \in Leased
             PROVE  /\ m \in Leased'
                    /\ entry'[m].ack = entry[m].ack =>
                         /\ entry'[m].leaseTime <= entry[m].leaseTime
                         /\ entry[m].isExpired => entry'[m].isExpired
                         /\ entry'[m].isExpired /\ ~entry[m].isExpired => entry[m].leaseTime < Period
  BY DEF StepCountsDown
<1>1. entry[m] \in Lease /\ entry[m].leaseTime \in Nat
  BY DEF IndInv, TypeOK, Leased, Lease
<1>2. CASE entry'[m] = entry[m]
  BY <1>1, <1>2 DEF Leased
<1>3. ASSUME NEW n \in MAC, TrimTake(n)
      PROVE  /\ m \in Leased'
             /\ entry'[m].ack = entry[m].ack =>
                  /\ entry'[m].leaseTime <= entry[m].leaseTime
                  /\ entry[m].isExpired => entry'[m].isExpired
                  /\ entry'[m].isExpired /\ ~entry[m].isExpired => entry[m].leaseTime < Period
  <2>1. m \in MAC /\ entry' = [entry EXCEPT ![n] = Trimmed(entry[n])] /\ m \in DOMAIN entry
    BY <1>3 DEF TrimTake, Leased, IndInv, TypeOK
  <2>2. CASE m = n
    <3>1. entry'[m] = Trimmed(entry[m])
      BY <2>1, <2>2
    <3> QED
      BY <1>1, <2>1, <3>1, TrimmedLease, LeaseIsNotNone DEF Leased
  <2>3. CASE m # n
    <3>1. entry'[m] = entry[m]
      BY <2>1, <2>3
    <3> QED
      BY <1>2, <3>1
  <2> QED
    BY <2>2, <2>3
<1>4. ASSUME NEW l \in Listener, AddLeaseStore(l), MacOf[serve[l].ack] = m
      PROVE  m \in Leased' /\ entry'[m].ack # entry[m].ack
  <2>1. serve[l].ack \in Ack /\ Fresh(serve[l].ack)
    BY <1>4 DEF IndInv, Bookkeeping, AddLeaseStore, At, OneHandlerEach, Fresh
  <2>2. entry[m].ack # serve[l].ack
    BY <2>1 DEF IndInv, Bookkeeping, FreshIsUnknown, Held
  <2>3. entry'[m] = Granted(serve[l].ack)
    BY <1>4 DEF AddLeaseStore, IndInv, TypeOK, Leased
  <2> QED
    BY <2>1, <2>2, <2>3, NamesOK DEF Granted, Leased, NotALease
<1>5. ASSUME NEW l \in Listener, AddLeaseStore(l), MacOf[serve[l].ack] # m
      PROVE  entry'[m] = entry[m]
  BY <1>5 DEF AddLeaseStore, IndInv, TypeOK, Leased
<1>6. CASE UNCHANGED entry
  BY <1>2, <1>6
<1> QED
  BY <1>2, <1>3, <1>4, <1>5, <1>6
  DEF Next, Live, Running, Stopped, AddLease, RunTrim, RunScheduler, vars, trimVars, ServeACK,
      AddLeasePanics, AddLeaseLock, AddLeaseUnlock, AddLeasePrinted, TrimTick, TrimSelect, TrimLock, TrimUnlock,
      TrimPrinted, Tick, SchedulerTick, SchedulerCount, SchedulerLock, SchedulerTake,
      SchedulerUnlock, SchedulerDispatch, Interrupt, SchedulerExit, TrimExit, Exit, Fatal

(* Leases only count down (proxy_lease.go:89-103), whatever ACKs arrive.    *)
THEOREM CountsDownHolds == Spec => CountsDown
  BY InvCorrect, CountsDownStep, PTL DEF Spec, CountsDown

(* The batch that is dispatched brings the last one up to date. *)
LEMMA MovesForwardStep == IndInv /\ [Next]_vars => [StepMovesForward]_vars
<1> SUFFICES ASSUME IndInv, Next PROVE StepMovesForward
  OBVIOUS
<1>1. CASE SchedulerDispatch
  <2>1. Drawn = t
    BY <1>1 DEF SchedulerDispatch, IndInv, Bookkeeping, Loops, Drawn
  <2> QED
    BY <1>1, <2>1 DEF SchedulerDispatch, StepMovesForward, IndInv, Bookkeeping, SliceIsNewer
<1>2. CASE UNCHANGED dispatched
  BY <1>2 DEF StepMovesForward, BringsUpToDate
<1> QED
  BY <1>1, <1>2
  DEF Next, Live, Running, Stopped, AddLease, RunTrim, RunScheduler, vars, schedulerVars, ServeACK,
      AddLeasePanics, AddLeaseLock, AddLeaseStore, AddLeaseUnlock, AddLeasePrinted, TrimTick, TrimSelect, TrimLock,
      TrimTake, TrimUnlock, TrimPrinted, Tick, SchedulerTick, SchedulerCount, SchedulerLock,
      SchedulerTake, SchedulerUnlock, Interrupt, SchedulerExit, TrimExit, Exit, Fatal

(* What the proxy tells Sonar of a client never goes back: not to a lease   *)
(* that was replaced, nor to life after expiry (batch_scheduler.go:112-127). *)
THEOREM BatchesMoveForwardHolds == Spec => BatchesMoveForward
  BY InvCorrect, MovesForwardStep, PTL DEF Spec, BatchesMoveForward

(* An ACK is handled by one listener, none is forgotten between table and   *)
(* batch: what makes the safety properties inductive holds.                 *)
THEOREM BookkeepingHolds == Spec => []Bookkeeping
  BY InvCorrect, PTL DEF IndInv

(* What a listener handles, addLease survived: it panics before it locks.   *)
LEMMA HandledIsReadStep == TypeOK /\ HandledIsRead /\ [Next]_vars => HandledIsRead'
<1> SUFFICES ASSUME TypeOK, HandledIsRead, [Next]_vars PROVE HandledIsRead'
  OBVIOUS
<1>0. serve \in [Listener -> [pc : {"read", "lock", "store", "unlock", "print"}, ack : Ack \cup {None}]]
  BY DEF TypeOK
<1>1. CASE UNCHANGED serve
  BY <1>1 DEF HandledIsRead, At
<1>2. ASSUME NEW l \in Listener, NEW a \in Ack, ServeACK(l, a) PROVE HandledIsRead'
  BY <1>0, <1>2 DEF ServeACK, HandledIsRead, At
<1>3. ASSUME NEW l \in Listener, AddLease(l) PROVE HandledIsRead'
  <2>1. \A k \in Listener : ~At(k, "read")' => ~At(k, "read") /\ serve'[k].ack = serve[k].ack
    BY <1>0, <1>3 DEF AddLease, AddLeaseLock, AddLeaseStore, AddLeaseUnlock, AddLeasePrinted, Goto, At
  <2> QED
    BY <2>1 DEF HandledIsRead
<1> QED
  BY <1>1, <1>2, <1>3
  DEF Next, Live, Running, Stopped, RunTrim, RunScheduler, vars, listenerVars, AddLeasePanics, TrimTick,
      TrimSelect, TrimLock, TrimTake, TrimUnlock, TrimPrinted, Tick, SchedulerTick, SchedulerCount,
      SchedulerLock, SchedulerTake, SchedulerUnlock, SchedulerDispatch, Interrupt, SchedulerExit, TrimExit,
      Exit, Fatal

(* The remote id of an ACK goes with it into the table, through every trim, *)
(* and from the table into every batch.                                     *)
LEMMA RidsFollowStep == IndInv /\ HandledIsRead /\ RidsFollow /\ [Next]_vars => RidsFollow'
<1> SUFFICES ASSUME IndInv, HandledIsRead, RidsFollow, [Next]_vars PROVE RidsFollow'
  OBVIOUS
<1>0. entry \in [MAC -> Lease \cup {NotALease}]
  BY DEF IndInv, TypeOK
<1>1. CASE UNCHANGED <<entry, t, dispatched>>
  BY <1>1 DEF RidsFollow, Leased
<1>2. ASSUME NEW l \in Listener, AddLeaseStore(l) PROVE RidsFollow'
  <2> DEFINE c == MacOf[serve[l].ack]
  <2>1. entry' = [entry EXCEPT ![c] = Granted(serve[l].ack)] /\ UNCHANGED <<t, dispatched>>
    BY <1>2 DEF AddLeaseStore, schedulerVars
  <2>2. ASSUME NEW m \in Leased' PROVE ~Panics(Option(entry'[m].ack)) /\ entry'[m].rid = Rid(Option(entry'[m].ack))
    <3>1. m \in MAC
      BY <2>2 DEF Leased
    <3>2. CASE m = c
      <4>1. ~Panics(Option(serve[l].ack))
        BY <1>2 DEF AddLeaseStore, At, HandledIsRead
      <4> QED
        BY <1>0, <2>1, <3>1, <3>2, <4>1 DEF Granted
    <3>3. CASE m # c
      BY <1>0, <2>1, <2>2, <3>1, <3>3 DEF RidsFollow, Leased
    <3> QED
      BY <3>2, <3>3
  <2> QED
    BY <2>1, <2>2 DEF RidsFollow
<1>3. ASSUME NEW n \in MAC, TrimTake(n) PROVE RidsFollow'
  <2>1. entry' = [entry EXCEPT ![n] = Trimmed(entry[n])] /\ UNCHANGED <<t, dispatched>> /\ n \in Leased
    BY <1>3 DEF TrimTake, schedulerVars, IndInv, Bookkeeping, Loops
  <2>2. ASSUME NEW m \in Leased' PROVE ~Panics(Option(entry'[m].ack)) /\ entry'[m].rid = Rid(Option(entry'[m].ack))
    <3>1. m \in MAC /\ m \in Leased
      BY <1>0, <2>1, <2>2 DEF Leased
    <3>2. entry[m] \in Lease
      BY <1>0, <3>1 DEF Leased
    <3>3. Trimmed(entry[m]).ack = entry[m].ack /\ Trimmed(entry[m]).rid = entry[m].rid
      BY <3>2 DEF Trimmed, Lease
    <3>4. entry'[m] = IF m = n THEN Trimmed(entry[m]) ELSE entry[m]
      BY <1>0, <2>1, <3>1
    <3> QED
      BY <3>1, <3>3, <3>4 DEF RidsFollow
  <2> QED
    BY <2>1, <2>2 DEF RidsFollow
<1>4. ASSUME NEW n \in MAC, SchedulerTake(n) PROVE RidsFollow'
  <2>1. t' = t \cup {Copy(entry[n])} /\ UNCHANGED <<entry, dispatched>> /\ n \in Leased
    BY <1>4 DEF SchedulerTake, IndInv, Bookkeeping, Loops
  <2> QED
    BY <2>1 DEF RidsFollow, Copy, Leased
<1>5. CASE SchedulerDispatch
  BY <1>5 DEF SchedulerDispatch, RidsFollow, Leased
<1> QED
  BY <1>1, <1>2, <1>3, <1>4, <1>5
  DEF Next, Live, Running, Stopped, AddLease, RunTrim, RunScheduler, vars, schedulerVars, ServeACK,
      AddLeasePanics, AddLeaseLock, AddLeaseUnlock, AddLeasePrinted, TrimTick, TrimSelect, TrimLock,
      TrimUnlock, TrimPrinted, Tick, SchedulerTick, SchedulerCount, SchedulerLock, SchedulerUnlock,
      Interrupt, SchedulerExit, TrimExit, Exit, Fatal

(* Of every option of at most three sub-options that fits, whatever their   *)
(* codes, order and lengths, Sonar is told what is behind the second        *)
(* header, and no batch has a client whose option had a lone sub-option     *)
(* (proxy_lease.go:48-54, batch_scheduler.go:115-119).                      *)
THEOREM SecondValueReportedHolds == Spec => []SecondValueReported
<1>1. Init => HandledIsRead /\ RidsFollow
  BY DEF Init, HandledIsRead, RidsFollow, Leased, At
<1>2. IndInv /\ RidsFollow => SecondValueReported
  <2> SUFFICES ASSUME IndInv, RidsFollow, NEW x \in t \cup dispatched
               PROVE  ~Lone(AgentOf[x.ack]) /\ x.RemoteID = BehindSecondHeader(AgentOf[x.ack])
    BY DEF SecondValueReported
  <2>1. x.ack \in Ack
    BY DEF IndInv, TypeOK, Assignment
  <2>2. IsAgentOption(AgentOf[x.ack])
    BY <2>1, AgentsOK
  <2>3. ~Panics(Octets(AgentOf[x.ack])) /\ x.RemoteID = Rid(Octets(AgentOf[x.ack]))
    BY DEF RidsFollow, Option
  <2> QED
    BY <2>2, <2>3, OptionRead
<1>3. IndInv => TypeOK
  BY DEF IndInv
<1> QED
  BY InvCorrect, <1>1, <1>2, <1>3, HandledIsReadStep, RidsFollowStep, PTL DEF Spec

------------------------------------------------------------------------------
(* What the ledger sees of a lease. *)
Seen(v) == [ack |-> v.ack, left |-> v.leaseTime, expired |-> v.isExpired]

(* A trim of a lease, which wraps nowhere and leaves an expired one alone,  *)
(* is what the ledger makes of it.                                          *)
LEMMA TrimmedIsAged ==
  ASSUME NEW v \in Lease, v.isExpired => v.leaseTime = 0
  PROVE  Ledger!Aged(Seen(v)) = Seen(Trimmed(v))
<1>1. v.leaseTime \in 0 .. Uint - 1 /\ v.isExpired \in BOOLEAN
  BY DEF Lease
<1>2. CASE v.isExpired
  <2>1. Trimmed(v) = v /\ v.leaseTime < Period /\ v.isExpired = TRUE
    BY <1>1, <1>2, SizesOK DEF Trimmed
  <2> QED
    BY <1>2, <2>1 DEF Ledger!Aged, Seen
<1>3. CASE ~v.isExpired /\ v.leaseTime < Period
  <2>1. Trimmed(v) = [v EXCEPT !.leaseTime = 0, !.isExpired = TRUE]
    BY <1>3 DEF Trimmed
  <2>2. Trimmed(v).ack = v.ack /\ Trimmed(v).leaseTime = 0 /\ Trimmed(v).isExpired = TRUE
    BY <2>1 DEF Lease
  <2> QED
    BY <1>3, <2>2 DEF Ledger!Aged, Seen
<1>4. CASE ~v.isExpired /\ ~(v.leaseTime < Period)
  <2>1. v.leaseTime - Period \in 0 .. Uint - 1 /\ Uint \in Nat \ {0}
    BY <1>1, <1>4, SizesOK
  <2>2. (v.leaseTime - Period) % Uint = v.leaseTime - Period
    BY <2>1, ModSmall
  <2>3. Trimmed(v) = [v EXCEPT !.leaseTime = v.leaseTime - Period]
    BY <1>4, <2>2 DEF Trimmed
  <2>4. Trimmed(v).ack = v.ack /\ Trimmed(v).isExpired = v.isExpired
        /\ Trimmed(v).leaseTime = v.leaseTime - Period
    BY <2>3 DEF Lease
  <2> QED
    BY <1>4, <2>4 DEF Ledger!Aged, Seen
<1> QED
  BY <1>1, <1>2, <1>3, <1>4

(* What the ledger sees of a client that trim's loop has left behind.       *)
LEMMA LedgerLeaseIs ==
  ASSUME NEW m
  PROVE  /\ m \in toTrim => LedgerLease(m) = Seen(Trimmed(entry[m]))
         /\ m \notin toTrim => LedgerLease(m) = Seen(entry[m])
  BY DEF LedgerLease, Seen

(* A step that leaves the table, the loops and the batches alone is none of *)
(* the ledger's.                                                            *)
LEMMA LedgerStays ==
  ASSUME UNCHANGED <<entry, toTrim, toCopy, t, dispatched>>, \A a \in Ack : Fresh(a)' <=> Fresh(a)
  PROVE  UNCHANGED Ledger!vars
<1>1. Leased' = Leased /\ Drawn' = Drawn
  BY DEF Leased, Drawn
<1>2. \A m : LedgerLease(m)' = LedgerLease(m)
  BY DEF LedgerLease
<1> QED
  BY <1>1, <1>2 DEF Ledger!vars

(* Every step is a step of the ledger, or none. *)
LEMMA LedgerStep == IndInv /\ [Next]_vars => [Ledger!Next]_(Ledger!vars)
<1> SUFFICES ASSUME IndInv, [Next]_vars PROVE Ledger!Next \/ UNCHANGED Ledger!vars
  OBVIOUS
<1> USE DEF IndInv, Bookkeeping, listenerVars, trimVars, schedulerVars, At, Goto
<1> DEFINE coming == {a \in Ack : Fresh(a)}
           held == {LedgerLease(m) : m \in Leased}
           drawn == {Said(x) : x \in Drawn}
           told == {Said(x) : x \in dispatched}
<1>1. ASSUME NEW l \in Listener, AddLeaseStore(l) PROVE Ledger!Next
  <2> DEFINE a == serve[l].ack
             c == MacOf[a]
  <2>1. /\ a \in Ack /\ c \in MAC /\ Fresh(a) /\ toTrim = {} /\ toCopy = {}
        /\ entry \in [MAC -> Lease \cup {NotALease}]
    BY <1>1, AcksOK, NamesOK DEF AddLeaseStore, OneHandlerEach, Fresh, LockDiscipline, Loops, TypeOK
  <2>2. /\ entry' = [entry EXCEPT ![c] = Granted(a)] /\ serve' = [serve EXCEPT ![l].pc = "unlock"]
        /\ UNCHANGED <<waiting, mutex, trimVars, schedulerVars, main>>
    BY <1>1 DEF AddLeaseStore
  <2>3. Granted(a).ack = a /\ Granted(a) # NotALease /\ Seen(Granted(a)) = Ledger!Granted(a)
    BY <2>1, NamesOK DEF Granted, NotALease, Seen, Ledger!Granted
  <2>4. coming' = coming \ {a}
    <3>1. ASSUME NEW b \in Ack PROVE Fresh(b)' <=> Fresh(b) /\ b # a
      <4>1. \A k \in Listener : k # l => serve'[k] = serve[k]
        BY <2>2 DEF TypeOK
      <4>2. serve'[l].pc = "unlock" /\ serve[l].pc = "store"
        BY <1>1, <2>2 DEF TypeOK, AddLeaseStore
      <4>3. \A k \in Listener : serve[k].pc \in {"lock", "store"} /\ serve[k].ack = a => k = l
        BY <4>2 DEF OneHandlerEach
      <4>4. a \notin waiting
        BY <4>2 DEF OneHandlerEach
      <4> QED
        BY <2>2, <4>1, <4>2, <4>3, <4>4 DEF Fresh
    <3> QED
      BY <3>1
  <2>5. held' = {v \in held : MacOf[v.ack] # c} \cup {Ledger!Granted(a)}
    <3>1. Leased' = Leased \cup {c} /\ \A m \in Leased : m # c => entry'[m] = entry[m]
      BY <2>1, <2>2, <2>3 DEF Leased
    <3>2. entry'[c] = Granted(a)
      BY <2>1, <2>2
    <3>3. \A m \in Leased : LedgerLease(m) = Seen(entry[m]) /\ MacOf[LedgerLease(m).ack] = m
      BY <2>1, LedgerLeaseIs DEF Accounting, Seen
    <3>4. \A m : LedgerLease(m)' = Seen(entry'[m])
      BY <2>1, <2>2 DEF LedgerLease, Seen
    <3> QED
      BY <2>3, <3>1, <3>2, <3>3, <3>4
  <2>6. drawn' = drawn /\ told' = told
    BY <2>1, <2>2 DEF Drawn
  <2> QED
    BY <2>1, <2>4, <2>5, <2>6 DEF Ledger!Next, Ledger!Record
<1>2. CASE TrimLock
  <2>1. toTrim = {} /\ toTrim' = Leased /\ UNCHANGED <<listenerVars, entry, trimTick, schedulerVars, main>>
    BY <1>2 DEF TrimLock, Loops
  <2>2. Leased' = Leased /\ UNCHANGED <<coming, drawn, told>>
    BY <2>1 DEF Leased, Drawn, Fresh
  <2>3. ASSUME NEW m \in Leased PROVE LedgerLease(m)' = Ledger!Aged(LedgerLease(m))
    <3>1. entry[m] \in Lease /\ (entry[m].isExpired => entry[m].leaseTime = 0)
      BY DEF TypeOK, Leased, Accounting
    <3>2. LedgerLease(m) = Seen(entry[m])
      BY <2>1 DEF LedgerLease, Seen
    <3>3. LedgerLease(m)' = Seen(Trimmed(entry[m]))
      BY <2>1 DEF LedgerLease, Seen
    <3> QED
      BY <3>1, <3>2, <3>3, TrimmedIsAged
  <2>4. held' = {Ledger!Aged(v) : v \in held}
    BY <2>2, <2>3
  <2> QED
    BY <2>2, <2>4 DEF Ledger!Next, Ledger!Age
<1>3. ASSUME NEW n \in MAC, TrimTake(n) PROVE UNCHANGED Ledger!vars
  <2>1. /\ n \in toTrim /\ toTrim' = toTrim \ {n} /\ toTrim \subseteq Leased /\ toCopy = {}
        /\ entry' = [entry EXCEPT ![n] = Trimmed(entry[n])]
        /\ entry \in [MAC -> Lease \cup {NotALease}]
        /\ UNCHANGED <<listenerVars, mutex, trim, trimTick, schedulerVars, main>>
    BY <1>3, NamesOK DEF TrimTake, Loops, LockDiscipline, TypeOK
  <2>2. entry[n] \in Lease /\ Trimmed(entry[n]) # NotALease /\ n \in Leased
    BY <2>1, TrimmedLease, LeaseIsNotNone DEF Leased
  <2>3. Leased' = Leased
    BY <2>1, <2>2 DEF Leased
  <2>4. ASSUME NEW m \in Leased PROVE LedgerLease(m)' = LedgerLease(m)
    BY <2>1, <2>2 DEF LedgerLease, Leased
  <2>5. held' = held
    BY <2>3, <2>4
  <2>6. UNCHANGED <<coming, drawn, told>>
    BY <2>1 DEF Drawn, Fresh
  <2> QED
    BY <2>5, <2>6 DEF Ledger!vars
<1>4. CASE SchedulerLock
  <2>1. /\ t = {} /\ toCopy = {} /\ toTrim = {} /\ Leased # {} /\ toCopy' = Leased
        /\ UNCHANGED <<listenerVars, entry, trimVars, tick, t, dispatched, main>>
    BY <1>4, NamesOK DEF SchedulerLock, SliceIsNewer, Loops, LockDiscipline
  <2>2. Leased' = Leased /\ UNCHANGED <<coming, told>>
    BY <2>1 DEF Leased, Fresh
  <2>3. \A m : LedgerLease(m)' = LedgerLease(m) /\ LedgerLease(m) = Seen(entry[m])
    BY <2>1 DEF LedgerLease, Seen
  <2>4. held' = held /\ held # {}
    BY <2>1, <2>2, <2>3
  <2>5. drawn = {}
    BY <2>1 DEF Drawn
  <2>6. Drawn' = {Copy(entry[m]) : m \in Leased}
    BY <2>1 DEF Drawn
  <2>7. \A m : Said(Copy(entry[m])) = Ledger!Says(LedgerLease(m))
    BY <2>3 DEF Said, Copy, Ledger!Says, Seen
  <2>8. drawn' = {Ledger!Says(v) : v \in held}
    BY <2>6, <2>7
  <2> QED
    BY <2>2, <2>4, <2>5, <2>8 DEF Ledger!Next, Ledger!Draw
<1>5. ASSUME NEW n \in MAC, SchedulerTake(n) PROVE UNCHANGED Ledger!vars
  <2>1. /\ n \in toCopy /\ toCopy' = toCopy \ {n} /\ t' = t \cup {Copy(entry[n])}
        /\ UNCHANGED <<listenerVars, mutex, entry, trimVars, sched, tick, dispatched, main>>
    BY <1>5 DEF SchedulerTake
  <2>2. Drawn' = Drawn
    BY <2>1 DEF Drawn
  <2>3. Leased' = Leased /\ \A m : LedgerLease(m)' = LedgerLease(m)
    BY <2>1 DEF Leased, LedgerLease
  <2>4. UNCHANGED <<coming, held, drawn, told>>
    BY <2>1, <2>2, <2>3 DEF Fresh
  <2> QED
    BY <2>4 DEF Ledger!vars
<1>6. CASE SchedulerDispatch
  <2>1. /\ toCopy = {} /\ dispatched' = t /\ t' = {} /\ t # {}
        /\ UNCHANGED <<listenerVars, mutex, entry, trimVars, tick, toCopy, main>>
    BY <1>6 DEF SchedulerDispatch, Loops, SliceIsNewer, Drawn
  <2>2. Drawn = t /\ Drawn' = {} /\ Leased' = Leased /\ \A m : LedgerLease(m)' = LedgerLease(m)
    BY <2>1 DEF Drawn, Leased, LedgerLease
  <2>3. drawn # {} /\ told' = drawn /\ drawn' = {} /\ UNCHANGED <<coming, held>>
    BY <2>1, <2>2 DEF Fresh
  <2> QED
    BY <2>3 DEF Ledger!Next, Ledger!Tell
<1>7. CASE UNCHANGED <<entry, toTrim, toCopy, t, dispatched>> /\ \A a \in Ack : Fresh(a)' <=> Fresh(a)
  BY <1>7, LedgerStays
<1>8. ASSUME NEW l \in Listener, AddLeaseLock(l) \/ AddLeaseUnlock(l) \/ AddLeasePrinted(l)
      PROVE  UNCHANGED Ledger!vars
  <2>1. UNCHANGED <<waiting, entry, toTrim, toCopy, t, dispatched>>
    BY <1>8 DEF AddLeaseLock, AddLeaseUnlock, AddLeasePrinted
  <2>2. \A k \in Listener : k # l => serve'[k] = serve[k]
    BY <1>8 DEF AddLeaseLock, AddLeaseUnlock, AddLeasePrinted, TypeOK
  <2>3. \/ serve[l].pc = "lock" /\ serve'[l].pc = "store" /\ serve'[l].ack = serve[l].ack
        \/ serve[l].pc \in {"unlock", "print"} /\ serve'[l].pc \in {"print", "read"}
    BY <1>8 DEF AddLeaseLock, AddLeaseUnlock, AddLeasePrinted, TypeOK
  <2>4. \A a \in Ack : Fresh(a)' <=> Fresh(a)
    BY <2>1, <2>2, <2>3 DEF Fresh
  <2> QED
    BY <2>1, <2>4, LedgerStays
<1>9. ASSUME NEW l \in Listener, NEW a \in Ack, ServeACK(l, a) PROVE UNCHANGED Ledger!vars
  <2>1. /\ waiting' = waiting \ {a} /\ a \in waiting /\ serve[l].pc = "read"
        /\ UNCHANGED <<entry, toTrim, toCopy, t, dispatched>>
    BY <1>9 DEF ServeACK
  <2>2. /\ serve'[l] = [pc |-> "lock", ack |-> a]
        /\ \A k \in Listener : k # l => serve'[k] = serve[k]
    BY <1>9 DEF ServeACK, TypeOK
  <2>3. \A b \in Ack : Fresh(b)' <=> Fresh(b)
    BY <2>1, <2>2 DEF Fresh
  <2> QED
    BY <2>1, <2>3, LedgerStays
<1>10. CASE UNCHANGED <<waiting, serve, entry, toTrim, toCopy, t, dispatched>>
  BY <1>10, <1>7 DEF Fresh
<1>11. CASE RunScheduler
  BY <1>4, <1>5, <1>6, <1>10, <1>11 DEF RunScheduler, SchedulerTick, SchedulerCount, SchedulerUnlock
<1>12. CASE RunTrim
  BY <1>2, <1>3, <1>10, <1>12 DEF RunTrim, TrimSelect, TrimUnlock, TrimPrinted
<1>13. CASE TrimTick \/ Tick \/ Interrupt \/ SchedulerExit \/ TrimExit \/ Exit \/ Fatal
  <2>1. UNCHANGED <<waiting, serve, entry, toTrim, toCopy, t, dispatched>>
    BY <1>13 DEF TrimTick, Tick, Interrupt, SchedulerExit, TrimExit, Exit, Fatal
  <2> QED
    BY <1>10, <2>1
<1>14. ASSUME NEW l \in Listener, NEW a \in Ack, AddLeasePanics(l, a)
       PROVE  UNCHANGED <<waiting, serve, entry, toTrim, toCopy, t, dispatched>>
  BY <1>14 DEF AddLeasePanics
<1>15. CASE UNCHANGED vars
  BY <1>10, <1>15 DEF vars
<1> QED
  BY <1>1, <1>8, <1>9, <1>10, <1>11, <1>12, <1>13, <1>14, <1>15 DEF Next, Live, Running, Stopped, AddLease

(* Proxy mode implements the lease ledger: for all its goroutines and       *)
(* loops, leases age together and every batch is the whole table of one     *)
(* moment (proxy_lease.go:87-104, batch_scheduler.go:112-127).              *)
THEOREM ImplementsLedgerHolds == Spec => ImplementsLedger
<1>1. Init => Ledger!Init
  BY DEF Init, Ledger!Init, Fresh, Drawn, Leased
<1> QED
  BY <1>1, InvCorrect, LedgerStep, PTL DEF Spec, ImplementsLedger, Ledger!Spec
=============================================================================
