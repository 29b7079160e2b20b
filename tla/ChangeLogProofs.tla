--------------------------- MODULE ChangeLogProofs ---------------------------
(***************************************************************************)
(* Lemmas about the change log, for the proofs about its readers.          *)
(***************************************************************************)
EXTENDS ChangeLog, FiniteSetTheorems, TLAPS

LEMMA NoTransactionType == NoTransaction \in Transaction
BY DEF Transaction, NoTransaction, Phase

(* The updates a write makes to its transaction leave it a transaction. *)
LEMMA TransactionType ==
    ASSUME NEW t \in Transaction, NEW n \in Nat, NEW p \in Phase
    PROVE  /\ [t EXCEPT !.phase = p] \in Transaction
           /\ [t EXCEPT !.phase = p, !.old = n] \in Transaction
           /\ [t EXCEPT !.phase = p, !.base = n] \in Transaction
BY DEF Transaction, Phase

LEMMA LogInitType == LogInit => LogTypeOK
BY NoTransactionType DEF LogInit, LogTypeOK

LEMMA LogStepType == LogTypeOK /\ LogStep => LogTypeOK'
<1> SUFFICES ASSUME LogTypeOK, LogStep PROVE LogTypeOK'
  OBVIOUS
<1> USE DEF LogTypeOK
<1>1. ASSUME NEW w \in Writers, BeginTx(w) PROVE LogTypeOK'
  <2>1. [NoTransaction EXCEPT !.phase = "open", !.base = seq] \in Transaction
    BY NoTransactionType, TransactionType DEF Phase
  <2> QED BY <1>1, <2>1 DEF BeginTx
<1>2. ASSUME NEW w \in Writers, NEW ns \in Namespaces, NEW svc \in Services \union {NoService},
             RecordChange(w, ns, svc)
      PROVE  LogTypeOK'
  <2> DEFINE row == [revision |-> seq + 1, ns |-> ns, svc |-> svc]
  <2>1. {row} \subseteq Change
    BY DEF Change
  <2> HIDE DEF row
  <2>2. [tx[w] EXCEPT !.rows = @ \union {row}] \in Transaction
    BY <2>1 DEF Transaction
  <2>3. tx' = [tx EXCEPT ![w] = [tx[w] EXCEPT !.rows = @ \union {row}]]
    BY <1>2 DEF RecordChange, row
  <2>4. tx' \in [Writers -> Transaction]
    BY <2>2, <2>3
  <2> QED BY <1>2, <2>4 DEF RecordChange
<1>3. ASSUME NEW w \in Writers, Rollback(w) PROVE LogTypeOK'
  <2>1. tx[w].base \in Nat
    BY DEF Transaction
  <2> QED BY <1>3, <2>1, NoTransactionType DEF Rollback
<1>4. ASSUME NEW w \in Writers, Commit(w) PROVE LogTypeOK'
  <2>1. tx[w].rows \subseteq Change
    BY DEF Transaction
  <2>2. [tx[w] EXCEPT !.phase = "committed"] \in Transaction
    BY TransactionType DEF Phase
  <2> QED BY <1>4, <2>1, <2>2 DEF Commit
<1>5. ASSUME NEW w \in Writers, BroadcastSwap(w) PROVE LogTypeOK'
  <2>1. [tx[w] EXCEPT !.phase = "swapped", !.old = hub] \in Transaction
    BY TransactionType DEF Phase
  <2> QED BY <1>5, <2>1 DEF BroadcastSwap
<1>6. ASSUME NEW w \in Writers, BroadcastClose(w) PROVE LogTypeOK'
  BY <1>6, NoTransactionType DEF BroadcastClose
<1>7. ASSUME NEW cutoff \in 1 .. MaxRevision, PruneChanges(cutoff) PROVE LogTypeOK'
  BY <1>7 DEF PruneChanges
<1> QED BY <1>1, <1>2, <1>3, <1>4, <1>5, <1>6, <1>7 DEF LogStep, WriteStep

LEMMA CrashLogType == LogTypeOK /\ CrashLog => LogTypeOK'
<1> SUFFICES ASSUME LogTypeOK, CrashLog PROVE LogTypeOK'
  OBVIOUS
<1>1. seq' \in Nat
  BY DEF LogTypeOK, CrashLog, Transaction
<1> QED BY <1>1, NoTransactionType DEF LogTypeOK, CrashLog

-----------------------------------------------------------------------------

LEMMA LogInitInv == LogInit => LogInv
<1> SUFFICES ASSUME LogInit PROVE LogInv
  OBVIOUS
<1>1. IsFiniteSet(changes) /\ \A w \in Writers : IsFiniteSet(tx[w].rows)
  BY FS_EmptySet DEF LogInit, NoTransaction
<1> QED BY <1>1 DEF LogInit, LogInv, NoTransaction, RevisionsAreDrawn, CommittedAreSettled

(* What is settled stays settled, whichever write begins, draws, commits or    *)
(* rolls back, and whatever is pruned.                                         *)
LEMMA SettledStays ==
    ASSUME LogTypeOK, LogInv, LogStep, NEW n \in Nat, Settled(n)
    PROVE  Settled(n)'
<1> USE DEF LogTypeOK, Settled, Drawn, Transaction
<1>1. ASSUME NEW w \in Writers, BeginTx(w) PROVE Settled(n)'
  BY <1>1 DEF BeginTx, NoTransaction
<1>2. ASSUME NEW w \in Writers, NEW ns \in Namespaces, NEW svc \in Services \union {NoService},
             RecordChange(w, ns, svc)
      PROVE  Settled(n)'
  BY <1>2 DEF RecordChange
<1>3. ASSUME NEW w \in Writers, Rollback(w) PROVE Settled(n)'
  BY <1>3 DEF Rollback, NoTransaction
<1>4. ASSUME NEW w \in Writers, Commit(w) PROVE Settled(n)'
  BY <1>4 DEF Commit
<1>5. ASSUME NEW w \in Writers, BroadcastSwap(w) PROVE Settled(n)'
  BY <1>5 DEF BroadcastSwap
<1>6. ASSUME NEW w \in Writers, BroadcastClose(w) PROVE Settled(n)'
  BY <1>6 DEF BroadcastClose, NoTransaction
<1>7. ASSUME NEW cutoff \in 1 .. MaxRevision, PruneChanges(cutoff) PROVE Settled(n)'
  BY <1>7 DEF PruneChanges
<1> QED BY <1>1, <1>2, <1>3, <1>4, <1>5, <1>6, <1>7 DEF LogStep, WriteStep

LEMMA SettledSurvives ==
    ASSUME LogTypeOK, CrashLog, NEW n \in Nat, Settled(n)
    PROVE  Settled(n)'
BY DEF LogTypeOK, CrashLog, NoTransaction, Settled, Drawn, Transaction

(* A row that appears lies after everything that was settled.                  *)
LEMMA NewRowsComeAfter ==
    ASSUME LogTypeOK, LogInv, LogStep, NEW n \in Nat, Settled(n),
           NEW c \in changes', c \notin changes
    PROVE  n < c.revision
<1>1. PICK w \in Writers : Commit(w)
  BY DEF LogStep, WriteStep, BeginTx, RecordChange, Rollback, BroadcastSwap, BroadcastClose,
         PruneChanges
<1>2. tx[w].phase = "open" /\ c \in tx[w].rows /\ tx[w].rows \subseteq Change
  BY <1>1 DEF Commit, LogTypeOK, Transaction
<1>3. n <= tx[w].base /\ tx[w].base < c.revision /\ c.revision \in Nat /\ tx[w].base \in Nat
  BY <1>2 DEF LogInv, RevisionsAreDrawn, Settled, LogTypeOK, Transaction, Change
<1> QED BY <1>3

LEMMA LogStepFinite ==
    ASSUME LogTypeOK, LogInv, LogStep
    PROVE  IsFiniteSet(changes') /\ \A w \in Writers : IsFiniteSet(tx'[w].rows)
<1> USE DEF LogTypeOK, LogInv
<1>1. ASSUME NEW w \in Writers, BeginTx(w) \/ Rollback(w) \/ BroadcastClose(w)
      PROVE  IsFiniteSet(changes') /\ \A v \in Writers : IsFiniteSet(tx'[v].rows)
  <2>1. changes' = changes
    BY <1>1 DEF BeginTx, Rollback, BroadcastClose
  <2>2. \E t : t.rows = {} /\ tx' = [tx EXCEPT ![w] = t]
    <3>1. CASE BeginTx(w)
      <4>1. [NoTransaction EXCEPT !.phase = "open", !.base = seq].rows = {}
        BY DEF NoTransaction
      <4> QED BY <3>1, <4>1 DEF BeginTx
    <3>2. NoTransaction.rows = {}
      BY DEF NoTransaction
    <3> QED BY <1>1, <3>1, <3>2 DEF Rollback, BroadcastClose
  <2>3. \A v \in Writers : tx'[v].rows = {} \/ tx'[v].rows = tx[v].rows
    BY <2>2
  <2> QED BY <2>1, <2>3, FS_EmptySet
<1>2. ASSUME NEW w \in Writers, NEW ns \in Namespaces, NEW svc \in Services \union {NoService},
             RecordChange(w, ns, svc)
      PROVE  IsFiniteSet(changes') /\ \A v \in Writers : IsFiniteSet(tx'[v].rows)
  <2> DEFINE row == [revision |-> seq + 1, ns |-> ns, svc |-> svc]
  <2>1. tx' = [tx EXCEPT ![w].rows = @ \union {row}] /\ changes' = changes
    BY <1>2 DEF RecordChange
  <2> HIDE DEF row
  <2>2. tx'[w].rows = tx[w].rows \union {row} /\ \A v \in Writers \ {w} : tx'[v] = tx[v]
    BY <2>1 DEF Transaction
  <2>3. IsFiniteSet(tx[w].rows \union {row})
    BY FS_AddElement
  <2> QED BY <2>1, <2>2, <2>3
<1>3. ASSUME NEW w \in Writers, Commit(w)
      PROVE  IsFiniteSet(changes') /\ \A v \in Writers : IsFiniteSet(tx'[v].rows)
  <2>1. IsFiniteSet(changes \union tx[w].rows)
    BY FS_Union
  <2>2. \A v \in Writers : tx'[v].rows = tx[v].rows
    BY <1>3 DEF Commit, Transaction
  <2> QED BY <1>3, <2>1, <2>2 DEF Commit
<1>4. ASSUME NEW w \in Writers, BroadcastSwap(w)
      PROVE  IsFiniteSet(changes') /\ \A v \in Writers : IsFiniteSet(tx'[v].rows)
  <2>1. \A v \in Writers : tx'[v].rows = tx[v].rows
    BY <1>4 DEF BroadcastSwap, Transaction
  <2> QED BY <1>4, <2>1 DEF BroadcastSwap
<1>5. ASSUME NEW cutoff \in 1 .. MaxRevision, PruneChanges(cutoff)
      PROVE  IsFiniteSet(changes') /\ \A v \in Writers : IsFiniteSet(tx'[v].rows)
  <2>1. IsFiniteSet({c \in changes : c.revision > cutoff})
    BY FS_Subset
  <2> QED BY <1>5, <2>1 DEF PruneChanges
<1> QED BY <1>1, <1>2, <1>3, <1>4, <1>5 DEF LogStep, WriteStep

LEMMA LogStepDrawn ==
    ASSUME LogTypeOK, LogInv, LogStep
    PROVE  RevisionsAreDrawn'
<1> USE DEF LogTypeOK, RevisionsAreDrawn, Drawn, Transaction, Change
<1> RevisionsAreDrawn
  BY DEF LogInv
<1>1. ASSUME NEW w \in Writers, BeginTx(w) PROVE RevisionsAreDrawn'
  BY <1>1 DEF BeginTx, NoTransaction
<1>2. ASSUME NEW w \in Writers, NEW ns \in Namespaces, NEW svc \in Services \union {NoService},
             RecordChange(w, ns, svc)
      PROVE  RevisionsAreDrawn'
  BY <1>2 DEF RecordChange
<1>3. ASSUME NEW w \in Writers, Rollback(w) PROVE RevisionsAreDrawn'
  <2>1. ~ Serialized => RevisionsAreDrawn'
    BY <1>3 DEF Rollback, NoTransaction
  <2>2. ASSUME Serialized PROVE RevisionsAreDrawn'
    <3>1. seq' = tx[w].base /\ changes' = changes /\ tx[w].phase = "open"
      BY <1>3, <2>2 DEF Rollback
    <3>2. \A c \in changes : c.revision <= tx[w].base
      BY <2>2, <3>1 DEF LogInv, CommittedAreSettled, Settled
    <3>3. \A v \in Writers : tx'[v].phase # "open"
      BY <1>3, <2>2, <3>1 DEF LogInv, CommittedAreSettled, Rollback, NoTransaction
    <3> QED BY <3>1, <3>2, <3>3
  <2> QED BY <2>1, <2>2
<1>4. ASSUME NEW w \in Writers, Commit(w) PROVE RevisionsAreDrawn'
  BY <1>4 DEF Commit
<1>5. ASSUME NEW w \in Writers, BroadcastSwap(w) PROVE RevisionsAreDrawn'
  BY <1>5 DEF BroadcastSwap
<1>6. ASSUME NEW w \in Writers, BroadcastClose(w) PROVE RevisionsAreDrawn'
  BY <1>6 DEF BroadcastClose, NoTransaction
<1>7. ASSUME NEW cutoff \in 1 .. MaxRevision, PruneChanges(cutoff) PROVE RevisionsAreDrawn'
  BY <1>7 DEF PruneChanges
<1> QED BY <1>1, <1>2, <1>3, <1>4, <1>5, <1>6, <1>7 DEF LogStep, WriteStep

LEMMA LogStepSettled ==
    ASSUME LogTypeOK, LogInv, Serialized, LogStep
    PROVE  CommittedAreSettled'
<1>1. \A v, w \in Writers : tx'[v].phase = "open" /\ tx'[w].phase = "open" => v = w
  <2> USE DEF LogTypeOK, Transaction
  <2>1. \A v, w \in Writers : tx[v].phase = "open" /\ tx[w].phase = "open" => v = w
    BY DEF LogInv, CommittedAreSettled
  <2>2. ASSUME NEW u \in Writers, BeginTx(u)
        PROVE  \A v \in Writers : tx'[v].phase = "open" => v = u
    BY <2>2 DEF BeginTx
  <2>3. ASSUME NEW u \in Writers,
               \/ \E ns \in Namespaces, svc \in Services \union {NoService} : RecordChange(u, ns, svc)
               \/ Rollback(u) \/ Commit(u) \/ BroadcastSwap(u) \/ BroadcastClose(u)
        PROVE  \A v \in Writers : tx'[v].phase = "open" => tx[v].phase = "open"
    BY <2>3 DEF RecordChange, Rollback, Commit, BroadcastSwap, BroadcastClose, NoTransaction
  <2>4. ASSUME NEW cutoff \in 1 .. MaxRevision, PruneChanges(cutoff) PROVE tx' = tx
    BY <2>4 DEF PruneChanges
  <2> QED BY <2>1, <2>2, <2>3, <2>4 DEF LogStep, WriteStep
<1>2. ASSUME NEW c \in changes' PROVE Settled(c.revision)'
  <2>1. CASE c \in changes
    <3>1. c.revision \in Nat /\ Settled(c.revision)
      BY <2>1 DEF LogInv, CommittedAreSettled, LogTypeOK, Change
    <3> QED BY <3>1, SettledStays
  <2>2. CASE c \notin changes
    <3>1. PICK w \in Writers : Commit(w)
      BY <2>2 DEF LogStep, WriteStep, BeginTx, RecordChange, Rollback, BroadcastSwap,
                  BroadcastClose, PruneChanges
    <3>2. c \in tx[w].rows /\ tx[w].phase = "open" /\ seq' = seq
      BY <2>2, <3>1 DEF Commit
    <3>3. c.revision <= seq
      BY <3>2 DEF LogInv, RevisionsAreDrawn, Drawn
    <3>4. \A v \in Writers : tx'[v].phase # "open"
      BY <3>1, <3>2 DEF Commit, LogInv, CommittedAreSettled, LogTypeOK, Transaction
    <3> QED BY <3>2, <3>3, <3>4 DEF Settled, Drawn
  <2> QED BY <2>1, <2>2
<1> QED BY <1>1, <1>2 DEF CommittedAreSettled

(* The invariant of the log is inductive.                                      *)
LEMMA LogStepInv == LogTypeOK /\ LogInv /\ LogStep => LogInv'
BY LogStepFinite, LogStepDrawn, LogStepSettled DEF LogInv

LEMMA CrashLogInv == LogTypeOK /\ LogInv /\ CrashLog => LogInv'
<1> SUFFICES ASSUME LogTypeOK, LogInv, CrashLog PROVE LogInv'
  OBVIOUS
<1>1. changes' = changes /\ tx' = [w \in Writers |-> NoTransaction]
  BY DEF CrashLog
<1>2. IsFiniteSet(changes') /\ \A w \in Writers : IsFiniteSet(tx'[w].rows)
  BY <1>1, FS_EmptySet DEF LogInv, NoTransaction
<1>3. RevisionsAreDrawn'
  <2>1. ASSUME NEW c \in changes PROVE c.revision <= seq'
    BY <2>1 DEF CrashLog, LogInv, RevisionsAreDrawn, CommittedAreSettled, Settled, Drawn
  <2> QED BY <1>1, <2>1 DEF RevisionsAreDrawn, Drawn, NoTransaction
<1>4. Serialized => CommittedAreSettled'
  <2>1. ASSUME Serialized, NEW c \in changes PROVE Settled(c.revision)'
    BY <2>1, SettledSurvives DEF LogInv, CommittedAreSettled, LogTypeOK, Change
  <2> QED BY <1>1, <2>1 DEF CommittedAreSettled, NoTransaction
<1> QED BY <1>2, <1>3, <1>4 DEF LogInv

(* A page has no gap: a row that is not behind one of its rows is in it.       *)
LEMMA FirstRowsClosed ==
    ASSUME NEW rows, rows \subseteq Change, IsFiniteSet(rows), NEW n \in Nat,
           NEW c \in FirstRows(rows, n), NEW d \in rows, d.revision <= c.revision
    PROVE  d \in FirstRows(rows, n)
<1> DEFINE Below(x) == {e \in rows : e.revision < x.revision}
<1>1. Below(d) \subseteq Below(c)
  BY DEF Change, FirstRows
<1>2. IsFiniteSet(Below(c))
  BY FS_Subset
<1>3. Cardinality(Below(d)) <= Cardinality(Below(c))
  BY <1>1, <1>2, FS_Subset
<1>4. IsFiniteSet(Below(d))
  BY <1>1, <1>2, FS_Subset
<1>5. Cardinality(Below(c)) \in Nat /\ Cardinality(Below(d)) \in Nat
  BY <1>2, <1>4, FS_CardinalityType
<1>6. Cardinality(Below(c)) < n
  BY DEF FirstRows
<1>7. Cardinality(Below(d)) < n
  BY <1>3, <1>5, <1>6
<1> QED BY <1>7 DEF FirstRows

=============================================================================
