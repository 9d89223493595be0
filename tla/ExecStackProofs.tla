-------------------------- MODULE ExecStackProofs --------------------------
(***************************************************************************)
(* Proofs about ExecStack, for every stack size, every set of functions    *)
(* and every nesting of calls and try_tables.                              *)
(*                                                                         *)
(* The invariant has three parts: which handlers belong to which frame     *)
(* (Scoped), how the frames lie on the value stack (Nested), and what the  *)
(* lifecycle says about both (Lifecycle and HostCall).  Scoped and Nested  *)
(* are stated for given frames and handlers, so that the lemmas about them *)
(* are about sequences and not about steps.                                *)
(***************************************************************************)
EXTENDS ExecStack, SequenceTheorems, TLAPS

Try == [sp_base : 0..StackSize, table : Tables]

(* Where the handlers of the k-th of the frames fs end. *)
EndOf(fs, hs, k) == IF k = Len(fs) THEN Len(hs) ELSE fs[k + 1].hbase

(* A frame has a handler for each try_table around its code, in order ...  *)
FrameScoped(fs, hs, k) ==
    \A j \in 1..Len(fs[k].tries) :
        /\ hs[fs[k].hbase + j] = [call_depth |-> k, sp_base |-> fs[k].tries[j].sp_base,
                                  table |-> fs[k].tries[j].table]
        /\ fs[k].tries[j].table.depth = j - 1

(* ... the handlers of the frames follow one another, and each of them     *)
(* lies where the frame of its call depth has its own.  All frames but the *)
(* innermost have no others; the innermost neither, if `exact`.            *)
ScopedOf(fs, hs, exact) ==
    /\ \A k \in 1..Len(fs) : /\ fs[k].hbase + Len(fs[k].tries) <= EndOf(fs, hs, k)
                             /\ k < Len(fs) \/ exact => fs[k].hbase + Len(fs[k].tries) = EndOf(fs, hs, k)
                             /\ FrameScoped(fs, hs, k)
    /\ \A k, l \in 1..Len(fs) : k < l => EndOf(fs, hs, k) <= fs[l].hbase
    /\ \A i \in 1..Len(hs) : /\ hs[i].call_depth \in 1..Len(fs)
                             /\ fs[hs[i].call_depth].hbase < i
                             /\ i <= EndOf(fs, hs, hs[i].call_depth)
    /\ Len(fs) > 0 => fs[1].hbase = 0

(* A frame lies below the frame pointer it was pushed with, and its        *)
(* parameters and results lie among the operands of its caller.            *)
FrameNested(fs, k) ==
    /\ fs[k].locals <= fs[k].floor /\ fs[k].floor <= fs[k].top /\ fs[k].top <= FramePtr(k)
    /\ \A j \in 1..Len(fs[k].tries) : fs[k].tries[j].sp_base \in fs[k].floor..fs[k].top

NestedOf(fs) ==
    /\ \A k \in 1..Len(fs) : FrameNested(fs, k)
    /\ \A k \in 1..(Len(fs) - 1) : /\ fs[k + 1].locals \in fs[k].floor..fs[k].top
                                   /\ fs[k + 1].locals + fs[k + 1].results <= fs[k].top

Scoped == Active => ScopedOf(frames, handlers, landing = "no")

Nested ==
    /\ sp <= FramePtr(Depth)
    /\ Active => NestedOf(frames)
    /\ Active /\ Depth > 0 /\ host = None /\ landing # "pop" => sp \in Top.floor..Top.top

(* Activations start from an empty stack, an activation without a frame is *)
(* that of a host function, and only a running one is inside of one.       *)
Lifecycle ==
    /\ base = [sp |-> 0, handlers |-> 0, frames |-> 0]
    /\ ReadyIsClean
    /\ host # None => state = "RUNNING"
    /\ pending => state = "TRAPPED"
    /\ Active => entry \in Funcs /\ (entry.host <=> Depth = 0)
    /\ Active /\ Depth = 0 => sp = entry.params + entry.results
    /\ state = "RUNNING" /\ Depth = 0 => host = entry

(* Parameters of the running host function are operands, and there is room *)
(* for its results.                                                        *)
HostCall ==
    host # None /\ Depth > 0 =>
        /\ landing \in {"no", "pop"}
        /\ sp - host.params >= Top.floor
        /\ sp <= Top.top
        /\ sp + host.results <= FramePtr(Depth)
        /\ landing = "no" => sp - host.params + host.results <= Top.top

StackInv == TypeOK /\ Lifecycle /\ HostCall /\ Nested /\ Scoped
-----------------------------------------------------------------------------
(* A prefix of a sequence. *)
LEMMA PrefixFacts ==
    ASSUME NEW S, NEW s \in Seq(S), NEW m \in Nat, m <= Len(s)
    PROVE  /\ SubSeq(s, 1, m) \in Seq(S)
           /\ Len(SubSeq(s, 1, m)) = m
           /\ \A i \in 1..m : SubSeq(s, 1, m)[i] = s[i]
  <1>1. Len(s) \in Nat /\ \A i \in 1..Len(s) : s[i] \in S
    BY LenProperties, ElementOfSeq
  <1>2. \A i \in 1..m : s[i] \in S
    BY <1>1
  <1>3. /\ SubSeq(s, 1, m) \in Seq(S)
        /\ Len(SubSeq(s, 1, m)) = IF 1 <= m THEN m - 1 + 1 ELSE 0
        /\ \A i \in 1..(m - 1 + 1) : SubSeq(s, 1, m)[i] = s[1 + i - 1]
    BY <1>2, SubSeqProperties
  <1>4. (IF 1 <= m THEN m - 1 + 1 ELSE 0) = m
    OBVIOUS
  <1>5. \A i \in 1..m : i \in 1..(m - 1 + 1) /\ 1 + i - 1 = i
    OBVIOUS
  <1> QED
    BY <1>3, <1>4, <1>5

(* A sequence with one element replaced. *)
LEMMA ExceptFacts ==
    ASSUME NEW S, NEW s \in Seq(S), NEW d \in 1..Len(s), NEW x \in S
    PROVE  /\ [s EXCEPT ![d] = x] \in Seq(S)
           /\ Len([s EXCEPT ![d] = x]) = Len(s)
           /\ [s EXCEPT ![d] = x][d] = x
           /\ \A i \in 1..Len(s) : i # d => [s EXCEPT ![d] = x][i] = s[i]
  BY ExceptSeq, LenProperties

(* A sequence with one element more. *)
LEMMA AppendFacts ==
    ASSUME NEW S, NEW s \in Seq(S), NEW x \in S
    PROVE  /\ Append(s, x) \in Seq(S)
           /\ Len(Append(s, x)) = Len(s) + 1
           /\ Append(s, x)[Len(s) + 1] = x
           /\ \A i \in 1..Len(s) : Append(s, x)[i] = s[i]
  BY AppendProperties

(* What the types say about one frame. *)
LEMMA FrameFacts ==
    ASSUME NEW fs \in Seq(Frame), NEW k \in 1..Len(fs)
    PROVE  /\ fs[k] \in Frame
           /\ fs[k].locals \in 0..StackSize /\ fs[k].floor \in 0..StackSize
           /\ fs[k].top \in 0..StackSize /\ fs[k].results \in Nat /\ fs[k].hbase \in Nat
           /\ fs[k].tries \in Seq(Try) /\ Len(fs[k].tries) \in Nat
           /\ Len(fs) \in Nat
  <1>1. fs[k] \in Frame /\ Len(fs) \in Nat
    BY ElementOfSeq, LenProperties
  <1>2. fs[k].tries \in Seq(Try)
    BY <1>1 DEF Frame, Try
  <1> QED
    BY <1>1, <1>2, LenProperties DEF Frame
-----------------------------------------------------------------------------
(* The handlers of an outer frame end where those of the innermost do, or  *)
(* before.                                                                 *)
LEMMA EndFacts ==
    ASSUME NEW fs \in Seq(Frame), NEW hs \in Seq(Handler), NEW e \in BOOLEAN, ScopedOf(fs, hs, e)
    PROVE  \A k \in 1..Len(fs) : EndOf(fs, hs, k) \in Nat /\ EndOf(fs, hs, k) <= Len(hs)
  <1>0. /\ Len(fs) \in Nat /\ Len(hs) \in Nat
        /\ \A k \in 1..Len(fs) : fs[k].hbase \in Nat /\ Len(fs[k].tries) \in Nat
    BY FrameFacts, LenProperties
  <1>1. ASSUME NEW k \in 1..Len(fs), k # Len(fs)
        PROVE  EndOf(fs, hs, k) \in Nat /\ EndOf(fs, hs, k) <= Len(hs)
    <2>1. k + 1 \in 1..Len(fs) /\ Len(fs) \in 1..Len(fs) /\ k < Len(fs)
      BY <1>0, <1>1
    <2>2. EndOf(fs, hs, k) \in Nat
      BY <1>0, <1>1, <2>1 DEF EndOf
    <2>3. EndOf(fs, hs, k) <= fs[Len(fs)].hbase
      BY <2>1 DEF ScopedOf
    <2>4. fs[Len(fs)].hbase + Len(fs[Len(fs)].tries) <= Len(hs)
      BY <2>1 DEF ScopedOf, EndOf
    <2>5. PICK b \in Nat, c \in Nat : b = fs[Len(fs)].hbase /\ c = Len(fs[Len(fs)].tries)
      BY <1>0, <2>1
    <2>6. b <= Len(hs)
      BY <1>0, <2>4, <2>5
    <2> QED
      BY <1>0, <2>2, <2>3, <2>5, <2>6
  <1> QED
    BY <1>0, <1>1 DEF EndOf

(* Cutting the stacks back to the first t try_tables of the d-th frame and *)
(* to m handlers, none of them of an inner frame, keeps them scoped.       *)
LEMMA CutScoped ==
    ASSUME NEW fs \in Seq(Frame), NEW hs \in Seq(Handler), NEW e \in BOOLEAN, ScopedOf(fs, hs, e),
           NEW d \in 1..Len(fs), NEW t \in 0..Len(fs[d].tries), NEW m \in Nat,
           fs[d].hbase + t <= m, m <= EndOf(fs, hs, d),
           NEW fs2 \in Seq(Frame), Len(fs2) = d, \A k \in 1..(d - 1) : fs2[k] = fs[k],
           fs2[d].hbase = fs[d].hbase, fs2[d].tries = SubSeq(fs[d].tries, 1, t),
           NEW e2 \in BOOLEAN, e2 => m = fs[d].hbase + t
    PROVE  /\ m <= Len(hs)
           /\ ScopedOf(fs2, SubSeq(hs, 1, m), e2)
  <1> DEFINE hs2 == SubSeq(hs, 1, m)
  <1>0. /\ Len(fs) \in Nat /\ Len(hs) \in Nat /\ d \in Nat
        /\ \A k \in 1..Len(fs) : fs[k].hbase \in Nat /\ Len(fs[k].tries) \in Nat /\ fs[k].tries \in Seq(Try)
    BY FrameFacts, LenProperties
  <1>1. \A k \in 1..Len(fs) : EndOf(fs, hs, k) \in Nat /\ EndOf(fs, hs, k) <= Len(hs)
    BY EndFacts
  <1>2. m <= Len(hs)
    BY <1>0, <1>1
  <1>3. Len(hs2) = m /\ \A i \in 1..m : hs2[i] = hs[i]
    BY <1>2, PrefixFacts
  <1>4. /\ Len(fs2[d].tries) = t
        /\ \A j \in 1..t : fs2[d].tries[j] = fs[d].tries[j]
    BY <1>0, PrefixFacts
  <1> HIDE DEF hs2
  <1>5. \A k \in 1..(d - 1) : /\ k \in 1..Len(fs) /\ k < Len(fs) /\ k # Len(fs) /\ k + 1 \in 1..d
                              /\ fs2[k + 1].hbase = fs[k + 1].hbase
    <2> SUFFICES ASSUME NEW k \in 1..(d - 1)
                 PROVE  /\ k \in 1..Len(fs) /\ k < Len(fs) /\ k # Len(fs) /\ k + 1 \in 1..d
                        /\ fs2[k + 1].hbase = fs[k + 1].hbase
      OBVIOUS
    <2>1. PICK l \in Nat : l = Len(fs) /\ d <= l
      BY <1>0
    <2>2. k \in 1..l /\ k < l /\ k # l /\ k + 1 \in 1..d
      BY <1>0, <2>1
    <2>3. k + 1 \in 1..(d - 1) \/ k + 1 = d
      BY <1>0, <2>2
    <2>4. fs2[k + 1].hbase = fs[k + 1].hbase
      BY <2>3
    <2> QED
      BY <2>1, <2>2, <2>4
  <1>6. \A k \in 1..(d - 1) : EndOf(fs2, hs2, k) = EndOf(fs, hs, k)
    BY <1>5 DEF EndOf
  <1>7. EndOf(fs2, hs2, d) = m
    BY <1>3 DEF EndOf
  <1>8. \A k \in 1..d : fs2[k].hbase = fs[k].hbase /\ k \in 1..Len(fs) /\ (k \in 1..(d - 1) \/ k = d)
    BY <1>0
  <1>9. \A k \in 1..(d - 1) : EndOf(fs, hs, k) <= fs[d].hbase
    BY <1>0, <1>5 DEF ScopedOf
  <1>10. \A k \in 1..(d - 1) : EndOf(fs, hs, k) \in 0..m
    BY <1>0, <1>1, <1>5, <1>9
  <1>11. ASSUME NEW k \in 1..d
         PROVE  /\ fs2[k].hbase + Len(fs2[k].tries) <= EndOf(fs2, hs2, k)
                /\ k < d \/ e2 => fs2[k].hbase + Len(fs2[k].tries) = EndOf(fs2, hs2, k)
                /\ FrameScoped(fs2, hs2, k)
    <2>1. CASE k = d
      <3>1. \A j \in 1..t : j \in 1..Len(fs[d].tries) /\ fs[d].hbase + j \in 1..m
        BY <1>0
      <3>2. FrameScoped(fs, hs, d)
        BY DEF ScopedOf
      <3>3. FrameScoped(fs2, hs2, d)
        <4> SUFFICES ASSUME NEW j \in 1..t
                     PROVE  /\ hs2[fs[d].hbase + j] = [call_depth |-> d, sp_base |-> fs[d].tries[j].sp_base,
                                                       table |-> fs[d].tries[j].table]
                            /\ fs[d].tries[j].table.depth = j - 1
          BY <1>4 DEF FrameScoped
        <4>1. hs2[fs[d].hbase + j] = hs[fs[d].hbase + j] /\ j \in 1..Len(fs[d].tries)
          BY <1>3, <3>1
        <4> QED
          BY <3>2, <4>1 DEF FrameScoped
      <3> QED
        BY <1>0, <1>4, <1>7, <2>1, <3>3
    <2>2. CASE k \in 1..(d - 1)
      <3>1. /\ fs2[k] = fs[k] /\ k \in 1..Len(fs) /\ k < Len(fs)
            /\ fs[k].hbase + Len(fs[k].tries) = EndOf(fs, hs, k)
            /\ FrameScoped(fs, hs, k)
        BY <1>5, <2>2 DEF ScopedOf
      <3>2. \A j \in 1..Len(fs[k].tries) : fs[k].hbase + j \in 1..m
        <4>1. PICK b \in Nat, c \in Nat : b = fs[k].hbase /\ c = Len(fs[k].tries)
          BY <1>0, <3>1
        <4>2. b + c <= m
          BY <1>10, <2>2, <3>1, <4>1
        <4>3. \A j \in 1..c : b + j \in 1..m
          BY <4>2
        <4> QED
          BY <4>1, <4>3
      <3>3. FrameScoped(fs2, hs2, k)
        <4> SUFFICES ASSUME NEW j \in 1..Len(fs[k].tries)
                     PROVE  /\ hs2[fs[k].hbase + j] = [call_depth |-> k, sp_base |-> fs[k].tries[j].sp_base,
                                                       table |-> fs[k].tries[j].table]
                            /\ fs[k].tries[j].table.depth = j - 1
          BY <3>1 DEF FrameScoped
        <4>1. hs2[fs[k].hbase + j] = hs[fs[k].hbase + j]
          BY <1>3, <3>2
        <4> QED
          BY <3>1, <4>1 DEF FrameScoped
      <3>4. EndOf(fs2, hs2, k) = fs2[k].hbase + Len(fs2[k].tries) /\ EndOf(fs, hs, k) \in Nat
        BY <1>6, <1>10, <2>2, <3>1
      <3> QED
        BY <1>0, <3>1, <3>3, <3>4
    <2> QED
      BY <1>8, <2>1, <2>2
  <1>12. ASSUME NEW k \in 1..d, NEW l \in 1..d, k < l PROVE EndOf(fs2, hs2, k) <= fs2[l].hbase
    <2>1. k \in 1..(d - 1) /\ k \in 1..Len(fs) /\ l \in 1..Len(fs)
      BY <1>0, <1>12
    <2>2. EndOf(fs, hs, k) <= fs[l].hbase
      BY <1>12, <2>1 DEF ScopedOf
    <2> QED
      BY <1>6, <1>8, <2>1, <2>2
  <1>13. ASSUME NEW i \in 1..m
         PROVE  /\ hs2[i].call_depth \in 1..d
                /\ fs2[hs2[i].call_depth].hbase < i
                /\ i <= EndOf(fs2, hs2, hs2[i].call_depth)
    <2> DEFINE k == hs[i].call_depth
    <2>1. i \in 1..Len(hs) /\ hs2[i] = hs[i]
      BY <1>0, <1>2, <1>3
    <2>2. k \in 1..Len(fs) /\ fs[k].hbase < i /\ i <= EndOf(fs, hs, k)
      BY <2>1 DEF ScopedOf
    <2> HIDE DEF k
    <2>3. k <= d
      <3>1. ASSUME k > d PROVE FALSE
        <4>1. EndOf(fs, hs, d) <= fs[k].hbase
          BY <1>0, <2>2, <3>1 DEF ScopedOf
        <4> QED
          BY <1>0, <1>1, <2>2, <4>1
      <3> QED
        BY <1>0, <2>2, <3>1
    <2>4. k \in 1..d
      BY <1>0, <2>2, <2>3
    <2>5. i <= EndOf(fs2, hs2, k)
      BY <1>6, <1>7, <1>8, <2>2, <2>4
    <2> QED
      BY <1>8, <2>1, <2>2, <2>4, <2>5 DEF k
  <1>14. fs2[1].hbase = 0
    <2>1. 1 \in 1..d /\ Len(fs) > 0
      BY <1>0
    <2> QED
      BY <1>8, <2>1 DEF ScopedOf
  <1>15. ScopedOf(fs2, hs2, e2)
    BY <1>3, <1>11, <1>12, <1>13, <1>14 DEF ScopedOf
  <1> QED
    BY <1>2, <1>15 DEF hs2

(* The same, its hypotheses on the cut named. *)
IsCut(fs, hs, d, t, m, fs2, e2) ==
    /\ fs[d].hbase + t <= m /\ m <= EndOf(fs, hs, d)
    /\ Len(fs2) = d /\ \A k \in 1..(d - 1) : fs2[k] = fs[k]
    /\ fs2[d].hbase = fs[d].hbase /\ fs2[d].tries = SubSeq(fs[d].tries, 1, t)
    /\ e2 => m = fs[d].hbase + t

LEMMA CutIsScoped ==
    ASSUME NEW fs \in Seq(Frame), NEW hs \in Seq(Handler), NEW e \in BOOLEAN, ScopedOf(fs, hs, e),
           NEW d \in 1..Len(fs), NEW t \in 0..Len(fs[d].tries), NEW m \in Nat,
           NEW fs2 \in Seq(Frame), NEW e2 \in BOOLEAN, IsCut(fs, hs, d, t, m, fs2, e2)
    PROVE  m <= Len(hs) /\ ScopedOf(fs2, SubSeq(hs, 1, m), e2)
  BY CutScoped DEF IsCut

(* Between instructions the handlers are all those of the frames: a pushed *)
(* frame has none of its own.                                              *)
LEMMA PushScoped ==
    ASSUME NEW fs \in Seq(Frame), NEW hs \in Seq(Handler), ScopedOf(fs, hs, TRUE),
           NEW fr \in Frame, fr.hbase = Len(hs), fr.tries = <<>>, NEW e2 \in BOOLEAN
    PROVE  ScopedOf(Append(fs, fr), hs, e2)
  <1> DEFINE fs2 == Append(fs, fr)
             n == Len(fs)
  <1>0. /\ n \in Nat /\ Len(hs) \in Nat
        /\ \A k \in 1..n : fs[k].hbase \in Nat /\ Len(fs[k].tries) \in Nat
    BY FrameFacts, LenProperties
  <1>1. Len(fs2) = n + 1 /\ fs2[n + 1] = fr /\ \A k \in 1..n : fs2[k] = fs[k]
    BY AppendFacts
  <1>2. Len(fr.tries) = 0 /\ \A j : j \notin 1..Len(fr.tries)
    OBVIOUS
  <1>3. \A k \in 1..n : EndOf(fs, hs, k) \in Nat /\ EndOf(fs, hs, k) <= Len(hs)
    BY EndFacts
  <1> HIDE DEF fs2, n
  <1>4. \A k \in 1..n : EndOf(fs2, hs, k) = EndOf(fs, hs, k)
    <2> SUFFICES ASSUME NEW k \in 1..n PROVE EndOf(fs2, hs, k) = EndOf(fs, hs, k)
      OBVIOUS
    <2>1. k # n + 1 /\ (k # n => k + 1 \in 1..n)
      BY <1>0
    <2>2. CASE k = n
      BY <1>1, <2>1, <2>2 DEF EndOf, n
    <2>3. CASE k # n
      BY <1>1, <2>1, <2>3 DEF EndOf, n
    <2> QED
      BY <2>2, <2>3
  <1>5. EndOf(fs2, hs, n + 1) = Len(hs)
    BY <1>1 DEF EndOf
  <1>6. \A k \in 1..(n + 1) : k \in 1..n \/ k = n + 1
    BY <1>0
  <1>7. ASSUME NEW k \in 1..(n + 1)
        PROVE  /\ fs2[k].hbase + Len(fs2[k].tries) <= EndOf(fs2, hs, k)
               /\ fs2[k].hbase + Len(fs2[k].tries) = EndOf(fs2, hs, k)
               /\ FrameScoped(fs2, hs, k)
    <2>1. CASE k = n + 1
      BY <1>0, <1>1, <1>2, <1>5, <2>1 DEF FrameScoped
    <2>2. CASE k \in 1..n
      <3>1. /\ fs[k].hbase + Len(fs[k].tries) = EndOf(fs, hs, k) /\ FrameScoped(fs, hs, k)
        BY <2>2 DEF ScopedOf, n
      <3>2. FrameScoped(fs2, hs, k)
        BY <1>1, <2>2, <3>1 DEF FrameScoped
      <3> QED
        BY <1>1, <1>3, <1>4, <2>2, <3>1, <3>2
    <2> QED
      BY <1>6, <2>1, <2>2
  <1>8. ASSUME NEW k \in 1..(n + 1), NEW l \in 1..(n + 1), k < l PROVE EndOf(fs2, hs, k) <= fs2[l].hbase
    <2>1. k \in 1..n
      BY <1>0, <1>8
    <2>2. CASE l = n + 1
      BY <1>1, <1>3, <1>4, <2>1, <2>2
    <2>3. CASE l \in 1..n
      BY <1>1, <1>4, <1>8, <2>1, <2>3 DEF ScopedOf, n
    <2> QED
      BY <1>6, <2>2, <2>3
  <1>9. ASSUME NEW i \in 1..Len(hs)
        PROVE  /\ hs[i].call_depth \in 1..(n + 1)
               /\ fs2[hs[i].call_depth].hbase < i
               /\ i <= EndOf(fs2, hs, hs[i].call_depth)
    <2>1. /\ hs[i].call_depth \in 1..n
          /\ fs[hs[i].call_depth].hbase < i
          /\ i <= EndOf(fs, hs, hs[i].call_depth)
      BY DEF ScopedOf, n
    <2>2. hs[i].call_depth \in 1..(n + 1)
      BY <1>0, <2>1
    <2> QED
      BY <1>1, <1>4, <2>1, <2>2
  <1>10. fs2[1].hbase = 0
    <2>1. CASE n = 0
      <3>1. hs = <<>>
        <4>1. ASSUME Len(hs) # 0 PROVE FALSE
          <5>1. 1 \in 1..Len(hs) /\ \A x : x \notin 1..n
            BY <1>0, <2>1, <4>1
          <5> QED
            BY <5>1 DEF ScopedOf, n
        <4> QED
          BY <4>1, EmptySeq
      <3> QED
        BY <1>1, <2>1, <3>1
    <2>2. CASE n # 0
      <3>1. n > 0 /\ 1 \in 1..n
        BY <1>0, <2>2
      <3> QED
        BY <1>1, <3>1 DEF ScopedOf, n
    <2> QED
      BY <2>1, <2>2
  <1> QED
    BY <1>1, <1>7, <1>8, <1>9, <1>10 DEF ScopedOf, fs2

(* TRY_TABLE: one more try_table and one more handler of the same frame. *)
LEMMA TryScoped ==
    ASSUME NEW fs \in Seq(Frame), NEW hs \in Seq(Handler), ScopedOf(fs, hs, TRUE),
           NEW n \in 1..Len(fs), n = Len(fs),
           NEW tr \in Try, tr.table.depth = Len(fs[n].tries),
           NEW h \in Handler, h = [call_depth |-> n, sp_base |-> tr.sp_base, table |-> tr.table],
           NEW fs2 \in Seq(Frame), Len(fs2) = n, \A k \in 1..(n - 1) : fs2[k] = fs[k],
           fs2[n].hbase = fs[n].hbase, fs2[n].tries = Append(fs[n].tries, tr)
    PROVE  ScopedOf(fs2, Append(hs, h), TRUE)
  <1> DEFINE hs2 == Append(hs, h)
             m == Len(hs)
             c == Len(fs[n].tries)
  <1>0. /\ n \in Nat /\ m \in Nat /\ c \in Nat
        /\ \A k \in 1..n : fs[k].hbase \in Nat /\ Len(fs[k].tries) \in Nat /\ fs[k].tries \in Seq(Try)
    BY FrameFacts, LenProperties
  <1>1. Len(hs2) = m + 1 /\ hs2[m + 1] = h /\ \A i \in 1..m : hs2[i] = hs[i]
    BY AppendFacts
  <1>2. /\ Len(fs2[n].tries) = c + 1 /\ fs2[n].tries[c + 1] = tr
        /\ \A j \in 1..c : fs2[n].tries[j] = fs[n].tries[j]
    BY <1>0, AppendFacts
  <1>3. \A k \in 1..n : EndOf(fs, hs, k) \in Nat /\ EndOf(fs, hs, k) <= m
    BY EndFacts
  <1>4. fs[n].hbase + c = m
    BY DEF ScopedOf, EndOf
  <1> HIDE DEF hs2, m, c
  <1>5. \A k \in 1..n : fs2[k].hbase = fs[k].hbase /\ (k \in 1..(n - 1) \/ k = n)
    <2>1. \A k \in 1..n : k \in 1..(n - 1) \/ k = n
      BY <1>0
    <2> QED
      BY <2>1
  <1>6. \A k \in 1..(n - 1) : EndOf(fs2, hs2, k) = EndOf(fs, hs, k) /\ k \in 1..n /\ k < n
    <2> SUFFICES ASSUME NEW k \in 1..(n - 1)
                 PROVE  EndOf(fs2, hs2, k) = EndOf(fs, hs, k) /\ k \in 1..n /\ k < n
      OBVIOUS
    <2>1. k # n /\ k + 1 \in 1..n /\ k \in 1..n /\ k < n
      BY <1>0
    <2> QED
      BY <1>5, <2>1 DEF EndOf
  <1>7. EndOf(fs2, hs2, n) = m + 1
    BY <1>1 DEF EndOf
  <1>8. ASSUME NEW k \in 1..n
        PROVE  /\ fs2[k].hbase + Len(fs2[k].tries) <= EndOf(fs2, hs2, k)
               /\ fs2[k].hbase + Len(fs2[k].tries) = EndOf(fs2, hs2, k)
               /\ FrameScoped(fs2, hs2, k)
    <2>1. CASE k = n
      <3>1. FrameScoped(fs, hs, n)
        BY DEF ScopedOf
      <3>2. \A j \in 1..(c + 1) : j \in 1..c \/ j = c + 1
        BY <1>0
      <3>3. \A j \in 1..c : fs[n].hbase + j \in 1..m
        BY <1>0, <1>4
      <3>4. fs[n].hbase + (c + 1) = m + 1 /\ (c + 1) - 1 = c
        BY <1>0, <1>4
      <3>5. ASSUME NEW j \in 1..(c + 1)
            PROVE  /\ hs2[fs[n].hbase + j] = [call_depth |-> n, sp_base |-> fs2[n].tries[j].sp_base,
                                              table |-> fs2[n].tries[j].table]
                   /\ fs2[n].tries[j].table.depth = j - 1
        <4>1. CASE j \in 1..c
          <5>1. hs2[fs[n].hbase + j] = hs[fs[n].hbase + j] /\ fs2[n].tries[j] = fs[n].tries[j]
            BY <1>1, <1>2, <3>3, <4>1
          <5> QED
            BY <3>1, <4>1, <5>1 DEF FrameScoped, c
        <4>2. CASE j = c + 1
          <5>1. hs2[fs[n].hbase + j] = h /\ fs2[n].tries[j] = tr /\ j - 1 = c
            BY <1>1, <1>2, <3>4, <4>2
          <5> QED
            BY <5>1 DEF c
        <4> QED
          BY <3>2, <4>1, <4>2
      <3>6. FrameScoped(fs2, hs2, n)
        BY <1>2, <1>5, <3>5 DEF FrameScoped
      <3>7. fs2[n].hbase + Len(fs2[n].tries) = m + 1
        BY <1>2, <1>5, <3>4
      <3> QED
        BY <1>0, <1>7, <2>1, <3>6, <3>7
    <2>2. CASE k \in 1..(n - 1)
      <3>1. /\ fs2[k] = fs[k] /\ fs[k].hbase + Len(fs[k].tries) = EndOf(fs, hs, k)
            /\ FrameScoped(fs, hs, k)
        BY <2>2 DEF ScopedOf
      <3>2. \A j \in 1..Len(fs[k].tries) : fs[k].hbase + j \in 1..m
        <4>1. PICK b \in Nat, x \in Nat : b = fs[k].hbase /\ x = Len(fs[k].tries)
          BY <1>0
        <4>2. b + x <= m
          BY <1>3, <3>1, <4>1
        <4>3. \A j \in 1..x : b + j \in 1..m
          BY <1>0, <4>2
        <4> QED
          BY <4>1, <4>3
      <3>3. FrameScoped(fs2, hs2, k)
        <4> SUFFICES ASSUME NEW j \in 1..Len(fs[k].tries)
                     PROVE  /\ hs2[fs[k].hbase + j] = [call_depth |-> k, sp_base |-> fs[k].tries[j].sp_base,
                                                       table |-> fs[k].tries[j].table]
                            /\ fs[k].tries[j].table.depth = j - 1
          BY <3>1 DEF FrameScoped
        <4>1. hs2[fs[k].hbase + j] = hs[fs[k].hbase + j]
          BY <1>1, <3>2
        <4> QED
          BY <3>1, <4>1 DEF FrameScoped
      <3> QED
        BY <1>3, <1>6, <2>2, <3>1, <3>3
    <2> QED
      BY <1>5, <2>1, <2>2
  <1>9. ASSUME NEW k \in 1..n, NEW l \in 1..n, k < l PROVE EndOf(fs2, hs2, k) <= fs2[l].hbase
    <2>1. k \in 1..(n - 1)
      BY <1>0, <1>9
    <2>2. EndOf(fs, hs, k) <= fs[l].hbase
      BY <1>9 DEF ScopedOf
    <2> QED
      BY <1>5, <1>6, <2>1, <2>2
  <1>10. ASSUME NEW i \in 1..(m + 1)
         PROVE  /\ hs2[i].call_depth \in 1..n
                /\ fs2[hs2[i].call_depth].hbase < i
                /\ i <= EndOf(fs2, hs2, hs2[i].call_depth)
    <2>1. CASE i \in 1..m
      <3>1. /\ hs[i].call_depth \in 1..n
            /\ fs[hs[i].call_depth].hbase < i
            /\ i <= EndOf(fs, hs, hs[i].call_depth)
        BY <2>1 DEF ScopedOf, m
      <3>2. i <= EndOf(fs2, hs2, hs[i].call_depth)
        BY <1>0, <1>5, <1>6, <1>7, <3>1
      <3> QED
        BY <1>1, <1>5, <2>1, <3>1, <3>2
    <2>2. CASE i = m + 1
      <3>1. hs2[i].call_depth = n
        BY <1>1, <2>2
      <3>2. fs[n].hbase < m + 1
        BY <1>0, <1>4
      <3> QED
        BY <1>0, <1>5, <1>7, <2>2, <3>1, <3>2
    <2> QED
      BY <1>0, <2>1, <2>2
  <1>11. fs2[1].hbase = 0
    BY <1>0, <1>5 DEF ScopedOf
  <1> QED
    BY <1>1, <1>8, <1>9, <1>10, <1>11 DEF ScopedOf, hs2
-----------------------------------------------------------------------------
(* WAH_DROP_FRAME_HANDLERS and TRIM_HANDLERS find the innermost frame's    *)
(* handlers by their call depth alone.                                     *)
LEMMA FrameBaseExact ==
    ASSUME frames \in Seq(Frame), handlers \in Seq(Handler), NEW e \in BOOLEAN,
           ScopedOf(frames, handlers, e), Depth > 0
    PROVE  /\ FrameBase = Top.hbase
           /\ FrameBase \in Nat /\ FrameBase <= Len(handlers)
  <1> DEFINE D == Depth
             b0 == Top.hbase
  <1>0. D \in Nat /\ D \in 1..D /\ Len(handlers) \in Nat
    BY LenProperties DEF Depth
  <1>1. b0 \in Nat /\ Len(frames[D].tries) \in Nat
    BY <1>0, FrameFacts DEF Depth, Top
  <1>2. b0 <= Len(handlers)
    <2>1. b0 + Len(frames[D].tries) <= Len(handlers)
      BY <1>0 DEF ScopedOf, EndOf, Depth, Top
    <2> QED
      BY <1>0, <1>1, <2>1
  <1>3. \A i \in 1..Len(handlers) : /\ handlers[i].call_depth \in 1..D
                                    /\ handlers[i].call_depth < D => i <= b0
                                    /\ handlers[i].call_depth >= D => i > b0
    <2> SUFFICES ASSUME NEW i \in 1..Len(handlers)
                 PROVE  /\ handlers[i].call_depth \in 1..D
                        /\ handlers[i].call_depth < D => i <= b0
                        /\ handlers[i].call_depth >= D => i > b0
      OBVIOUS
    <2>1. PICK k \in 1..D : k = handlers[i].call_depth
      BY DEF ScopedOf, Depth
    <2>2. frames[k].hbase < i /\ i <= EndOf(frames, handlers, k)
      BY <2>1 DEF ScopedOf
    <2>3. k < D => EndOf(frames, handlers, k) <= b0 /\ EndOf(frames, handlers, k) \in Nat
      BY <1>0, EndFacts DEF ScopedOf, Depth, Top
    <2>4. k < D => i <= b0
      BY <1>1, <2>2, <2>3
    <2>5. k >= D => k = D
      BY <1>0
    <2>6. k >= D => i > b0
      BY <1>1, <2>2, <2>5 DEF Top
    <2> QED
      BY <2>1, <2>4, <2>6
  <1> DEFINE P(b) == /\ b > 0 => handlers[b].call_depth < D
                     /\ \A i \in (b + 1)..Len(handlers) : handlers[i].call_depth >= D
  <1> HIDE DEF D, b0
  <1>4. b0 \in 0..Len(handlers) /\ P(b0)
    BY <1>0, <1>1, <1>2, <1>3
  <1>5. \A b \in 0..Len(handlers) : P(b) => b = b0
    <2> SUFFICES ASSUME NEW b \in 0..Len(handlers), P(b) PROVE b = b0
      OBVIOUS
    <2>1. ~(b > b0)
      BY <1>0, <1>1, <1>3
    <2>2. ~(b < b0)
      <3>1. ASSUME b < b0 PROVE FALSE
        <4>1. b0 \in (b + 1)..Len(handlers) /\ b0 \in 1..Len(handlers)
          BY <1>0, <1>1, <1>2, <3>1
        <4>2. handlers[b0].call_depth >= D
          BY <4>1
        <4> QED
          BY <1>1, <1>3, <4>1, <4>2
      <3> QED
        BY <3>1
    <2> QED
      BY <1>0, <1>1, <2>1, <2>2
  <1>6. FrameBase = CHOOSE b \in 0..Len(handlers) : P(b)
    BY DEF FrameBase, D
  <1> HIDE DEF P
  <1>7. FrameBase = b0
    BY <1>4, <1>5, <1>6
  <1> QED
    BY <1>1, <1>2, <1>7 DEF b0

(* Handlers further up the stack belong to the same frame or to inner ones. *)
LEMMA HandlerOrder ==
    ASSUME NEW fs \in Seq(Frame), NEW hs \in Seq(Handler), NEW e \in BOOLEAN, ScopedOf(fs, hs, e),
           NEW i \in 1..Len(hs), NEW j \in 1..Len(hs), i <= j
    PROVE  hs[i].call_depth <= hs[j].call_depth
  <1>0. Len(fs) \in Nat /\ Len(hs) \in Nat
    BY LenProperties
  <1>1. PICK k \in 1..Len(fs), l \in 1..Len(fs) : k = hs[i].call_depth /\ l = hs[j].call_depth
    BY DEF ScopedOf
  <1>2. fs[k].hbase < i /\ j <= EndOf(fs, hs, l)
    BY <1>1 DEF ScopedOf
  <1>3. fs[k].hbase \in Nat /\ EndOf(fs, hs, l) \in Nat
    BY FrameFacts, EndFacts
  <1>4. l < k => EndOf(fs, hs, l) <= fs[k].hbase
    BY DEF ScopedOf
  <1>5. ~(l < k)
    BY <1>0, <1>2, <1>3, <1>4
  <1> QED
    BY <1>0, <1>1, <1>5

(* wah_throw_exception unwinds to the frame that installed the handler.    *)
LEMMA UnwoundExact ==
    ASSUME frames \in Seq(Frame), handlers \in Seq(Handler), NEW e \in BOOLEAN,
           ScopedOf(frames, handlers, e), NEW i \in 1..Len(handlers)
    PROVE  Unwound(i) = handlers[i].call_depth
  <1>0. Depth \in Nat /\ Len(handlers) \in Nat
    BY LenProperties DEF Depth
  <1>1. \A k \in i..Len(handlers) : k \in 1..Len(handlers) /\ i <= k
    BY <1>0
  <1>2. \A k \in i..Len(handlers) : handlers[i].call_depth <= handlers[k].call_depth
    BY <1>1, HandlerOrder
  <1>3. PICK d \in 1..Depth : d = handlers[i].call_depth
    BY DEF ScopedOf, Depth
  <1>4. \A k \in i..Len(handlers) : handlers[k].call_depth \in 1..Depth
    BY <1>1 DEF ScopedOf, Depth
  <1>5. i \in i..Len(handlers) /\ d \in 0..Depth
    BY <1>0
  <1> DEFINE P(x) == /\ \A k \in i..Len(handlers) : x <= handlers[k].call_depth
                     /\ x = Depth \/ \E k \in i..Len(handlers) : x = handlers[k].call_depth
  <1>6. P(d)
    BY <1>2, <1>3, <1>5
  <1>7. \A x \in 0..Depth : P(x) => x = d
    <2> SUFFICES ASSUME NEW x \in 0..Depth, P(x) PROVE x = d
      OBVIOUS
    <2>1. x <= d
      BY <1>3, <1>5
    <2>2. x >= d
      BY <1>0, <1>2, <1>3, <1>4
    <2> QED
      BY <1>0, <2>1, <2>2
  <1>8. Unwound(i) = CHOOSE x \in 0..Depth : P(x)
    BY DEF Unwound
  <1> HIDE DEF P
  <1> QED
    BY <1>3, <1>5, <1>6, <1>7, <1>8

(* Without a handler that catches, it looks at all of them. *)
LEMMA UnwoundAll ==
    ASSUME frames \in Seq(Frame), handlers \in Seq(Handler), NEW e \in BOOLEAN,
           ScopedOf(frames, handlers, e)
    PROVE  Unwound(1) \in 0..Depth
  <1>0. Depth \in Nat /\ Len(handlers) \in Nat
    BY LenProperties DEF Depth
  <1>1. CASE Len(handlers) > 0
    <2>1. 1 \in 1..Len(handlers)
      BY <1>0, <1>1
    <2>2. Unwound(1) = handlers[1].call_depth
      BY <2>1, UnwoundExact
    <2>3. handlers[1].call_depth \in 1..Depth
      BY <2>1 DEF ScopedOf, Depth
    <2> QED
      BY <1>0, <2>2, <2>3
  <1>2. CASE ~(Len(handlers) > 0)
    <2>1. \A k : k \notin 1..Len(handlers)
      BY <1>0, <1>2
    <2> DEFINE P(x) == /\ \A k \in 1..Len(handlers) : x <= handlers[k].call_depth
                       /\ x = Depth \/ \E k \in 1..Len(handlers) : x = handlers[k].call_depth
    <2>2. Depth \in 0..Depth /\ P(Depth)
      BY <1>0, <2>1
    <2>3. Unwound(1) = CHOOSE x \in 0..Depth : P(x)
      BY DEF Unwound
    <2> HIDE DEF P
    <2> QED
      BY <2>2, <2>3
  <1> QED
    BY <1>1, <1>2

(* Between instructions every handler is one try_table of its frame. *)
LEMMA HandlerOwner ==
    ASSUME NEW fs \in Seq(Frame), NEW hs \in Seq(Handler), ScopedOf(fs, hs, TRUE), NEW i \in 1..Len(hs)
    PROVE  \E d \in 1..Len(fs) : \E j \in 1..Len(fs[d].tries) :
              /\ i = fs[d].hbase + j /\ i <= EndOf(fs, hs, d)
              /\ hs[i] = [call_depth |-> d, sp_base |-> fs[d].tries[j].sp_base,
                          table |-> fs[d].tries[j].table]
              /\ fs[d].tries[j].table.depth = j - 1
  <1>1. PICK d \in 1..Len(fs) : d = hs[i].call_depth
    BY DEF ScopedOf
  <1>2. /\ fs[d].hbase < i /\ i <= EndOf(fs, hs, d)
        /\ fs[d].hbase + Len(fs[d].tries) = EndOf(fs, hs, d)
        /\ FrameScoped(fs, hs, d)
    BY <1>1 DEF ScopedOf
  <1>3. PICK b \in Nat, c \in Nat : b = fs[d].hbase /\ c = Len(fs[d].tries)
    BY FrameFacts
  <1>4. Len(hs) \in Nat
    BY LenProperties
  <1>5. i - b \in 1..c /\ i = b + (i - b)
    BY <1>2, <1>3, <1>4
  <1>6. PICK j \in 1..c : i = b + j
    BY <1>5
  <1>7. /\ hs[fs[d].hbase + j] = [call_depth |-> d, sp_base |-> fs[d].tries[j].sp_base,
                                  table |-> fs[d].tries[j].table]
        /\ fs[d].tries[j].table.depth = j - 1
    BY <1>2, <1>3, <1>6 DEF FrameScoped
  <1> QED
    BY <1>2, <1>3, <1>6, <1>7
-----------------------------------------------------------------------------
(* Cutting the frames back to the d-th, which may be replaced by a frame   *)
(* in the same place, keeps them nested.                                   *)
LEMMA CutNested ==
    ASSUME NEW fs \in Seq(Frame), NestedOf(fs), NEW d \in 1..Len(fs),
           NEW fs2 \in Seq(Frame), Len(fs2) = d, \A k \in 1..(d - 1) : fs2[k] = fs[k],
           fs2[d].locals = fs[d].locals, fs2[d].results = fs[d].results, FrameNested(fs2, d)
    PROVE  NestedOf(fs2)
  <1>0. Len(fs) \in Nat /\ d \in Nat
    BY LenProperties
  <1>1. \A k \in 1..(d - 1) : /\ k \in 1..Len(fs) /\ k \in 1..(Len(fs) - 1) /\ k + 1 \in 1..d
                              /\ (k + 1 \in 1..(d - 1) \/ k + 1 = d)
    BY <1>0
  <1>2. \A k \in 1..(d - 1) : fs2[k + 1].locals = fs[k + 1].locals /\ fs2[k + 1].results = fs[k + 1].results
    BY <1>1
  <1>3. \A k \in 1..(d - 1) : FrameNested(fs2, k)
    BY <1>1 DEF NestedOf, FrameNested
  <1>4. \A k \in 1..d : k \in 1..(d - 1) \/ k = d
    BY <1>0
  <1>5. \A k \in 1..(d - 1) : /\ fs2[k + 1].locals \in fs2[k].floor..fs2[k].top
                              /\ fs2[k + 1].locals + fs2[k + 1].results <= fs2[k].top
    BY <1>1, <1>2 DEF NestedOf
  <1> QED
    BY <1>3, <1>4, <1>5 DEF NestedOf

(* A call whose parameters and results are operands of the caller. *)
LEMMA PushNested ==
    ASSUME NEW fs \in Seq(Frame), NestedOf(fs), NEW fr \in Frame,
           FrameNested(Append(fs, fr), Len(fs) + 1),
           Len(fs) > 0 => /\ fr.locals \in fs[Len(fs)].floor..fs[Len(fs)].top
                          /\ fr.locals + fr.results <= fs[Len(fs)].top
    PROVE  NestedOf(Append(fs, fr))
  <1> DEFINE fs2 == Append(fs, fr)
             n == Len(fs)
  <1>0. n \in Nat
    BY LenProperties
  <1>1. Len(fs2) = n + 1 /\ fs2[n + 1] = fr /\ \A k \in 1..n : fs2[k] = fs[k]
    BY AppendFacts
  <1> HIDE DEF fs2
  <1>2. \A k \in 1..n : FrameNested(fs2, k)
    BY <1>1 DEF NestedOf, FrameNested
  <1>3. \A k \in 1..(n + 1) : k \in 1..n \/ k = n + 1
    BY <1>0
  <1>4. ASSUME NEW k \in 1..n
        PROVE  /\ fs2[k + 1].locals \in fs2[k].floor..fs2[k].top
               /\ fs2[k + 1].locals + fs2[k + 1].results <= fs2[k].top
    <2>1. CASE k = n
      <3>1. n > 0
        BY <1>0, <2>1
      <3> QED
        BY <1>1, <2>1, <3>1
    <2>2. CASE k # n
      <3>1. k \in 1..(n - 1) /\ k + 1 \in 1..n
        BY <1>0, <2>2
      <3> QED
        BY <1>1, <3>1 DEF NestedOf
    <2> QED
      BY <2>1, <2>2
  <1>5. (n + 1) - 1 = n
    BY <1>0
  <1>6. FrameNested(fs2, n + 1)
    BY DEF fs2
  <1> QED
    BY <1>1, <1>2, <1>3, <1>4, <1>5, <1>6 DEF NestedOf, fs2

(* A branch leaves the frame where it is, with the first of its try_tables. *)
LEMMA JumpFacts ==
    ASSUME NEW fr \in Frame, NEW label \in Labels, label <= Len(fr.tries) \/ label = FuncEnd
    PROVE  \E t \in 0..Len(fr.tries) :
              /\ t = IF label = FuncEnd THEN 0 ELSE label
              /\ AtLabel(fr, label) \in Frame
              /\ AtLabel(fr, label).tries = SubSeq(fr.tries, 1, t)
              /\ AtLabel(fr, label).locals = fr.locals /\ AtLabel(fr, label).floor = fr.floor
              /\ AtLabel(fr, label).top = fr.top /\ AtLabel(fr, label).results = fr.results
              /\ AtLabel(fr, label).hbase = fr.hbase
  <1>1. fr.tries \in Seq(Try) /\ Len(fr.tries) \in Nat
    BY LenProperties DEF Frame, Try
  <1>2. MaxTries \in Nat
    BY ExecAssumption
  <1>3. label \in Nat
    BY <1>2 DEF Labels, FuncEnd
  <1> DEFINE t == IF label = FuncEnd THEN 0 ELSE label
             s == SubSeq(fr.tries, 1, t)
  <1>4. t \in 0..Len(fr.tries) /\ t \in Nat
    BY <1>1, <1>3
  <1>5. s \in Seq(Try) /\ Len(s) = t
    BY <1>1, <1>4, PrefixFacts
  <1>6. label = FuncEnd => s = <<>>
    BY <1>5, EmptySeq
  <1>7. AtLabel(fr, label) = [fr EXCEPT !.tries = s]
    BY <1>6 DEF AtLabel
  <1> HIDE DEF s, t
  <1>8. /\ [fr EXCEPT !.tries = s] \in Frame
        /\ [fr EXCEPT !.tries = s].tries = s
        /\ [fr EXCEPT !.tries = s].locals = fr.locals /\ [fr EXCEPT !.tries = s].floor = fr.floor
        /\ [fr EXCEPT !.tries = s].top = fr.top /\ [fr EXCEPT !.tries = s].results = fr.results
        /\ [fr EXCEPT !.tries = s].hbase = fr.hbase
    BY <1>5 DEF Frame, Try
  <1> QED
    BY <1>4, <1>7, <1>8 DEF s, t
(* The same place, with the first t of its try_tables. *)
LEMMA CutTries ==
    ASSUME NEW fs \in Seq(Frame), NestedOf(fs), NEW d \in 1..Len(fs), NEW t \in 0..Len(fs[d].tries),
           NEW fs2 \in Seq(Frame), Len(fs2) = d, \A k \in 1..(d - 1) : fs2[k] = fs[k],
           fs2[d].locals = fs[d].locals, fs2[d].floor = fs[d].floor, fs2[d].top = fs[d].top,
           fs2[d].results = fs[d].results, fs2[d].tries = SubSeq(fs[d].tries, 1, t)
    PROVE  NestedOf(fs2)
  <1>1. fs[d].tries \in Seq(Try) /\ Len(fs[d].tries) \in Nat
    BY FrameFacts
  <1>2. Len(fs2[d].tries) = t /\ \A j \in 1..t : fs2[d].tries[j] = fs[d].tries[j]
    BY <1>1, PrefixFacts
  <1>3. \A j \in 1..t : j \in 1..Len(fs[d].tries)
    BY <1>1
  <1>4. FrameNested(fs, d)
    BY DEF NestedOf
  <1>5. FrameNested(fs2, d)
    BY <1>2, <1>3, <1>4 DEF FrameNested
  <1> QED
    BY <1>5, CutNested
-----------------------------------------------------------------------------
(* What holds while the interpreter runs: there is a frame. *)
LEMMA InterpretFacts ==
    ASSUME StackInv, Interpreting
    PROVE  /\ frames \in Seq(Frame) /\ handlers \in Seq(Handler)
           /\ Len(handlers) \in Nat /\ Len(handlers) <= MaxHandlers /\ StackSize \in Nat
           /\ Depth \in Nat /\ Depth > 0 /\ Depth = Len(frames) /\ Depth \in 1..Depth
           /\ Top \in Frame /\ Top = frames[Depth]
           /\ Top.locals \in Nat /\ Top.floor \in Nat /\ Top.top \in Nat /\ Top.results \in Nat
           /\ Top.hbase \in Nat /\ Top.tries \in Seq(Try) /\ Len(Top.tries) \in Nat
           /\ Top.locals <= Top.floor /\ Top.floor <= Top.top /\ Top.top <= FramePtr(Depth)
           /\ sp \in Nat /\ sp <= FramePtr(Depth)
           /\ NestedOf(frames) /\ ScopedOf(frames, handlers, landing = "no")
           /\ landing # "pop" => sp >= Top.floor /\ sp <= Top.top
           /\ entry \in Funcs /\ ~entry.host /\ ~pending
  <1>1. state = "RUNNING" /\ host = None /\ Active
    BY DEF Interpreting, Active
  <1>2. StackSize \in Nat /\ None \notin Funcs
    BY ExecAssumption
  <1>3. frames \in Seq(Frame) /\ handlers \in Seq(Handler) /\ Len(handlers) <= MaxHandlers /\ sp \in 0..StackSize
    BY DEF StackInv, TypeOK
  <1>4. Depth \in Nat /\ Len(handlers) \in Nat /\ Depth = Len(frames) /\ sp \in Nat
    BY <1>2, <1>3, LenProperties DEF Depth
  <1>5. entry \in Funcs /\ (entry.host <=> Depth = 0) /\ ~pending
    BY <1>1 DEF StackInv, Lifecycle
  <1>6. Depth # 0
    BY <1>1, <1>2, <1>5 DEF StackInv, Lifecycle
  <1>7. Depth > 0 /\ Depth \in 1..Depth
    BY <1>4, <1>6
  <1>8. /\ NestedOf(frames) /\ sp <= FramePtr(Depth)
        /\ landing # "pop" => sp \in Top.floor..Top.top
    BY <1>1, <1>7 DEF StackInv, Nested
  <1>9. ScopedOf(frames, handlers, landing = "no")
    BY <1>1 DEF StackInv, Scoped
  <1>10. Top = frames[Depth]
    BY DEF Top
  <1>11. /\ Top \in Frame
         /\ Top.locals \in 0..StackSize /\ Top.floor \in 0..StackSize /\ Top.top \in 0..StackSize
         /\ Top.results \in Nat /\ Top.hbase \in Nat /\ Top.tries \in Seq(Try) /\ Len(Top.tries) \in Nat
    BY <1>3, <1>4, <1>7, <1>10, FrameFacts
  <1>12. FrameNested(frames, Depth)
    BY <1>4, <1>7, <1>8 DEF NestedOf
  <1>13. Top.locals <= Top.floor /\ Top.floor <= Top.top /\ Top.top <= FramePtr(Depth)
    BY <1>10, <1>12 DEF FrameNested
  <1>14. landing # "pop" => sp >= Top.floor /\ sp <= Top.top
    BY <1>4, <1>8, <1>11
  <1>15. Top.locals \in Nat /\ Top.floor \in Nat /\ Top.top \in Nat
    BY <1>2, <1>11
  <1> QED
    BY <1>2, <1>3, <1>4, <1>5, <1>6, <1>7, <1>8, <1>9, <1>10, <1>11, <1>13, <1>14, <1>15

(* What the program knows about a function. *)
LEMMA FuncFacts ==
    ASSUME NEW f \in Funcs
    PROVE  /\ f.params \in Nat /\ f.locals \in Nat /\ f.slots \in Nat /\ f.results \in Nat
           /\ f.host \in BOOLEAN /\ f # None
           /\ ~f.host => f.locals + f.results <= f.slots
  BY ExecAssumption

(* Steps that go on in a frame, or suspend, keep the invariant if they     *)
(* keep the stacks.                                                        *)
LEMMA GoOnKeeps ==
    ASSUME StackInv, state = "RUNNING", Depth > 0,
           state' \in {"RUNNING", "SUSPENDED"}, UNCHANGED lifecycle, host' = None,
           pending' = pending \/ pending' = FALSE,
           NEW fs \in Seq(Frame), fs = frames', Len(fs) > 0,
           NEW hs \in Seq(Handler), hs = handlers', Len(hs) <= MaxHandlers,
           NEW n \in Nat, n = sp', n <= FramePtr(Len(fs)),
           landing' \in {"no", "trim", "end", "pop"}, NestedOf(fs),
           landing' # "pop" => n >= fs[Len(fs)].floor /\ n <= fs[Len(fs)].top,
           ScopedOf(fs, hs, landing' = "no")
    PROVE  StackInv'
  <1>0. StackSize \in Nat /\ entry \in Funcs /\ ~entry.host /\ ~pending
    <2>1. Active /\ StackSize \in Nat /\ Depth # 0
      BY ExecAssumption, LenProperties DEF Active, StackInv, TypeOK, Depth
    <2> QED
      BY <2>1 DEF StackInv, Lifecycle
  <1>1. base' = base /\ entry' = entry /\ mode' = mode /\ host' = None /\ pending' = FALSE
    BY <1>0 DEF lifecycle, StackInv, TypeOK
  <1>2. Len(fs) \in Nat /\ n \in 0..StackSize
    BY <1>0, LenProperties DEF FramePtr
  <1>3. TypeOK'
    <2>1. /\ base \in [sp : 0..StackSize, handlers : Nat, frames : Nat]
          /\ entry \in Funcs \cup {None} /\ mode \in {"api", "enter", "leave"}
      BY DEF StackInv, TypeOK
    <2>2. state' \in States
      BY DEF States
    <2>3. base' \in [sp : 0..StackSize, handlers : Nat, frames : Nat]
      BY <1>1, <2>1
    <2>4. entry' \in Funcs \cup {None} /\ mode' \in {"api", "enter", "leave"} /\ host' \in Funcs \cup {None}
      BY <1>1, <2>1
    <2>5. handlers' \in Seq(Handler) /\ Len(handlers') <= MaxHandlers /\ frames' \in Seq(Frame)
      OBVIOUS
    <2>6. sp' \in 0..StackSize /\ pending' \in BOOLEAN
      BY <1>1, <1>2
    <2> QED
      BY <2>2, <2>3, <2>4, <2>5, <2>6 DEF TypeOK
  <1>4. Depth' = Len(fs) /\ Top' = fs[Len(fs)] /\ Len(fs) # 0
    BY <1>2 DEF Depth, Top
  <1>5. Lifecycle'
    <2>1. base = [sp |-> 0, handlers |-> 0, frames |-> 0]
      BY DEF StackInv, Lifecycle
    <2> QED
      BY <1>0, <1>1, <1>4, <2>1 DEF Lifecycle, ReadyIsClean
  <1>6. HostCall'
    BY <1>1 DEF HostCall
  <1>7. Nested'
    <2>1. fs[Len(fs)].floor \in Nat /\ fs[Len(fs)].top \in Nat
      <3>1. Len(fs) \in 1..Len(fs)
        BY <1>2
      <3>2. fs[Len(fs)].floor \in 0..StackSize /\ fs[Len(fs)].top \in 0..StackSize
        BY <3>1, FrameFacts
      <3> QED
        BY <1>0, <3>2
    <2>2. landing' # "pop" => n \in fs[Len(fs)].floor..fs[Len(fs)].top
      BY <2>1
    <2>3. NestedOf(frames)' /\ FramePtr(Depth)' = FramePtr(Len(fs))
      BY <1>4 DEF NestedOf, FrameNested, FramePtr
    <2> QED
      BY <1>4, <2>2, <2>3 DEF Nested
  <1>8. Scoped'
    BY DEF Scoped, ScopedOf, FrameScoped, EndOf
  <1> QED
    BY <1>3, <1>5, <1>6, <1>7, <1>8 DEF StackInv

LEMMA RunKeeps ==
    ASSUME StackInv, Interpreting, state' \in {"RUNNING", "SUSPENDED"}, UNCHANGED <<lifecycle, host>>,
           pending' = pending \/ pending' = FALSE,
           NEW fs \in Seq(Frame), fs = frames', Len(fs) > 0,
           NEW hs \in Seq(Handler), hs = handlers', Len(hs) <= MaxHandlers,
           NEW n \in Nat, n = sp', n <= FramePtr(Len(fs)),
           landing' \in {"no", "trim", "end", "pop"}, NestedOf(fs),
           landing' # "pop" => n >= fs[Len(fs)].floor /\ n <= fs[Len(fs)].top,
           ScopedOf(fs, hs, landing' = "no")
    PROVE  StackInv'
  <1>1. state = "RUNNING" /\ Depth > 0 /\ UNCHANGED lifecycle /\ host' = None
    BY InterpretFacts DEF Interpreting
  <1> QED
    BY <1>1, GoOnKeeps

(* Steps that end the activation keep the stacks apart; what is on them    *)
(* does not matter any more.                                               *)
LEMMA StopKeeps ==
    ASSUME StackInv, state = "RUNNING", state' \in {"TRAPPED", "FINISHED"}, UNCHANGED lifecycle, host' = None,
           pending' \in BOOLEAN, pending' => state' = "TRAPPED",
           NEW fs \in Seq(Frame), fs = frames',
           NEW hs \in Seq(Handler), hs = handlers', Len(hs) <= MaxHandlers,
           NEW n \in Nat, n = sp', n <= FramePtr(Len(fs)),
           landing' \in {"no", "trim", "end", "pop"}
    PROVE  StackInv'
  <1>0. StackSize \in Nat
    BY ExecAssumption
  <1>1. base' = base /\ entry' = entry /\ mode' = mode
    BY DEF lifecycle
  <1>2. Len(fs) \in Nat /\ n \in 0..StackSize
    BY <1>0, LenProperties DEF FramePtr
  <1>3. TypeOK'
    <2>1. /\ base \in [sp : 0..StackSize, handlers : Nat, frames : Nat]
          /\ entry \in Funcs \cup {None} /\ mode \in {"api", "enter", "leave"}
      BY DEF StackInv, TypeOK
    <2>2. state' \in States /\ host' \in Funcs \cup {None}
      BY DEF States
    <2>3. base' \in [sp : 0..StackSize, handlers : Nat, frames : Nat]
      BY <1>1, <2>1
    <2>4. entry' \in Funcs \cup {None} /\ mode' \in {"api", "enter", "leave"}
      BY <1>1, <2>1
    <2>5. handlers' \in Seq(Handler) /\ Len(handlers') <= MaxHandlers /\ frames' \in Seq(Frame)
      OBVIOUS
    <2>6. sp' \in 0..StackSize
      BY <1>2
    <2> QED
      BY <2>2, <2>3, <2>4, <2>5, <2>6 DEF TypeOK
  <1>4. Depth' = Len(fs) /\ ~Active'
    BY DEF Depth, Active
  <1>5. Lifecycle'
    <2>1. base = [sp |-> 0, handlers |-> 0, frames |-> 0]
      BY DEF StackInv, Lifecycle
    <2> QED
      BY <1>1, <1>4, <2>1 DEF Lifecycle, ReadyIsClean
  <1>6. HostCall' /\ Scoped'
    BY <1>4 DEF HostCall, Scoped
  <1>7. Nested'
    <2>1. FramePtr(Depth)' = FramePtr(Len(fs))
      BY <1>4 DEF FramePtr
    <2> QED
      BY <1>4, <2>1 DEF Nested
  <1> QED
    BY <1>3, <1>5, <1>6, <1>7 DEF StackInv
LEMMA CodeFacts ==
    ASSUME StackInv, InCode
    PROVE  /\ Interpreting /\ landing = "no" /\ state = "RUNNING" /\ host = None
           /\ sp >= Top.floor /\ sp <= Top.top
           /\ ScopedOf(frames, handlers, TRUE)
  <1>1. Interpreting /\ landing = "no" /\ state = "RUNNING" /\ host = None
    BY DEF InCode, Interpreting
  <1>2. sp >= Top.floor /\ sp <= Top.top /\ ScopedOf(frames, handlers, landing = "no")
    BY <1>1, InterpretFacts
  <1>3. (landing = "no") = TRUE
    BY <1>1
  <1> QED
    BY <1>1, <1>2, <1>3

(* An instruction that fails may leave fewer handlers and frames. *)
LEMMA TrapsKeeps ==
    ASSUME StackInv, Interpreting, Traps, sp' = sp, pending' \in BOOLEAN,
           NEW d \in 0..Depth, (frames' = frames /\ d = Depth) \/ frames' = SubSeq(frames, 1, d),
           NEW m \in 0..Len(handlers), handlers' = handlers \/ handlers' = SubSeq(handlers, 1, m)
    PROVE  StackInv'
  <1>0. /\ frames \in Seq(Frame) /\ handlers \in Seq(Handler) /\ Len(handlers) <= MaxHandlers
        /\ Len(handlers) \in Nat /\ StackSize \in Nat
        /\ Depth \in Nat /\ Depth = Len(frames) /\ sp \in Nat /\ sp <= FramePtr(Depth)
    BY InterpretFacts
  <1>1. d \in Nat /\ m \in Nat /\ d <= Len(frames) /\ m <= Len(handlers)
    BY <1>0
  <1>2. PICK fs \in Seq(Frame) : fs = frames' /\ Len(fs) = d
    BY <1>0, <1>1, PrefixFacts
  <1>3. PICK hs \in Seq(Handler) : hs = handlers' /\ (Len(hs) = Len(handlers) \/ Len(hs) = m)
    BY <1>0, <1>1, PrefixFacts
  <1>4. Len(hs) <= MaxHandlers
    <2>1. MaxHandlers \in Nat
      BY ExecAssumption
    <2> QED
      BY <1>0, <1>1, <1>3, <2>1
  <1>5. sp <= FramePtr(Len(fs))
    BY <1>0, <1>1, <1>2 DEF FramePtr
  <1>6. /\ state = "RUNNING" /\ state' = "TRAPPED" /\ UNCHANGED lifecycle /\ host' = None
        /\ landing' = landing
    BY DEF Traps, Interpreting
  <1>7. landing' \in {"no", "trim", "end", "pop"}
    BY <1>6 DEF StackInv, TypeOK
  <1> QED
    BY <1>0, <1>2, <1>3, <1>4, <1>5, <1>6, <1>7, StopKeeps

LEMMA TrapStep ==
    ASSUME StackInv, Trap PROVE StackInv'
  <1>1. Interpreting /\ Traps /\ sp' = sp /\ frames' = frames /\ handlers' = handlers /\ pending' \in BOOLEAN
    BY CodeFacts DEF Trap, stack, StackInv, TypeOK
  <1>2. Depth \in 0..Depth /\ 0 \in 0..Len(handlers)
    BY <1>1, InterpretFacts
  <1> QED
    BY <1>1, <1>2, TrapsKeeps

LEMMA SuspendStep ==
    ASSUME StackInv, Suspend PROVE StackInv'
  <1>1. /\ Interpreting /\ state' = "SUSPENDED" /\ UNCHANGED <<lifecycle, host>> /\ landing' = landing
        /\ pending' = pending /\ sp' = sp /\ frames' = frames /\ handlers' = handlers
    BY DEF Suspend, stack
  <1>2. landing \in {"no", "trim", "end", "pop"}
    BY DEF StackInv, TypeOK
  <1> QED
    BY <1>1, <1>2, InterpretFacts, RunKeeps

LEMMA OperateStep ==
    ASSUME StackInv, NEW n \in Heights, Operate(n) PROVE StackInv'
  <1>1. /\ InCode /\ Interpreting /\ landing = "no" /\ state' = "RUNNING" /\ UNCHANGED <<lifecycle, host>>
        /\ landing' = "no" /\ pending' = pending /\ sp' = n /\ frames' = frames /\ handlers' = handlers
    BY CodeFacts DEF Operate
  <1>2. n \in Top.floor..Top.top
    BY <1>1 DEF Heights
  <1>3. /\ StackSize \in Nat /\ Depth \in Nat /\ Top.floor \in Nat /\ Top.top \in Nat /\ Top.top <= FramePtr(Depth)
    BY <1>1, InterpretFacts
  <1>4. n \in Nat /\ n <= FramePtr(Depth) /\ n >= Top.floor /\ n <= Top.top
    BY <1>2, <1>3 DEF FramePtr
  <1> QED
    BY <1>1, <1>4, InterpretFacts, RunKeeps

LEMMA TryTableStep ==
    ASSUME StackInv, NEW tb \in Tables, TryTable(tb) PROVE StackInv'
  <1> DEFINE tr == [sp_base |-> sp, table |-> tb]
             h == [call_depth |-> Depth, sp_base |-> sp, table |-> tb]
             fr == [Top EXCEPT !.tries = Append(@, tr)]
             fs == [frames EXCEPT ![Depth] = fr]
             hs == Append(handlers, h)
  <1>0. InCode /\ Interpreting /\ landing = "no" /\ state = "RUNNING" /\ sp' = sp /\ pending' = pending
    BY CodeFacts DEF TryTable
  <1>1. CASE Len(handlers) >= MaxHandlers
    <2>1. Traps /\ frames' = frames /\ handlers' = handlers /\ pending' \in BOOLEAN
      BY <1>0, <1>1 DEF TryTable, StackInv, TypeOK
    <2>2. Depth \in 0..Depth /\ 0 \in 0..Len(handlers)
      BY <1>0, InterpretFacts
    <2> QED
      BY <1>0, <2>1, <2>2, TrapsKeeps
  <1>2. CASE ~(Len(handlers) >= MaxHandlers)
    <2>1. /\ handlers' = hs /\ frames' = fs /\ state' = "RUNNING" /\ UNCHANGED <<lifecycle, host>>
          /\ landing' = "no" /\ tb.depth = Len(Top.tries)
      BY <1>0, <1>2 DEF TryTable, SetTop
    <2>2. /\ frames \in Seq(Frame) /\ handlers \in Seq(Handler) /\ Len(handlers) \in Nat
          /\ StackSize \in Nat /\ sp \in Nat /\ sp <= FramePtr(Depth)
          /\ Depth \in Nat /\ Depth > 0 /\ Depth = Len(frames) /\ Depth \in 1..Depth /\ Depth \in 1..Len(frames)
          /\ Top \in Frame /\ Top = frames[Depth]
          /\ Top.tries \in Seq(Try) /\ Len(Top.tries) \in Nat /\ Top.floor \in Nat /\ Top.top \in Nat
          /\ NestedOf(frames)
      BY <1>0, InterpretFacts
    <2>3. sp >= Top.floor /\ sp <= Top.top /\ ScopedOf(frames, handlers, TRUE)
      BY <1>0, CodeFacts
    <2>4. sp \in 0..StackSize
      BY DEF StackInv, TypeOK
    <2>5. tr \in Try /\ h \in Handler
      BY <2>2, <2>4 DEF Try, Handler
    <2>6. Append(Top.tries, tr) \in Seq(Try)
      BY <2>2, <2>5, AppendFacts
    <2>7. /\ fr \in Frame /\ fr.tries = Append(Top.tries, tr) /\ fr.hbase = Top.hbase
          /\ fr.locals = Top.locals /\ fr.floor = Top.floor /\ fr.top = Top.top /\ fr.results = Top.results
      BY <2>2, <2>6 DEF Frame, Try
    <2> HIDE DEF fr
    <2>8. /\ fs \in Seq(Frame) /\ Len(fs) = Depth /\ fs[Depth] = fr
          /\ \A k \in 1..Len(frames) : k # Depth => fs[k] = frames[k]
      BY <2>2, <2>7, ExceptFacts
    <2>9. \A k \in 1..(Depth - 1) : k \in 1..Len(frames) /\ k # Depth
      BY <2>2
    <2>10. \A k \in 1..(Depth - 1) : fs[k] = frames[k]
      BY <2>8, <2>9
    <2>11. /\ Len(fr.tries) = Len(Top.tries) + 1 /\ fr.tries[Len(Top.tries) + 1] = tr
           /\ \A j \in 1..Len(Top.tries) : fr.tries[j] = Top.tries[j]
      BY <2>2, <2>5, <2>7, AppendFacts
    <2>12. hs \in Seq(Handler) /\ Len(hs) = Len(handlers) + 1
      BY <2>2, <2>5, AppendFacts
    <2>13. Len(hs) <= MaxHandlers
      <3>1. MaxHandlers \in Nat
        BY ExecAssumption
      <3> QED
        BY <1>2, <2>2, <2>12, <3>1
    <2> DEFINE c == Len(Top.tries)
    <2>14. FrameNested(frames, Depth) /\ \A j \in 1..(c + 1) : j \in 1..c \/ j = c + 1
      BY <2>2 DEF NestedOf
    <2>15. sp \in Top.floor..Top.top /\ tr.sp_base = sp
      BY <2>2, <2>3
    <2> HIDE DEF fs, hs, tr, h, c
    <2>16. FrameNested(fs, Depth)
      BY <2>2, <2>7, <2>8, <2>11, <2>14, <2>15 DEF FrameNested, c
    <2>17. NestedOf(fs)
      BY <2>2, <2>7, <2>8, <2>10, <2>16, CutNested
    <2>18. ScopedOf(fs, hs, TRUE)
      <3>1. tr.table.depth = Len(frames[Depth].tries)
        BY <2>1, <2>2 DEF tr
      <3>2. h = [call_depth |-> Depth, sp_base |-> tr.sp_base, table |-> tr.table]
        BY DEF h, tr
      <3> QED
        BY <2>2, <2>3, <2>5, <2>7, <2>8, <2>10, <3>1, <3>2, TryScoped DEF hs
    <2>19. ScopedOf(fs, hs, landing' = "no")
      <3>1. (landing' = "no") = TRUE
        BY <2>1
      <3> QED
        BY <2>18, <3>1
    <2> QED
      BY <1>0, <2>1, <2>2, <2>3, <2>7, <2>8, <2>12, <2>13, <2>17, <2>19, RunKeeps
  <1> QED
    BY <1>1, <1>2
LEMMA WholePrefix ==
    ASSUME NEW S, NEW s \in Seq(S)
    PROVE  SubSeq(s, 1, Len(s)) = s
  <1>1. Len(s) \in Nat
    BY LenProperties
  <1>2. /\ SubSeq(s, 1, Len(s)) \in Seq(S) /\ Len(SubSeq(s, 1, Len(s))) = Len(s)
        /\ \A i \in 1..Len(s) : SubSeq(s, 1, Len(s))[i] = s[i]
    BY <1>1, PrefixFacts
  <1> QED
    BY <1>2, SeqEqual

(* A jump to a label of the d-th frame, with the first t of its try_tables *)
(* around the label and m handlers left.                                   *)
LEMMA JumpKeeps ==
    ASSUME StackInv, Interpreting, state' = "RUNNING", UNCHANGED <<lifecycle, host>>,
           pending' = pending \/ pending' = FALSE,
           NEW d \in 1..Depth, NEW t \in 0..Len(frames[d].tries),
           NEW fs \in Seq(Frame), fs = frames', Len(fs) = d, \A k \in 1..(d - 1) : fs[k] = frames[k],
           fs[d].locals = frames[d].locals, fs[d].floor = frames[d].floor, fs[d].top = frames[d].top,
           fs[d].results = frames[d].results, fs[d].hbase = frames[d].hbase,
           fs[d].tries = SubSeq(frames[d].tries, 1, t),
           NEW m \in Nat, frames[d].hbase + t <= m, m <= EndOf(frames, handlers, d),
           handlers' = SubSeq(handlers, 1, m),
           landing' \in {"no", "trim", "end"}, landing' = "no" => m = frames[d].hbase + t,
           NEW n \in Nat, n = sp', n >= frames[d].floor, n <= frames[d].top
    PROVE  StackInv'
  <1>0. /\ frames \in Seq(Frame) /\ handlers \in Seq(Handler) /\ Depth = Len(frames) /\ Depth \in Nat
        /\ Len(handlers) \in Nat /\ Len(handlers) <= MaxHandlers /\ StackSize \in Nat
        /\ NestedOf(frames) /\ ScopedOf(frames, handlers, landing = "no")
    BY InterpretFacts
  <1>1. d \in 1..Len(frames) /\ Len(fs) > 0 /\ d \in Nat
    BY <1>0
  <1>2. NestedOf(fs)
    BY <1>0, <1>1, CutTries
  <1>3. m <= Len(handlers) /\ ScopedOf(fs, SubSeq(handlers, 1, m), landing' = "no")
    <2>1. PICK e \in BOOLEAN : e = (landing = "no")
      OBVIOUS
    <2>2. PICK e2 \in BOOLEAN : e2 = (landing' = "no")
      OBVIOUS
    <2>3. ScopedOf(frames, handlers, e) /\ (e2 => m = frames[d].hbase + t)
      BY <1>0, <2>1, <2>2
    <2>4. IsCut(frames, handlers, d, t, m, fs, e2)
      BY <2>3 DEF IsCut
    <2>5. frames \in Seq(Frame) /\ handlers \in Seq(Handler) /\ d \in 1..Len(frames)
      BY <1>0, <1>1
    <2>6. m <= Len(handlers) /\ ScopedOf(fs, SubSeq(handlers, 1, m), e2)
      BY <2>3, <2>4, <2>5, CutIsScoped
    <2> QED
      BY <2>2, <2>6
  <1>4. PICK hs \in Seq(Handler) : hs = SubSeq(handlers, 1, m) /\ Len(hs) = m
    <2>1. SubSeq(handlers, 1, m) \in Seq(Handler) /\ Len(SubSeq(handlers, 1, m)) = m
      BY <1>0, <1>3, PrefixFacts
    <2> QED
      BY <2>1
  <1>5. Len(hs) <= MaxHandlers
    <2>1. MaxHandlers \in Nat
      BY ExecAssumption
    <2> QED
      BY <1>0, <1>3, <1>4, <2>1
  <1>6. n <= FramePtr(Len(fs))
    <2>1. FrameNested(frames, d)
      BY <1>0, <1>1 DEF NestedOf
    <2>2. frames[d].top <= FramePtr(d) /\ frames[d].top \in 0..StackSize
      BY <1>0, <1>1, <2>1, FrameFacts DEF FrameNested
    <2> QED
      BY <1>0, <1>1, <2>2 DEF FramePtr
  <1>7. n >= fs[Len(fs)].floor /\ n <= fs[Len(fs)].top
    OBVIOUS
  <1>8. ScopedOf(fs, hs, landing' = "no") /\ hs = handlers'
    BY <1>3, <1>4
  <1> QED
    BY <1>1, <1>2, <1>5, <1>6, <1>7, <1>8, RunKeeps

(* Replacing the innermost frame. *)
LEMMA SetTopFacts ==
    ASSUME StackInv, Interpreting, NEW fr \in Frame
    PROVE  /\ SetTop(fr) \in Seq(Frame) /\ Len(SetTop(fr)) = Depth /\ SetTop(fr)[Depth] = fr
           /\ \A k \in 1..(Depth - 1) : SetTop(fr)[k] = frames[k]
  <1>0. /\ frames \in Seq(Frame) /\ Depth = Len(frames) /\ Depth \in Nat /\ Depth \in 1..Len(frames)
    BY InterpretFacts
  <1>1. \A k \in 1..(Depth - 1) : k \in 1..Len(frames) /\ k # Depth
    BY <1>0
  <1> QED
    BY <1>0, <1>1, ExceptFacts DEF SetTop

(* The handlers of the innermost frame reach to the end. *)
LEMMA TopScoped ==
    ASSUME StackInv, Interpreting
    PROVE  /\ Top.hbase + Len(Top.tries) <= Len(handlers)
           /\ landing = "no" => Top.hbase + Len(Top.tries) = Len(handlers)
           /\ EndOf(frames, handlers, Depth) = Len(handlers)
           /\ FrameBase = Top.hbase /\ FrameBase \in Nat /\ FrameBase <= Len(handlers)
  <1>0. /\ frames \in Seq(Frame) /\ handlers \in Seq(Handler) /\ Depth = Len(frames)
        /\ Depth \in 1..Len(frames) /\ Depth > 0 /\ Top = frames[Depth]
        /\ ScopedOf(frames, handlers, landing = "no")
    BY InterpretFacts
  <1>1. EndOf(frames, handlers, Depth) = Len(handlers)
    BY <1>0 DEF EndOf
  <1>2. /\ Top.hbase + Len(Top.tries) <= EndOf(frames, handlers, Depth)
        /\ landing = "no" => Top.hbase + Len(Top.tries) = EndOf(frames, handlers, Depth)
    BY <1>0 DEF ScopedOf
  <1>3. FrameBase = Top.hbase /\ FrameBase \in Nat /\ FrameBase <= Len(handlers)
    BY <1>0, FrameBaseExact
  <1> QED
    BY <1>1, <1>2, <1>3

LEMMA EndTryTableStep ==
    ASSUME StackInv, EndTryTable PROVE StackInv'
  <1>0. InCode /\ Interpreting /\ landing = "no" /\ state = "RUNNING" /\ sp' = sp /\ pending' = pending
    BY CodeFacts DEF EndTryTable
  <1>1. CASE handlers = <<>>
    <2>1. Traps /\ frames' = frames /\ handlers' = handlers /\ pending' \in BOOLEAN
      BY <1>0, <1>1 DEF EndTryTable, StackInv, TypeOK
    <2>2. Depth \in 0..Depth /\ 0 \in 0..Len(handlers)
      BY <1>0, InterpretFacts
    <2> QED
      BY <1>0, <2>1, <2>2, TrapsKeeps
  <1>2. CASE handlers # <<>>
    <2> DEFINE c == Len(Top.tries)
               s == SubSeq(Top.tries, 1, c - 1)
               fr == [Top EXCEPT !.tries = s]
    <2>1. /\ handlers' = SubSeq(handlers, 1, Len(handlers) - 1) /\ frames' = SetTop(fr)
          /\ state' = "RUNNING" /\ UNCHANGED <<lifecycle, host>> /\ landing' = "no" /\ Top.tries # <<>>
      BY <1>0, <1>2 DEF EndTryTable, Butlast
    <2>2. /\ Top \in Frame /\ Top = frames[Depth] /\ Top.tries \in Seq(Try) /\ c \in Nat
          /\ Len(handlers) \in Nat /\ Depth \in 1..Depth /\ Top.hbase \in Nat /\ sp \in Nat
      BY <1>0, InterpretFacts
    <2>3. sp >= Top.floor /\ sp <= Top.top
      BY <1>0, CodeFacts
    <2>4. Top.hbase + c = Len(handlers) /\ EndOf(frames, handlers, Depth) = Len(handlers)
      BY <1>0, TopScoped
    <2>5. c > 0
      BY <2>1, <2>2, EmptySeq
    <2>6. c - 1 \in 0..c /\ c - 1 \in Nat /\ c - 1 <= c
      BY <2>2, <2>5
    <2>7. s \in Seq(Try)
      BY <2>2, <2>6, PrefixFacts
    <2>8. /\ fr \in Frame /\ fr.tries = s /\ fr.hbase = Top.hbase
          /\ fr.locals = Top.locals /\ fr.floor = Top.floor /\ fr.top = Top.top /\ fr.results = Top.results
      BY <2>2, <2>7 DEF Frame, Try
    <2>9. PICK m \in Nat : m = Len(handlers) - 1 /\ m = Top.hbase + (c - 1) /\ m <= Len(handlers)
      <3>1. PICK b \in Nat, x \in Nat, h \in Nat : b = Top.hbase /\ x = c /\ h = Len(handlers)
        BY <2>2
      <3>2. b + x = h /\ x > 0
        BY <2>4, <2>5, <3>1
      <3>3. h - 1 \in Nat /\ h - 1 = b + (x - 1) /\ h - 1 <= h
        BY <3>2
      <3> QED
        BY <3>1, <3>3
    <2> HIDE DEF fr
    <2>10. PICK fs \in Seq(Frame) : fs = SetTop(fr)
      BY <1>0, <2>8, SetTopFacts
    <2>11. /\ Len(fs) = Depth /\ fs[Depth] = fr /\ \A k \in 1..(Depth - 1) : fs[k] = frames[k]
      BY <1>0, <2>8, <2>10, SetTopFacts
    <2>12. frames[Depth].hbase + (c - 1) <= m /\ m = frames[Depth].hbase + (c - 1)
      BY <2>2, <2>9
    <2>13. /\ c - 1 \in 0..Len(frames[Depth].tries)
           /\ fs[Depth].locals = frames[Depth].locals /\ fs[Depth].floor = frames[Depth].floor
           /\ fs[Depth].top = frames[Depth].top /\ fs[Depth].results = frames[Depth].results
           /\ fs[Depth].hbase = frames[Depth].hbase
           /\ fs[Depth].tries = SubSeq(frames[Depth].tries, 1, c - 1)
      BY <2>2, <2>6, <2>8, <2>11
    <2>14. /\ m <= EndOf(frames, handlers, Depth) /\ handlers' = SubSeq(handlers, 1, m)
           /\ sp >= frames[Depth].floor /\ sp <= frames[Depth].top
      BY <2>1, <2>2, <2>3, <2>4, <2>9
    <2>15. fs = frames' /\ Len(fs) = Depth /\ \A k \in 1..(Depth - 1) : fs[k] = frames[k]
      BY <2>1, <2>10, <2>11
    <2>16. sp \in Nat /\ sp = sp' /\ Depth \in 1..Depth /\ state' = "RUNNING" /\ landing' = "no"
      BY <1>0, <2>1, <2>2
    <2> HIDE DEF c
    <2>17. /\ UNCHANGED <<lifecycle, host>> /\ landing' \in {"no", "trim", "end"}
           /\ pending' = pending \/ pending' = FALSE
           /\ landing' = "no" => m = frames[Depth].hbase + (c - 1)
      BY <1>0, <2>1, <2>12
    <2>18. PICK d \in 1..Depth : d = Depth
      BY <2>16
    <2>19. PICK t \in 0..Len(frames[d].tries) : t = c - 1
      BY <2>13, <2>18
    <2>20. /\ frames[d].hbase + t <= m /\ m <= EndOf(frames, handlers, d)
           /\ landing' = "no" => m = frames[d].hbase + t
           /\ Len(fs) = d /\ \A k \in 1..(d - 1) : fs[k] = frames[k]
           /\ fs[d].locals = frames[d].locals /\ fs[d].floor = frames[d].floor
           /\ fs[d].top = frames[d].top /\ fs[d].results = frames[d].results
           /\ fs[d].hbase = frames[d].hbase /\ fs[d].tries = SubSeq(frames[d].tries, 1, t)
           /\ sp >= frames[d].floor /\ sp <= frames[d].top
      BY <2>12, <2>13, <2>14, <2>15, <2>17, <2>18, <2>19
    <2> QED
      BY <1>0, <2>14, <2>15, <2>16, <2>17, <2>20, JumpKeeps
  <1> QED
    BY <1>1, <1>2

LEMMA BranchStep ==
    ASSUME StackInv, NEW label \in Labels, NEW n \in 0..StackSize, Branch(label, n) PROVE StackInv'
  <1>0. InCode /\ Interpreting /\ landing = "no" /\ state = "RUNNING" /\ sp' = n /\ pending' = pending
    BY CodeFacts DEF Branch
  <1>1. /\ frames' = SetTop(AtLabel(Top, label)) /\ handlers' = handlers
        /\ state' = "RUNNING" /\ UNCHANGED <<lifecycle, host>>
        /\ label <= Len(Top.tries) \/ label = FuncEnd
        /\ n \in Lowest(Top, label)..sp /\ landing' \in Landings(Len(Top.tries), label)
    BY <1>0 DEF Branch
  <1>2. /\ Top \in Frame /\ Top = frames[Depth] /\ Len(Top.tries) \in Nat
        /\ handlers \in Seq(Handler) /\ Len(handlers) \in Nat /\ Depth \in 1..Depth
        /\ Top.hbase \in Nat /\ sp \in Nat /\ Top.floor \in Nat /\ Top.top \in Nat /\ Top.results \in Nat
        /\ StackSize \in Nat
    BY <1>0, InterpretFacts
  <1>3. sp <= Top.top
    BY <1>0, CodeFacts
  <1>4. Lowest(Top, label) \in Nat /\ Lowest(Top, label) >= Top.floor
    BY <1>2 DEF Lowest
  <1>5. n \in Nat /\ n >= Top.floor /\ n <= Top.top
    BY <1>1, <1>2, <1>3, <1>4
  <1>6. PICK t \in 0..Len(Top.tries) :
              /\ t = IF label = FuncEnd THEN 0 ELSE label
              /\ AtLabel(Top, label) \in Frame
              /\ AtLabel(Top, label).tries = SubSeq(Top.tries, 1, t)
              /\ AtLabel(Top, label).locals = Top.locals /\ AtLabel(Top, label).floor = Top.floor
              /\ AtLabel(Top, label).top = Top.top /\ AtLabel(Top, label).results = Top.results
              /\ AtLabel(Top, label).hbase = Top.hbase
    <2>1. Top \in Frame /\ (label <= Len(Top.tries) \/ label = FuncEnd)
      BY <1>1, <1>2
    <2> QED
      BY <2>1, JumpFacts
  <1>7. /\ landing' \in {"no", "trim", "end"}
        /\ landing' = "no" => t = Len(Top.tries)
    <2>1. MaxTries \in Nat
      BY ExecAssumption
    <2>2. label \in Nat
      BY <2>1 DEF Labels, FuncEnd
    <2> QED
      BY <1>1, <1>2, <1>6, <2>2 DEF Landings
  <1>8. Top.hbase + Len(Top.tries) = Len(handlers) /\ EndOf(frames, handlers, Depth) = Len(handlers)
    BY <1>0, TopScoped
  <1>9. SubSeq(handlers, 1, Len(handlers)) = handlers
    BY <1>2, WholePrefix
  <1>10. PICK fs \in Seq(Frame) : fs = SetTop(AtLabel(Top, label))
    BY <1>0, <1>6, SetTopFacts
  <1>11. Len(fs) = Depth /\ fs[Depth] = AtLabel(Top, label) /\ \A k \in 1..(Depth - 1) : fs[k] = frames[k]
    BY <1>0, <1>6, <1>10, SetTopFacts
  <1>12. frames[Depth].hbase + t <= Len(handlers) /\ (landing' = "no" => Len(handlers) = frames[Depth].hbase + t)
    BY <1>2, <1>7, <1>8
  <1>13. /\ t \in 0..Len(frames[Depth].tries)
         /\ fs[Depth].locals = frames[Depth].locals /\ fs[Depth].floor = frames[Depth].floor
         /\ fs[Depth].top = frames[Depth].top /\ fs[Depth].results = frames[Depth].results
         /\ fs[Depth].hbase = frames[Depth].hbase
         /\ fs[Depth].tries = SubSeq(frames[Depth].tries, 1, t)
    BY <1>2, <1>6, <1>11
  <1>14. /\ Len(handlers) \in Nat /\ Len(handlers) <= EndOf(frames, handlers, Depth)
         /\ handlers' = SubSeq(handlers, 1, Len(handlers))
         /\ n \in Nat /\ n = sp' /\ n >= frames[Depth].floor /\ n <= frames[Depth].top
    BY <1>0, <1>1, <1>2, <1>5, <1>8, <1>9
  <1>15. fs = frames' /\ Len(fs) = Depth /\ \A k \in 1..(Depth - 1) : fs[k] = frames[k]
    BY <1>1, <1>10, <1>11
  <1>16. Depth \in 1..Depth /\ state' = "RUNNING" /\ UNCHANGED <<lifecycle, host>>
    BY <1>1, <1>2
  <1>17. landing' \in {"no", "trim", "end"}
    BY <1>7
  <1> QED
    BY <1>0, <1>12, <1>13, <1>14, <1>15, <1>16, <1>17, JumpKeeps

LEMMA TrimStep ==
    ASSUME StackInv, Trim PROVE StackInv'
  <1>0. Interpreting /\ landing = "trim" /\ state = "RUNNING" /\ sp' = sp /\ frames' = frames /\ pending' = pending
    BY DEF Trim, Interpreting
  <1>1. /\ FrameBase = Top.hbase /\ Top.hbase + Len(Top.tries) <= Len(handlers)
        /\ EndOf(frames, handlers, Depth) = Len(handlers)
    BY <1>0, TopScoped
  <1>2. /\ frames \in Seq(Frame) /\ Len(frames) = Depth
        /\ Top = frames[Depth] /\ Top.tries \in Seq(Try) /\ Len(Top.tries) \in Nat
        /\ Len(handlers) \in Nat /\ Depth \in 1..Depth /\ Top.hbase \in Nat /\ sp \in Nat
        /\ sp >= Top.floor /\ sp <= Top.top
    BY <1>0, InterpretFacts
  <1>3. ~(Len(Top.tries) > Len(handlers) - FrameBase)
    BY <1>1, <1>2
  <1>4. /\ handlers' = SubSeq(handlers, 1, Top.hbase + Len(Top.tries)) /\ landing' = "no"
        /\ state' = "RUNNING" /\ UNCHANGED <<lifecycle, host>>
    BY <1>0, <1>1, <1>3 DEF Trim
  <1>5. Len(Top.tries) \in 0..Len(Top.tries) /\ SubSeq(Top.tries, 1, Len(Top.tries)) = Top.tries
    BY <1>2, WholePrefix
  <1>6. Top.hbase + Len(Top.tries) \in Nat /\ frames[Depth].hbase + Len(Top.tries) <= Top.hbase + Len(Top.tries)
    BY <1>2
  <1> QED
    BY <1>0, <1>1, <1>2, <1>4, <1>5, <1>6, JumpKeeps
-----------------------------------------------------------------------------
(* A new frame with its place on the stack. *)
LEMMA NewFrameFacts ==
    ASSUME NEW f \in Funcs, ~f.host, NEW locals \in Nat, NEW hbase \in Nat,
           locals + f.params + f.slots <= StackSize
    PROVE  /\ NewFrame(f, locals, hbase) \in Frame
           /\ NewFrame(f, locals, hbase).locals = locals
           /\ NewFrame(f, locals, hbase).floor = locals + f.params + f.locals
           /\ NewFrame(f, locals, hbase).top = locals + f.params + f.slots
           /\ NewFrame(f, locals, hbase).results = f.results
           /\ NewFrame(f, locals, hbase).hbase = hbase /\ NewFrame(f, locals, hbase).tries = <<>>
           /\ locals + f.params + f.locals \in Nat
           /\ locals <= locals + f.params + f.locals
           /\ locals + f.params + f.locals <= locals + f.params + f.slots
  <1>0. StackSize \in Nat
    BY ExecAssumption
  <1>1. /\ f.params \in Nat /\ f.locals \in Nat /\ f.slots \in Nat /\ f.results \in Nat
        /\ f.locals + f.results <= f.slots
    BY FuncFacts
  <1> DEFINE floor == locals + f.params + f.locals
             top == locals + f.params + f.slots
  <1>2. /\ locals \in 0..StackSize /\ floor \in 0..StackSize /\ top \in 0..StackSize
        /\ locals <= floor /\ floor <= top /\ floor \in Nat
    BY <1>0, <1>1
  <1>3. <<>> \in Seq(Try)
    BY EmptySeq
  <1> HIDE DEF floor, top
  <1> DEFINE r == [locals |-> locals, floor |-> floor, top |-> top, results |-> f.results,
                   hbase |-> hbase, tries |-> <<>>]
  <1>4. NewFrame(f, locals, hbase) = r
    BY DEF NewFrame, floor, top
  <1>5. r \in Frame
    BY <1>1, <1>2, <1>3 DEF Frame, Try
  <1>6. r.locals = locals /\ r.floor = floor /\ r.top = top /\ r.results = f.results /\ r.hbase = hbase /\ r.tries = <<>>
    OBVIOUS
  <1> HIDE DEF r
  <1> QED
    BY <1>2, <1>4, <1>5, <1>6 DEF floor, top

(* ... is nested in it, as long as there is room below the frame pointer. *)
LEMMA NewFrameNested ==
    ASSUME NEW fs \in Seq(Frame), NEW k \in 1..Len(fs), fs[k].tries = <<>>,
           fs[k].locals <= fs[k].floor, fs[k].floor <= fs[k].top, fs[k].top <= FramePtr(k)
    PROVE  FrameNested(fs, k)
  <1>1. \A j : j \notin 1..Len(fs[k].tries)
    OBVIOUS
  <1> QED
    BY <1>1 DEF FrameNested

LEMMA CallStep ==
    ASSUME StackInv, NEW f \in Funcs, Call(f) PROVE StackInv'
  <1>0. /\ InCode /\ Interpreting /\ landing = "no" /\ state = "RUNNING" /\ handlers' = handlers
        /\ pending' = pending /\ ~f.host /\ Callable(f)
    BY CodeFacts DEF Call
  <1>1. /\ frames \in Seq(Frame) /\ handlers \in Seq(Handler) /\ Len(handlers) \in Nat
        /\ Len(handlers) <= MaxHandlers /\ StackSize \in Nat /\ sp \in Nat
        /\ Depth \in Nat /\ Depth > 0 /\ Depth = Len(frames) /\ Top = frames[Depth]
        /\ Top.floor \in Nat /\ Top.top \in Nat /\ NestedOf(frames)
    BY <1>0, InterpretFacts
  <1>2. sp >= Top.floor /\ sp <= Top.top /\ ScopedOf(frames, handlers, TRUE)
    BY <1>0, CodeFacts
  <1>3. f.params \in Nat /\ f.locals \in Nat /\ f.slots \in Nat /\ f.results \in Nat
    BY FuncFacts
  <1>4. CASE sp + f.slots > FramePtr(Depth + 1)
    <2>1. Traps /\ sp' = sp /\ frames' = frames /\ pending' \in BOOLEAN
      BY <1>0, <1>4 DEF Call, StackInv, TypeOK
    <2>2. Depth \in 0..Depth /\ 0 \in 0..Len(handlers)
      BY <1>1
    <2> QED
      BY <1>0, <2>1, <2>2, TrapsKeeps
  <1>5. CASE ~(sp + f.slots > FramePtr(Depth + 1))
    <2> DEFINE l == sp - f.params
               fr == NewFrame(f, l, Len(handlers))
    <2>1. /\ frames' = Append(frames, fr) /\ sp' = sp + f.locals /\ state' = "RUNNING"
          /\ UNCHANGED <<lifecycle, host>> /\ landing' = "no"
      BY <1>0, <1>5 DEF Call
    <2>2. sp - f.params >= Top.floor /\ sp - f.params + f.results <= Top.top
      BY <1>0 DEF Callable
    <2>3. /\ l \in Nat /\ l + f.params + f.slots <= StackSize - (Depth + 1)
          /\ l + f.params + f.slots <= StackSize /\ l + f.params + f.locals = sp + f.locals
          /\ l \in Top.floor..Top.top /\ l + f.results <= Top.top
      <3>1. PICK s \in Nat, p \in Nat, lo \in Nat, hi \in Nat, d \in Nat :
                s = sp /\ p = f.params /\ lo = Top.floor /\ hi = Top.top /\ d = Depth
        BY <1>1, <1>3
      <3>2. s >= lo /\ s <= hi /\ s - p >= lo /\ s - p + f.results <= hi
        BY <1>2, <2>2, <3>1
      <3>3. s + f.slots <= StackSize - (d + 1)
        BY <1>1, <1>3, <1>5, <3>1 DEF FramePtr
      <3>4. /\ s - p \in Nat /\ s - p + p + f.slots <= StackSize - (d + 1)
            /\ s - p + p + f.slots <= StackSize /\ s - p + p + f.locals = s + f.locals
            /\ s - p \in lo..hi
        <4>1. StackSize \in Nat /\ f.slots \in Nat /\ f.locals \in Nat
          BY <1>1, <1>3
        <4>2. s - p + p = s /\ s - p \in Nat /\ s - p <= hi
          BY <3>2
        <4> QED
          BY <3>2, <3>3, <4>1, <4>2
      <3> QED
        BY <3>1, <3>2, <3>4
    <2> HIDE DEF l
    <2>4. /\ fr \in Frame /\ fr.locals = l /\ fr.floor = l + f.params + f.locals
          /\ fr.top = l + f.params + f.slots /\ fr.results = f.results
          /\ fr.hbase = Len(handlers) /\ fr.tries = <<>>
          /\ l + f.params + f.locals \in Nat /\ fr.locals <= fr.floor /\ fr.floor <= fr.top
      BY <1>0, <1>1, <2>3, NewFrameFacts
    <2> HIDE DEF fr
    <2> DEFINE fs == Append(frames, fr)
    <2>5. fs \in Seq(Frame) /\ Len(fs) = Depth + 1 /\ fs[Depth + 1] = fr
      BY <1>1, <2>4, AppendFacts
    <2>6. Depth + 1 \in 1..Len(fs) /\ Len(fs) > 0
      BY <1>1, <2>5
    <2> HIDE DEF fs
    <2>7. fr.top <= FramePtr(Depth + 1) /\ sp + f.locals = fr.floor /\ sp + f.locals \in Nat
      BY <2>3, <2>4 DEF FramePtr
    <2>8. FrameNested(fs, Depth + 1)
      BY <2>4, <2>5, <2>6, <2>7, NewFrameNested
    <2>9. NestedOf(fs)
      BY <1>1, <2>3, <2>4, <2>8, PushNested DEF fs
    <2>10. ScopedOf(fs, handlers, TRUE)
      BY <1>1, <1>2, <2>4, PushScoped DEF fs
    <2>11. ScopedOf(fs, handlers, landing' = "no")
      <3>1. (landing' = "no") = TRUE
        BY <2>1
      <3> QED
        BY <2>10, <3>1
    <2>12. PICK n \in Nat : n = sp + f.locals /\ n = fr.floor
      BY <2>7
    <2>13. n <= FramePtr(Len(fs)) /\ n >= fs[Len(fs)].floor /\ n <= fs[Len(fs)].top
      <3>1. n <= fr.top /\ fr.top \in Nat
        BY <1>3, <2>3, <2>4, <2>12
      <3> QED
        BY <1>1, <2>4, <2>5, <2>7, <2>12, <3>1 DEF FramePtr
    <2>14. fs = frames' /\ n = sp' /\ landing' \in {"no", "trim", "end", "pop"}
      BY <2>1, <2>12 DEF fs
    <2> QED
      BY <1>0, <1>1, <2>1, <2>5, <2>6, <2>9, <2>11, <2>13, <2>14, RunKeeps
  <1> QED
    BY <1>4, <1>5

(* Steps into a host function, which leave the frames in place. *)
LEMMA EnterHostKeeps ==
    ASSUME StackInv, InCode, NEW f \in Funcs, f.host, host' = f, UNCHANGED <<state, lifecycle, pending, sp>>,
           NEW fs \in Seq(Frame), fs = frames', Len(fs) = Depth, NestedOf(fs),
           fs[Depth].floor = Top.floor, fs[Depth].top = Top.top,
           NEW hs \in Seq(Handler), hs = handlers', Len(hs) <= MaxHandlers,
           landing' \in {"no", "pop"}, ScopedOf(fs, hs, landing' = "no"),
           sp - f.params >= Top.floor, sp + f.results <= FramePtr(Depth),
           landing' = "no" => sp - f.params + f.results <= Top.top
    PROVE  StackInv'
  <1>0. /\ StackSize \in Nat /\ entry \in Funcs /\ ~entry.host /\ ~pending /\ sp \in Nat
        /\ Depth > 0 /\ Depth \in Nat /\ sp <= FramePtr(Depth)
        /\ state = "RUNNING" /\ sp >= Top.floor /\ sp <= Top.top
    BY CodeFacts, InterpretFacts
  <1>1. /\ base' = base /\ entry' = entry /\ mode' = mode /\ pending' = FALSE /\ state' = "RUNNING"
        /\ sp' = sp
    BY <1>0 DEF lifecycle, StackInv, TypeOK
  <1>2. TypeOK'
    <2>1. /\ base \in [sp : 0..StackSize, handlers : Nat, frames : Nat] /\ sp \in 0..StackSize
          /\ entry \in Funcs \cup {None} /\ mode \in {"api", "enter", "leave"}
      BY DEF StackInv, TypeOK
    <2>2. state' \in States
      BY <1>1 DEF States
    <2>3. base' \in [sp : 0..StackSize, handlers : Nat, frames : Nat]
      BY <1>1, <2>1
    <2>4. entry' \in Funcs \cup {None} /\ mode' \in {"api", "enter", "leave"} /\ host' \in Funcs \cup {None}
      BY <1>1, <2>1
    <2>5. handlers' \in Seq(Handler) /\ Len(handlers') <= MaxHandlers /\ frames' \in Seq(Frame)
      OBVIOUS
    <2>6. sp' \in 0..StackSize /\ pending' \in BOOLEAN
      BY <1>1, <2>1
    <2> QED
      BY <2>2, <2>3, <2>4, <2>5, <2>6 DEF TypeOK
  <1>3. Depth' = Depth /\ Top' = fs[Depth] /\ Depth # 0
    BY <1>0 DEF Depth, Top
  <1>4. Lifecycle'
    <2>1. base = [sp |-> 0, handlers |-> 0, frames |-> 0]
      BY DEF StackInv, Lifecycle
    <2> QED
      BY <1>0, <1>1, <1>3, <2>1 DEF Lifecycle, ReadyIsClean
  <1>5. FramePtr(Depth)' = FramePtr(Depth)
    BY <1>3 DEF FramePtr
  <1>6. HostCall'
    BY <1>0, <1>1, <1>3, <1>5 DEF HostCall
  <1>7. Nested'
    <2>1. NestedOf(frames)'
      BY DEF NestedOf, FrameNested, FramePtr
    <2>2. host' # None
      BY FuncFacts
    <2> QED
      BY <1>0, <1>1, <1>3, <1>5, <2>1, <2>2 DEF Nested
  <1>8. Scoped'
    BY DEF Scoped, ScopedOf, FrameScoped, EndOf
  <1> QED
    BY <1>2, <1>4, <1>6, <1>7, <1>8 DEF StackInv

LEMMA CallHostStep ==
    ASSUME StackInv, NEW f \in Funcs, CallHost(f) PROVE StackInv'
  <1>0. /\ InCode /\ Interpreting /\ landing = "no" /\ state = "RUNNING" /\ f.host
        /\ sp' = sp /\ frames' = frames /\ handlers' = handlers /\ pending' = pending
        /\ sp - f.params >= Top.floor /\ sp - f.params + f.results <= Top.top
    BY CodeFacts DEF CallHost, stack, Callable
  <1>1. CASE sp + f.results > FramePtr(Depth)
    <2>1. Traps /\ pending' \in BOOLEAN
      BY <1>0, <1>1 DEF CallHost, StackInv, TypeOK
    <2>2. Depth \in 0..Depth /\ 0 \in 0..Len(handlers)
      BY <1>0, InterpretFacts
    <2> QED
      BY <1>0, <2>1, <2>2, TrapsKeeps
  <1>2. CASE ~(sp + f.results > FramePtr(Depth))
    <2>1. host' = f /\ UNCHANGED <<state, lifecycle, pending, sp>> /\ landing' = "no"
      BY <1>0, <1>2 DEF CallHost
    <2>2. /\ frames \in Seq(Frame) /\ Len(frames) = Depth /\ NestedOf(frames) /\ Top = frames[Depth]
          /\ handlers \in Seq(Handler) /\ Len(handlers) <= MaxHandlers
          /\ ScopedOf(frames, handlers, landing = "no")
          /\ sp \in Nat /\ StackSize \in Nat /\ Depth \in Nat
      BY <1>0, InterpretFacts
    <2>3. sp + f.results <= FramePtr(Depth)
      BY <1>2, <2>2, FuncFacts DEF FramePtr
    <2>4. ScopedOf(frames, handlers, landing' = "no")
      <3>1. (landing' = "no") = (landing = "no")
        BY <1>0, <2>1
      <3> QED
        BY <2>2, <3>1
    <2>5. landing' \in {"no", "pop"} /\ frames[Depth].floor = Top.floor /\ frames[Depth].top = Top.top
      BY <2>1, <2>2
    <2> QED
      BY <1>0, <2>1, <2>2, <2>3, <2>4, <2>5, EnterHostKeeps
  <1> QED
    BY <1>1, <1>2
LEMMA HostReturnsStep ==
    ASSUME StackInv, HostReturns PROVE StackInv'
  <1>0. /\ host # None /\ host' = None /\ UNCHANGED lifecycle
        /\ frames' = frames /\ handlers' = handlers /\ landing' = landing /\ pending' = pending
    BY DEF HostReturns
  <1>1. /\ state = "RUNNING" /\ host \in Funcs /\ Active
        /\ base = [sp |-> 0, handlers |-> 0, frames |-> 0] /\ ~pending
    BY <1>0 DEF StackInv, TypeOK, Lifecycle, Active
  <1>2. /\ frames \in Seq(Frame) /\ handlers \in Seq(Handler) /\ Len(handlers) <= MaxHandlers
        /\ sp \in 0..StackSize /\ landing \in {"no", "trim", "end", "pop"}
    BY DEF StackInv, TypeOK
  <1>3. Depth \in Nat /\ Depth = Len(frames) /\ StackSize \in Nat /\ sp \in Nat
    BY <1>2, ExecAssumption, LenProperties DEF Depth
  <1>4. host.params \in Nat /\ host.results \in Nat
    BY <1>1, FuncFacts
  <1>5. sp <= FramePtr(Depth) /\ NestedOf(frames) /\ ScopedOf(frames, handlers, landing = "no")
    BY <1>1 DEF StackInv, Nested, Scoped
  <1>6. CASE Depth = 0
    <2>1. sp' = base.sp + host.params + host.results /\ state' = "FINISHED"
      BY <1>6 DEF HostReturns
    <2>2. sp = host.params + host.results
      BY <1>1, <1>6 DEF StackInv, Lifecycle
    <2>3. sp' = sp
      BY <1>1, <1>4, <2>1, <2>2
    <2>4. sp <= FramePtr(Len(frames)) /\ pending' \in BOOLEAN /\ ~pending'
      BY <1>0, <1>1, <1>3, <1>5 DEF StackInv, TypeOK
    <2> QED
      BY <1>0, <1>1, <1>2, <1>3, <2>1, <2>3, <2>4, StopKeeps
  <1>7. CASE Depth # 0
    <2>1. sp' = sp - host.params + host.results /\ state' = "RUNNING" /\ Depth > 0
      BY <1>1, <1>3, <1>7 DEF HostReturns
    <2>2. /\ landing \in {"no", "pop"}
          /\ sp - host.params >= Top.floor
          /\ sp + host.results <= FramePtr(Depth)
          /\ landing = "no" => sp - host.params + host.results <= Top.top
      BY <1>0, <2>1 DEF StackInv, HostCall
    <2>3. Depth \in 1..Len(frames) /\ Top = frames[Depth]
      BY <1>3, <2>1 DEF Top
    <2>4. Top.floor \in 0..StackSize /\ Top.top \in 0..StackSize
      BY <1>2, <2>3, FrameFacts
    <2>5. PICK n \in Nat : n = sp - host.params + host.results
      BY <1>3, <1>4, <2>2, <2>4
    <2>6. n <= FramePtr(Depth) /\ n >= Top.floor /\ (landing = "no" => n <= Top.top)
      <3>1. PICK s \in Nat, p \in Nat, r \in Nat, lo \in Nat, q \in Int :
                s = sp /\ p = host.params /\ r = host.results /\ lo = Top.floor /\ q = FramePtr(Depth)
        <4>1. sp \in Nat /\ host.params \in Nat /\ host.results \in Nat /\ Top.floor \in Nat
          BY <1>3, <1>4, <2>4
        <4>2. FramePtr(Depth) \in Int
          BY <1>3 DEF FramePtr
        <4> QED
          BY <4>1, <4>2, Zenon
      <3>2. n = s - p + r /\ s - p >= lo /\ s + r <= q
        BY <2>2, <2>5, <3>1
      <3>3. n <= q /\ n >= lo
        BY <3>2
      <3> QED
        BY <2>2, <2>5, <3>1, <3>3
    <2>7. landing' # "pop" => n >= frames[Len(frames)].floor /\ n <= frames[Len(frames)].top
      BY <1>0, <1>3, <2>2, <2>3, <2>6
    <2>8. ScopedOf(frames, handlers, landing' = "no") /\ landing' \in {"no", "trim", "end", "pop"}
      BY <1>0, <1>2, <1>5
    <2>9. n = sp' /\ n <= FramePtr(Len(frames)) /\ Len(frames) > 0
      BY <1>3, <2>1, <2>5, <2>6
    <2> QED
      BY <1>0, <1>1, <1>2, <1>5, <2>1, <2>7, <2>8, <2>9, GoOnKeeps
  <1> QED
    BY <1>6, <1>7

LEMMA HostTrapsStep ==
    ASSUME StackInv, HostTraps PROVE StackInv'
  <1>0. /\ host # None /\ host' = None /\ UNCHANGED lifecycle /\ state' = "TRAPPED" /\ sp' = sp
        /\ frames' = frames /\ handlers' = handlers /\ landing' = landing /\ pending' = pending
    BY DEF HostTraps, stack
  <1>1. state = "RUNNING" /\ sp <= FramePtr(Depth)
    BY <1>0 DEF StackInv, Lifecycle, Nested
  <1>2. /\ frames \in Seq(Frame) /\ handlers \in Seq(Handler) /\ Len(handlers) <= MaxHandlers
        /\ sp \in 0..StackSize /\ landing \in {"no", "trim", "end", "pop"} /\ pending \in BOOLEAN
    BY DEF StackInv, TypeOK
  <1>3. sp \in Nat /\ sp <= FramePtr(Len(frames))
    BY <1>1, <1>2, ExecAssumption DEF Depth
  <1> QED
    BY <1>0, <1>1, <1>2, <1>3, StopKeeps

(* RETURN_CALL drops the handlers of the frame that it reuses. *)
LEMMA DropFacts ==
    ASSUME StackInv, Interpreting, NEW fr \in Frame, fr.hbase = Top.hbase, fr.tries = <<>>, NEW e \in BOOLEAN
    PROVE  /\ SubSeq(handlers, 1, FrameBase) \in Seq(Handler)
           /\ Len(SubSeq(handlers, 1, FrameBase)) <= MaxHandlers
           /\ ScopedOf(SetTop(fr), SubSeq(handlers, 1, FrameBase), e)
  <1>0. /\ frames \in Seq(Frame) /\ handlers \in Seq(Handler) /\ Len(handlers) \in Nat
        /\ Len(handlers) <= MaxHandlers /\ Depth = Len(frames) /\ Depth \in 1..Len(frames)
        /\ Top = frames[Depth] /\ Top.hbase \in Nat /\ Top.tries \in Seq(Try) /\ Len(Top.tries) \in Nat
        /\ ScopedOf(frames, handlers, landing = "no")
    BY InterpretFacts
  <1>1. /\ FrameBase = Top.hbase /\ FrameBase \in Nat /\ FrameBase <= Len(handlers)
        /\ EndOf(frames, handlers, Depth) = Len(handlers)
    BY TopScoped
  <1>2. SubSeq(handlers, 1, FrameBase) \in Seq(Handler) /\ Len(SubSeq(handlers, 1, FrameBase)) = FrameBase
    BY <1>0, <1>1, PrefixFacts
  <1>3. FrameBase <= MaxHandlers
    BY <1>0, <1>1, ExecAssumption
  <1>4. SubSeq(Top.tries, 1, 0) = <<>>
    <2>1. SubSeq(Top.tries, 1, 0) \in Seq(Try) /\ Len(SubSeq(Top.tries, 1, 0)) = 0
      BY <1>0, PrefixFacts
    <2> QED
      BY <2>1, EmptySeq
  <1>5. PICK fs \in Seq(Frame) : fs = SetTop(fr)
    BY SetTopFacts
  <1>6. Len(fs) = Depth /\ fs[Depth] = fr /\ \A k \in 1..(Depth - 1) : fs[k] = frames[k]
    BY <1>5, SetTopFacts
  <1>7. /\ 0 \in 0..Len(frames[Depth].tries) /\ frames[Depth].hbase + 0 <= FrameBase
        /\ FrameBase = frames[Depth].hbase + 0 /\ FrameBase <= EndOf(frames, handlers, Depth)
        /\ fs[Depth].hbase = frames[Depth].hbase
        /\ fs[Depth].tries = SubSeq(frames[Depth].tries, 1, 0)
    <2>1. 0 \in 0..Len(Top.tries) /\ Top.hbase + 0 <= FrameBase /\ FrameBase = Top.hbase + 0
      BY <1>0, <1>1
    <2>2. fs[Depth].hbase = Top.hbase /\ fs[Depth].tries = SubSeq(Top.tries, 1, 0)
      BY <1>4, <1>6
    <2>3. Top = frames[Depth] /\ FrameBase <= EndOf(frames, handlers, Depth)
      BY <1>0, <1>1
    <2> QED
      BY <2>1, <2>2, <2>3
  <1>8. ScopedOf(fs, SubSeq(handlers, 1, FrameBase), e)
    <2>1. PICK d \in 1..Len(frames), m \in Nat, z \in 0..Len(frames[Depth].tries) :
              d = Depth /\ m = FrameBase /\ z = 0
      BY <1>0, <1>1, <1>7
    <2>2. /\ z \in 0..Len(frames[d].tries) /\ frames[d].hbase + z <= m
          /\ e => m = frames[d].hbase + z
          /\ m <= EndOf(frames, handlers, d)
          /\ fs[d].hbase = frames[d].hbase /\ fs[d].tries = SubSeq(frames[d].tries, 1, z)
          /\ Len(fs) = d /\ \A k \in 1..(d - 1) : fs[k] = frames[k]
      BY <1>6, <1>7, <2>1
    <2>3. ScopedOf(fs, SubSeq(handlers, 1, m), e)
      BY <1>0, <2>2, CutScoped
    <2> QED
      BY <2>1, <2>3
  <1> QED
    BY <1>2, <1>3, <1>5, <1>8
LEMMA TailCallStep ==
    ASSUME StackInv, NEW f \in Funcs, TailCall(f) PROVE StackInv'
  <1>0. /\ InCode /\ Interpreting /\ landing = "no" /\ state = "RUNNING" /\ ~f.host
        /\ handlers' = SubSeq(handlers, 1, FrameBase) /\ pending' = pending /\ f.results = Top.results
    BY CodeFacts DEF TailCall
  <1>1. /\ frames \in Seq(Frame) /\ Len(handlers) \in Nat /\ StackSize \in Nat
        /\ Depth \in Nat /\ Depth > 0 /\ Depth = Len(frames) /\ Depth \in 1..Depth /\ Top = frames[Depth]
        /\ Top.locals \in Nat /\ Top.hbase \in Nat /\ NestedOf(frames)
    BY <1>0, InterpretFacts
  <1>2. FrameBase \in Nat /\ FrameBase <= Len(handlers)
    BY <1>0, TopScoped
  <1>3. CASE Top.locals + f.params + f.slots > FramePtr(Depth)
    <2>1. Traps /\ sp' = sp /\ frames' = frames /\ pending' \in BOOLEAN
      BY <1>0, <1>3 DEF TailCall, StackInv, TypeOK
    <2>2. Depth \in 0..Depth /\ FrameBase \in 0..Len(handlers)
      BY <1>1, <1>2
    <2> QED
      BY <1>0, <2>1, <2>2, TrapsKeeps
  <1>4. CASE ~(Top.locals + f.params + f.slots > FramePtr(Depth))
    <2> DEFINE fr == NewFrame(f, Top.locals, Top.hbase)
    <2>1. /\ frames' = SetTop(fr) /\ sp' = Top.locals + f.params + f.locals
          /\ state' = "RUNNING" /\ UNCHANGED <<lifecycle, host>> /\ landing' = "no"
      BY <1>0, <1>4 DEF TailCall
    <2>2. /\ Top.locals + f.params + f.slots <= StackSize - Depth
          /\ Top.locals + f.params + f.slots <= StackSize
      BY <1>1, <1>4, FuncFacts DEF FramePtr
    <2>3. /\ fr \in Frame /\ fr.locals = Top.locals /\ fr.floor = Top.locals + f.params + f.locals
          /\ fr.top = Top.locals + f.params + f.slots /\ fr.results = f.results
          /\ fr.hbase = Top.hbase /\ fr.tries = <<>>
          /\ Top.locals + f.params + f.locals \in Nat
          /\ Top.locals <= Top.locals + f.params + f.locals
          /\ Top.locals + f.params + f.locals <= Top.locals + f.params + f.slots
      BY <1>0, <1>1, <2>2, NewFrameFacts
    <2> HIDE DEF fr
    <2>4. fr.locals <= fr.floor /\ fr.floor <= fr.top /\ fr.top <= FramePtr(Depth)
      BY <2>2, <2>3 DEF FramePtr
    <2>5. PICK fs \in Seq(Frame) : fs = SetTop(fr)
      BY <1>0, <2>3, SetTopFacts
    <2>6. Len(fs) = Depth /\ fs[Depth] = fr /\ \A k \in 1..(Depth - 1) : fs[k] = frames[k]
      BY <1>0, <2>3, <2>5, SetTopFacts
    <2>7. FrameNested(fs, Depth)
      BY <1>1, <2>3, <2>4, <2>6, NewFrameNested
    <2>8. fs[Depth].locals = frames[Depth].locals /\ fs[Depth].results = frames[Depth].results
      BY <1>0, <1>1, <2>3, <2>6
    <2>9. NestedOf(fs)
      BY <1>1, <2>6, <2>7, <2>8, CutNested
    <2>10. PICK hs \in Seq(Handler) : hs = handlers' /\ Len(hs) <= MaxHandlers /\ ScopedOf(fs, hs, landing' = "no")
      <3>1. /\ SubSeq(handlers, 1, FrameBase) \in Seq(Handler)
            /\ Len(SubSeq(handlers, 1, FrameBase)) <= MaxHandlers
            /\ ScopedOf(SetTop(fr), SubSeq(handlers, 1, FrameBase), landing' = "no")
        BY <1>0, <2>3, DropFacts
      <3> QED
        BY <1>0, <2>5, <3>1
    <2>11. PICK n \in Nat : n = fr.floor
      BY <2>3
    <2>12. fr.top \in Nat
      BY <1>1, <2>3, FuncFacts
    <2>13. n = sp' /\ n <= FramePtr(Len(fs)) /\ n >= fs[Len(fs)].floor /\ n <= fs[Len(fs)].top
      BY <1>1, <2>1, <2>3, <2>4, <2>6, <2>11, <2>12 DEF FramePtr
    <2>14. fs = frames' /\ Len(fs) > 0 /\ landing' \in {"no", "trim", "end", "pop"}
      BY <1>1, <2>1, <2>5, <2>6
    <2> QED
      BY <1>0, <2>1, <2>9, <2>10, <2>13, <2>14, RunKeeps
  <1> QED
    BY <1>3, <1>4

LEMMA TailCallHostStep ==
    ASSUME StackInv, NEW f \in Funcs, TailCallHost(f) PROVE StackInv'
  <1>0. /\ InCode /\ Interpreting /\ landing = "no" /\ state = "RUNNING" /\ f.host /\ sp' = sp
        /\ handlers' = SubSeq(handlers, 1, FrameBase) /\ pending' = pending /\ sp - f.params >= Top.floor
    BY CodeFacts DEF TailCallHost
  <1>1. /\ frames \in Seq(Frame) /\ Len(handlers) \in Nat /\ StackSize \in Nat /\ sp \in Nat
        /\ Depth \in Nat /\ Depth > 0 /\ Depth = Len(frames) /\ Depth \in 1..Depth /\ Depth \in 1..Len(frames)
        /\ Top \in Frame /\ Top = frames[Depth] /\ NestedOf(frames)
        /\ Top.tries \in Seq(Try) /\ Len(Top.tries) \in Nat
    BY <1>0, InterpretFacts
  <1>2. FrameBase \in Nat /\ FrameBase <= Len(handlers)
    BY <1>0, TopScoped
  <1>3. CASE sp + f.results > FramePtr(Depth)
    <2>1. Traps /\ frames' = frames /\ pending' \in BOOLEAN
      BY <1>0, <1>3 DEF TailCallHost, StackInv, TypeOK
    <2>2. Depth \in 0..Depth /\ FrameBase \in 0..Len(handlers)
      BY <1>1, <1>2
    <2> QED
      BY <1>0, <2>1, <2>2, TrapsKeeps
  <1>4. CASE ~(sp + f.results > FramePtr(Depth))
    <2> DEFINE fr == [Top EXCEPT !.tries = <<>>]
    <2>1. /\ frames' = SetTop(fr) /\ host' = f /\ landing' = "pop"
          /\ UNCHANGED <<state, lifecycle, pending, sp>>
      BY <1>0, <1>4 DEF TailCallHost
    <2>2. sp + f.results <= FramePtr(Depth)
      BY <1>1, <1>4, FuncFacts DEF FramePtr
    <2>3. <<>> \in Seq(Try)
      BY EmptySeq
    <2>4. /\ fr \in Frame /\ fr.locals = Top.locals /\ fr.floor = Top.floor /\ fr.top = Top.top
          /\ fr.results = Top.results /\ fr.hbase = Top.hbase /\ fr.tries = <<>>
      BY <1>1, <2>3 DEF Frame, Try
    <2> HIDE DEF fr
    <2>5. PICK fs \in Seq(Frame) : fs = SetTop(fr)
      BY <1>0, <2>4, SetTopFacts
    <2>6. Len(fs) = Depth /\ fs[Depth] = fr /\ \A k \in 1..(Depth - 1) : fs[k] = frames[k]
      BY <1>0, <2>4, <2>5, SetTopFacts
    <2>7. FrameNested(fs, Depth)
      <3>1. fr.locals <= fr.floor /\ fr.floor <= fr.top /\ fr.top <= FramePtr(Depth)
        BY <1>0, <2>4, InterpretFacts
      <3> QED
        BY <1>1, <2>4, <2>6, <3>1, NewFrameNested
    <2>8. fs[Depth].locals = frames[Depth].locals /\ fs[Depth].results = frames[Depth].results
      BY <1>1, <2>4, <2>6
    <2>9. NestedOf(fs)
      BY <1>1, <2>6, <2>7, <2>8, CutNested
    <2>10. PICK hs \in Seq(Handler) : hs = handlers' /\ Len(hs) <= MaxHandlers /\ ScopedOf(fs, hs, landing' = "no")
      <3>1. /\ SubSeq(handlers, 1, FrameBase) \in Seq(Handler)
            /\ Len(SubSeq(handlers, 1, FrameBase)) <= MaxHandlers
            /\ ScopedOf(SetTop(fr), SubSeq(handlers, 1, FrameBase), landing' = "no")
        BY <1>0, <2>4, DropFacts
      <3> QED
        BY <1>0, <2>5, <3>1
    <2>11. /\ fs = frames' /\ fs[Depth].floor = Top.floor /\ fs[Depth].top = Top.top
           /\ landing' \in {"no", "pop"} /\ landing' # "no"
      BY <2>1, <2>4, <2>5, <2>6
    <2> QED
      BY <1>0, <2>1, <2>2, <2>6, <2>9, <2>10, <2>11, EnterHostKeeps
  <1> QED
    BY <1>3, <1>4

LEMMA ReturnStep ==
    ASSUME StackInv, Return PROVE StackInv'
  <1>0. /\ Interpreting /\ state = "RUNNING" /\ host = None /\ UNCHANGED <<lifecycle, host>> /\ pending' = pending
        /\ handlers' = SubSeq(handlers, 1, FrameBase) /\ frames' = SubSeq(frames, 1, Depth - 1)
        /\ sp' = Top.locals + Top.results /\ landing' = "no" /\ sp - Top.results >= Top.floor
        /\ state' = IF Depth = 1 THEN "FINISHED" ELSE state
    BY DEF Return, Interpreting, Butlast, Depth
  <1>1. /\ frames \in Seq(Frame) /\ handlers \in Seq(Handler) /\ Len(handlers) \in Nat
        /\ Len(handlers) <= MaxHandlers /\ StackSize \in Nat /\ sp \in Nat
        /\ Depth \in Nat /\ Depth > 0 /\ Depth = Len(frames) /\ Top = frames[Depth]
        /\ Top.locals \in Nat /\ Top.floor \in Nat /\ Top.results \in Nat /\ Top.hbase \in Nat
        /\ Top.locals <= Top.floor /\ sp <= FramePtr(Depth)
        /\ NestedOf(frames) /\ ScopedOf(frames, handlers, landing = "no") /\ ~pending
    BY <1>0, InterpretFacts
  <1>2. FrameBase = Top.hbase /\ FrameBase \in Nat /\ FrameBase <= Len(handlers)
    BY <1>0, TopScoped
  <1>3. PICK hs \in Seq(Handler) : hs = SubSeq(handlers, 1, FrameBase) /\ Len(hs) = FrameBase
    <2>1. SubSeq(handlers, 1, FrameBase) \in Seq(Handler) /\ Len(SubSeq(handlers, 1, FrameBase)) = FrameBase
      BY <1>1, <1>2, PrefixFacts
    <2> QED
      BY <2>1
  <1>4. Len(hs) <= MaxHandlers
    BY <1>1, <1>2, <1>3, ExecAssumption
  <1>5. PICK d \in Nat : d = Depth - 1 /\ d <= Len(frames)
    BY <1>1
  <1>6. PICK fs \in Seq(Frame) : fs = SubSeq(frames, 1, d) /\ Len(fs) = d /\ \A k \in 1..d : fs[k] = frames[k]
    <2>1. /\ SubSeq(frames, 1, d) \in Seq(Frame) /\ Len(SubSeq(frames, 1, d)) = d
          /\ \A k \in 1..d : SubSeq(frames, 1, d)[k] = frames[k]
      <3>1. frames \in Seq(Frame) /\ d \in Nat /\ d <= Len(frames)
        BY <1>1, <1>5
      <3> QED
        BY <3>1, PrefixFacts
    <2> QED
      BY <2>1
  <1>7. PICK n \in Nat : n = Top.locals + Top.results
    BY <1>1
  <1>8. n <= FramePtr(d)
    <2>1. sp <= StackSize - Depth
      BY <1>1 DEF FramePtr
    <2>2. PICK x \in Nat, y \in Nat, z \in Nat, w \in Nat :
              x = sp /\ y = Top.floor /\ z = Top.results /\ w = Top.locals
      BY <1>1
    <2>3. n = w + z /\ w <= y /\ x - z >= y /\ x <= StackSize - Depth
      BY <1>0, <1>1, <1>7, <2>1, <2>2
    <2>4. StackSize \in Nat /\ Depth \in Nat /\ d = Depth - 1
      BY <1>1, <1>5
    <2>5. n <= StackSize - d
      BY <2>3, <2>4
    <2> QED
      BY <2>5 DEF FramePtr
  <1>9. fs = frames' /\ hs = handlers' /\ n = sp'
    BY <1>0, <1>3, <1>5, <1>6, <1>7
  <1>10. CASE Depth = 1
    <2>1. state' = "FINISHED" /\ pending' \in BOOLEAN /\ ~pending' /\ host' = None
      BY <1>0, <1>1, <1>10 DEF StackInv, TypeOK
    <2>2. n <= FramePtr(Len(fs)) /\ landing' \in {"no", "trim", "end", "pop"} /\ UNCHANGED lifecycle
      BY <1>0, <1>6, <1>8
    <2> QED
      BY <1>0, <1>4, <1>9, <2>1, <2>2, StopKeeps
  <1>11. CASE Depth # 1
    <2>0. PICK x \in Nat : x = Depth /\ x = Len(frames) /\ x > 0 /\ x # 1 /\ d = x - 1
      BY <1>1, <1>5, <1>11
    <2>1. state' = "RUNNING" /\ d > 0 /\ d \in 1..Len(frames) /\ d \in 1..(Len(frames) - 1) /\ d + 1 = Depth
      <3>1. d > 0 /\ d \in 1..x /\ d \in 1..(x - 1) /\ d + 1 = x
        BY <2>0
      <3> QED
        BY <1>0, <1>11, <2>0, <3>1
    <2>2. Top.locals \in frames[d].floor..frames[d].top /\ Top.locals + Top.results <= frames[d].top
      BY <1>1, <2>1 DEF NestedOf
    <2>3. frames[d].floor \in 0..StackSize /\ frames[d].top \in 0..StackSize
      BY <1>1, <2>1, FrameFacts
    <2>4. n >= frames[d].floor /\ n <= frames[d].top
      <3>1. PICK y \in Nat, h \in Nat, w \in Nat, z \in Nat :
                y = frames[d].floor /\ h = frames[d].top /\ w = Top.locals /\ z = Top.results
        <4>1. frames[d].floor \in Nat /\ frames[d].top \in Nat /\ Top.locals \in Nat /\ Top.results \in Nat
          BY <1>1, <2>3
        <4> QED
          BY <4>1, Zenon
      <3>2. w >= y /\ w + z <= h /\ n = w + z
        BY <1>7, <2>2, <3>1
      <3>3. n >= y /\ n <= h
        BY <3>2
      <3> QED
        BY <3>1, <3>3
    <2>5. frames[d].tries \in Seq(Try) /\ Len(frames[d].tries) \in Nat /\ frames[d].hbase \in Nat
      BY <1>1, <2>1, FrameFacts
    <2>6. PICK t \in 0..Len(frames[d].tries) : t = Len(frames[d].tries) /\ SubSeq(frames[d].tries, 1, t) = frames[d].tries
      BY <2>5, WholePrefix
    <2>7. EndOf(frames, handlers, d) = Top.hbase
      BY <1>1, <2>1 DEF EndOf
    <2>8. frames[d].hbase + t = EndOf(frames, handlers, d)
      <3>1. d < Len(frames)
        BY <1>1, <2>1
      <3> QED
        BY <1>1, <2>1, <2>6, <3>1 DEF ScopedOf
    <2>9. PICK m \in Nat : m = FrameBase /\ frames[d].hbase + t = m /\ m = EndOf(frames, handlers, d)
      BY <1>2, <2>7, <2>8
    <2>10. frames[d].hbase + t <= m /\ m <= EndOf(frames, handlers, d) /\ handlers' = SubSeq(handlers, 1, m)
      BY <1>0, <2>5, <2>9
    <2>11. d \in 1..Depth /\ \A k \in 1..(d - 1) : k \in 1..d
      BY <1>1, <2>1
    <2>12. d \in 1..d
      BY <2>1
    <2>13. /\ fs[d] = frames[d] /\ fs[d].tries = SubSeq(frames[d].tries, 1, t)
           /\ \A k \in 1..(d - 1) : fs[k] = frames[k]
      BY <1>6, <2>6, <2>11, <2>12
    <2>14. landing' \in {"no", "trim", "end"} /\ m = frames[d].hbase + t
      BY <1>0, <2>9
    <2> QED
      BY <1>0, <1>6, <1>9, <2>1, <2>4, <2>10, <2>11, <2>13, <2>14, JumpKeeps
  <1> QED
    BY <1>10, <1>11

(* The frame that a caught exception unwinds to, and its try_table. *)
LEMMA CaughtFacts ==
    ASSUME StackInv, InCode, NEW i \in 1..Len(handlers)
    PROVE  \E d \in 1..Depth : \E j \in 1..Len(frames[d].tries) : \E t \in 0..Len(frames[d].tries) :
              /\ Unwound(i) = d
              /\ i = frames[d].hbase + j /\ i <= EndOf(frames, handlers, d)
              /\ handlers[i].table = frames[d].tries[j].table /\ handlers[i].table \in Tables
              /\ handlers[i].table.depth = j - 1 /\ handlers[i].table.label \in Labels
              /\ handlers[i].table.label <= j - 1 \/ handlers[i].table.label = FuncEnd
              /\ t = IF handlers[i].table.label = FuncEnd THEN 0 ELSE handlers[i].table.label
              /\ t <= j - 1
              /\ AtLabel(frames[d], handlers[i].table.label) \in Frame
              /\ AtLabel(frames[d], handlers[i].table.label).tries = SubSeq(frames[d].tries, 1, t)
              /\ AtLabel(frames[d], handlers[i].table.label).locals = frames[d].locals
              /\ AtLabel(frames[d], handlers[i].table.label).floor = frames[d].floor
              /\ AtLabel(frames[d], handlers[i].table.label).top = frames[d].top
              /\ AtLabel(frames[d], handlers[i].table.label).results = frames[d].results
              /\ AtLabel(frames[d], handlers[i].table.label).hbase = frames[d].hbase
  <1>0. frames \in Seq(Frame) /\ handlers \in Seq(Handler) /\ Depth = Len(frames) /\ ScopedOf(frames, handlers, TRUE)
    BY CodeFacts, InterpretFacts
  <1>1. PICK d \in 1..Len(frames) : \E j \in 1..Len(frames[d].tries) :
              /\ i = frames[d].hbase + j /\ i <= EndOf(frames, handlers, d)
              /\ handlers[i] = [call_depth |-> d, sp_base |-> frames[d].tries[j].sp_base,
                                table |-> frames[d].tries[j].table]
              /\ frames[d].tries[j].table.depth = j - 1
    BY <1>0, HandlerOwner
  <1>2. PICK j \in 1..Len(frames[d].tries) :
              /\ i = frames[d].hbase + j /\ i <= EndOf(frames, handlers, d)
              /\ handlers[i] = [call_depth |-> d, sp_base |-> frames[d].tries[j].sp_base,
                                table |-> frames[d].tries[j].table]
              /\ frames[d].tries[j].table.depth = j - 1
    BY <1>1
  <1>3. Unwound(i) = d
    <2>1. Unwound(i) = handlers[i].call_depth
      BY <1>0, UnwoundExact
    <2> QED
      BY <1>2, <2>1
  <1>4. frames[d] \in Frame /\ Len(frames[d].tries) \in Nat /\ j \in Nat
    BY <1>0, FrameFacts
  <1>5. handlers[i] \in Handler
    BY <1>0, ElementOfSeq
  <1>6. PICK tb \in Tables : tb = handlers[i].table
    BY <1>5 DEF Handler
  <1>7. /\ tb = frames[d].tries[j].table /\ tb.depth = j - 1
    BY <1>2, <1>6
  <1>8. tb.label \in Labels /\ (tb.label <= j - 1 \/ tb.label = FuncEnd)
    BY <1>7 DEF Tables
  <1>9. tb.label \in Nat
    BY <1>8, ExecAssumption DEF Labels, FuncEnd
  <1>10. tb.label <= Len(frames[d].tries) \/ tb.label = FuncEnd
    BY <1>4, <1>8, <1>9
  <1>11. PICK t \in 0..Len(frames[d].tries) :
              /\ t = IF tb.label = FuncEnd THEN 0 ELSE tb.label
              /\ AtLabel(frames[d], tb.label) \in Frame
              /\ AtLabel(frames[d], tb.label).tries = SubSeq(frames[d].tries, 1, t)
              /\ AtLabel(frames[d], tb.label).locals = frames[d].locals
              /\ AtLabel(frames[d], tb.label).floor = frames[d].floor
              /\ AtLabel(frames[d], tb.label).top = frames[d].top
              /\ AtLabel(frames[d], tb.label).results = frames[d].results
              /\ AtLabel(frames[d], tb.label).hbase = frames[d].hbase
    BY <1>4, <1>8, <1>10, JumpFacts
  <1>12. t <= j - 1
    BY <1>4, <1>8, <1>9, <1>11
  <1> QED
    BY <1>0, <1>2, <1>3, <1>6, <1>7, <1>8, <1>11, <1>12

LEMMA ThrowCaughtStep ==
    ASSUME StackInv, NEW tag \in Tags, NEW n \in 0..StackSize, ThrowCaught(tag, n) PROVE StackInv'
  <1>0. InCode /\ Interpreting /\ state' = "RUNNING" /\ UNCHANGED <<lifecycle, host>> /\ pending' = FALSE
    BY CodeFacts DEF ThrowCaught
  <1>1. PICK i \in 1..Len(handlers) :
          /\ n \in Lowest(frames[Unwound(i)], handlers[i].table.label)..frames[Unwound(i)].top
          /\ sp' = n
          /\ frames' = [SubSeq(frames, 1, Unwound(i)) EXCEPT ![Unwound(i)] = AtLabel(frames[Unwound(i)], handlers[i].table.label)]
          /\ handlers' = SubSeq(handlers, 1, i - 1)
          /\ landing' \in Landings(handlers[i].table.depth, handlers[i].table.label)
    BY DEF ThrowCaught
  <1> DEFINE label == handlers[i].table.label
  <1>2. PICK d \in 1..Depth : \E j \in 1..Len(frames[d].tries) : \E t \in 0..Len(frames[d].tries) :
              /\ Unwound(i) = d
              /\ i = frames[d].hbase + j /\ i <= EndOf(frames, handlers, d)
              /\ handlers[i].table = frames[d].tries[j].table /\ handlers[i].table \in Tables
              /\ handlers[i].table.depth = j - 1 /\ label \in Labels
              /\ label <= j - 1 \/ label = FuncEnd
              /\ t = IF label = FuncEnd THEN 0 ELSE label
              /\ t <= j - 1
              /\ AtLabel(frames[d], label) \in Frame
              /\ AtLabel(frames[d], label).tries = SubSeq(frames[d].tries, 1, t)
              /\ AtLabel(frames[d], label).locals = frames[d].locals
              /\ AtLabel(frames[d], label).floor = frames[d].floor
              /\ AtLabel(frames[d], label).top = frames[d].top
              /\ AtLabel(frames[d], label).results = frames[d].results
              /\ AtLabel(frames[d], label).hbase = frames[d].hbase
    BY <1>0, CaughtFacts, Zenon
  <1>3. PICK j \in 1..Len(frames[d].tries), t \in 0..Len(frames[d].tries) :
              /\ Unwound(i) = d
              /\ i = frames[d].hbase + j /\ i <= EndOf(frames, handlers, d)
              /\ handlers[i].table.depth = j - 1 /\ label \in Labels
              /\ label <= j - 1 \/ label = FuncEnd
              /\ t = IF label = FuncEnd THEN 0 ELSE label
              /\ t <= j - 1
              /\ AtLabel(frames[d], label) \in Frame
              /\ AtLabel(frames[d], label).tries = SubSeq(frames[d].tries, 1, t)
              /\ AtLabel(frames[d], label).locals = frames[d].locals
              /\ AtLabel(frames[d], label).floor = frames[d].floor
              /\ AtLabel(frames[d], label).top = frames[d].top
              /\ AtLabel(frames[d], label).results = frames[d].results
              /\ AtLabel(frames[d], label).hbase = frames[d].hbase
    BY <1>2
  <1>4. label \in Nat
    <2>1. label \in Labels
      BY <1>3
    <2> HIDE DEF label
    <2>2. MaxTries \in Nat
      BY ExecAssumption
    <2> QED
      BY <2>1, <2>2 DEF Labels, FuncEnd
  <1>5. /\ n \in Lowest(frames[d], label)..frames[d].top
        /\ frames' = [SubSeq(frames, 1, d) EXCEPT ![d] = AtLabel(frames[d], label)]
        /\ landing' \in Landings(j - 1, label)
    BY <1>1, <1>3
  <1> HIDE DEF label
  <1>6. frames \in Seq(Frame) /\ Depth = Len(frames) /\ Depth \in Nat /\ StackSize \in Nat /\ Len(handlers) \in Nat
    BY <1>0, InterpretFacts
  <1>7. /\ frames[d].floor \in 0..StackSize /\ frames[d].top \in 0..StackSize /\ frames[d].results \in Nat
        /\ frames[d].hbase \in Nat /\ Len(frames[d].tries) \in Nat /\ d \in 1..Len(frames)
    BY <1>6, FrameFacts
  <1>8. Lowest(frames[d], label) \in Nat /\ Lowest(frames[d], label) >= frames[d].floor
    <2>1. PICK y \in Nat, z \in Nat : y = frames[d].floor /\ z = frames[d].results
      BY <1>6, <1>7
    <2>2. Lowest(frames[d], label) \in {y, y + z}
      BY <2>1 DEF Lowest
    <2>3. \A x \in {y, y + z} : x \in Nat /\ x >= y
      OBVIOUS
    <2> QED
      BY <2>1, <2>2, <2>3
  <1>9. n \in Nat /\ n >= frames[d].floor /\ n <= frames[d].top
    BY <1>5, <1>6, <1>7, <1>8
  <1>10. landing' \in {"no", "trim", "end"} /\ (landing' = "no" => t = j - 1)
    BY <1>3, <1>4, <1>5, <1>7 DEF Landings
  <1>11. PICK m \in Nat : m = i - 1 /\ frames[d].hbase + t <= m /\ m = frames[d].hbase + (j - 1)
    <2>1. PICK b \in Nat : b = frames[d].hbase
      BY <1>7
    <2>2. PICK c \in Nat : c = Len(frames[d].tries)
      BY <1>7
    <2>3. j \in 1..c /\ t \in 0..c
      BY <2>2
    <2>4. i = frames[d].hbase + j /\ t <= j - 1
      BY <1>3
    <2>5. i = b + j /\ t <= j - 1 /\ j \in Nat /\ j > 0 /\ t \in Nat
      BY <2>1, <2>3, <2>4
    <2>6. i - 1 \in Nat /\ b + t <= i - 1 /\ i - 1 = b + (j - 1)
      BY <2>5
    <2> QED
      BY <2>1, <2>6
  <1>12. m <= EndOf(frames, handlers, d)
    <2>1. EndOf(frames, handlers, d) \in Nat
      BY <1>0, <1>6, <1>7, InterpretFacts, EndFacts
    <2> QED
      BY <1>3, <1>6, <1>11, <2>1
  <1>13. PICK g \in Seq(Frame) : g = SubSeq(frames, 1, d) /\ Len(g) = d /\ \A k \in 1..d : g[k] = frames[k]
    <2>1. d \in Nat /\ d <= Len(frames)
      BY <1>6
    <2>2. /\ SubSeq(frames, 1, d) \in Seq(Frame) /\ Len(SubSeq(frames, 1, d)) = d
          /\ \A k \in 1..d : SubSeq(frames, 1, d)[k] = frames[k]
      BY <1>6, <2>1, PrefixFacts
    <2> QED
      BY <2>2
  <1>14. d \in 1..Len(g) /\ \A k \in 1..(d - 1) : k \in 1..d /\ k # d
    BY <1>6, <1>13
  <1>15. PICK fs \in Seq(Frame) :
             /\ fs = [g EXCEPT ![d] = AtLabel(frames[d], label)]
             /\ Len(fs) = d /\ fs[d] = AtLabel(frames[d], label)
             /\ \A k \in 1..Len(g) : k # d => fs[k] = g[k]
    <2>1. /\ [g EXCEPT ![d] = AtLabel(frames[d], label)] \in Seq(Frame)
          /\ Len([g EXCEPT ![d] = AtLabel(frames[d], label)]) = Len(g)
          /\ [g EXCEPT ![d] = AtLabel(frames[d], label)][d] = AtLabel(frames[d], label)
          /\ \A k \in 1..Len(g) : k # d => [g EXCEPT ![d] = AtLabel(frames[d], label)][k] = g[k]
      BY <1>3, <1>14, ExceptFacts
    <2> QED
      BY <1>13, <2>1
  <1>16. fs = frames' /\ Len(fs) = d /\ \A k \in 1..(d - 1) : fs[k] = frames[k]
    BY <1>5, <1>13, <1>14, <1>15
  <1>17. /\ fs[d].locals = frames[d].locals /\ fs[d].floor = frames[d].floor /\ fs[d].top = frames[d].top
         /\ fs[d].results = frames[d].results /\ fs[d].hbase = frames[d].hbase
         /\ fs[d].tries = SubSeq(frames[d].tries, 1, t)
    BY <1>3, <1>15
  <1>18. handlers' = SubSeq(handlers, 1, m) /\ n = sp' /\ (landing' = "no" => m = frames[d].hbase + t)
    BY <1>1, <1>10, <1>11
  <1> QED
    BY <1>0, <1>9, <1>10, <1>11, <1>12, <1>16, <1>17, <1>18, JumpKeeps

LEMMA ThrowUncaughtStep ==
    ASSUME StackInv, NEW tag \in Tags, ThrowUncaught(tag) PROVE StackInv'
  <1>0. /\ Interpreting /\ Traps /\ pending' = TRUE /\ sp' = sp
        /\ frames' = SubSeq(frames, 1, Unwound(base.handlers + 1))
        /\ handlers' = SubSeq(handlers, 1, base.handlers)
    BY CodeFacts DEF ThrowUncaught
  <1>1. base.handlers = 0
    BY DEF StackInv, Lifecycle
  <1>2. Unwound(base.handlers + 1) = Unwound(1)
    BY <1>1
  <1>3. Unwound(1) \in 0..Depth /\ 0 \in 0..Len(handlers)
    <2>1. /\ frames \in Seq(Frame) /\ handlers \in Seq(Handler) /\ Len(handlers) \in Nat
          /\ ScopedOf(frames, handlers, landing = "no")
      BY <1>0, InterpretFacts
    <2>2. Unwound(1) \in 0..Depth
      BY <2>1, UnwoundAll
    <2> QED
      BY <2>1, <2>2
  <1>4. frames' = SubSeq(frames, 1, Unwound(1)) /\ handlers' = SubSeq(handlers, 1, 0) /\ pending' \in BOOLEAN
    BY <1>0, <1>1, <1>2
  <1> QED
    BY <1>0, <1>3, <1>4, TrapsKeeps
-----------------------------------------------------------------------------
Zeros == [sp |-> 0, handlers |-> 0, frames |-> 0]

(* A context that is ready has nothing on its stacks. *)
LEMMA ReadyFacts ==
    ASSUME StackInv, state = "READY"
    PROVE  /\ sp = 0 /\ frames = <<>> /\ handlers = <<>> /\ host = None /\ landing = "no" /\ pending = FALSE
           /\ Depth = 0 /\ Len(handlers) = 0
           /\ SaveBase => base' = Zeros
  <1>1. sp = 0 /\ frames = <<>> /\ handlers = <<>> /\ host = None /\ landing = "no" /\ ~pending
    BY DEF StackInv, Lifecycle, ReadyIsClean
  <1>2. pending = FALSE
    BY <1>1 DEF StackInv, TypeOK
  <1>3. Depth = 0 /\ Len(handlers) = 0
    BY <1>1 DEF Depth
  <1> QED
    BY <1>1, <1>2, <1>3 DEF SaveBase, Zeros

LEMMA CleanKeeps ==
    ASSUME state' = "READY", sp' = 0, frames' = <<>>, handlers' = <<>>, base' = Zeros,
           entry' \in Funcs \cup {None}, mode' \in {"api", "enter", "leave"},
           landing' = "no", host' = None, pending' = FALSE
    PROVE  StackInv'
  <1>0. StackSize \in Nat /\ MaxHandlers \in Nat
    BY ExecAssumption
  <1>1. Zeros \in [sp : 0..StackSize, handlers : Nat, frames : Nat]
    BY <1>0 DEF Zeros
  <1>2. <<>> \in Seq(Frame) /\ <<>> \in Seq(Handler) /\ Len(<<>>) = 0
    BY EmptySeq
  <1>3. 0 \in 0..StackSize /\ 0 <= MaxHandlers
    BY <1>0
  <1>4. TypeOK'
    BY <1>1, <1>2, <1>3 DEF TypeOK, States
  <1>5. Depth' = 0 /\ ~Active'
    BY <1>2 DEF Depth, Active
  <1>6. Lifecycle' /\ HostCall' /\ Scoped'
    BY <1>5 DEF Lifecycle, ReadyIsClean, HostCall, Scoped, Zeros
  <1>7. Nested'
    BY <1>0, <1>5 DEF Nested, FramePtr
  <1> QED
    BY <1>4, <1>6, <1>7 DEF StackInv

(* wah_finish_internal empties the stacks. *)
LEMMA RestoreFacts ==
    ASSUME StackInv, Restore
    PROVE  /\ state' = "READY" /\ sp' = 0 /\ frames' = <<>> /\ handlers' = <<>> /\ base' = Zeros
           /\ entry' = None /\ landing' = "no"
  <1>1. base.sp = 0 /\ base.handlers = 0 /\ base.frames = 0
    BY DEF StackInv, Lifecycle
  <1>2. frames \in Seq(Frame) /\ handlers \in Seq(Handler) /\ Len(frames) \in Nat /\ Len(handlers) \in Nat
    BY LenProperties DEF StackInv, TypeOK
  <1>3. SubSeq(frames, 1, 0) \in Seq(Frame) /\ Len(SubSeq(frames, 1, 0)) = 0
    BY <1>2, PrefixFacts
  <1>4. SubSeq(handlers, 1, 0) \in Seq(Handler) /\ Len(SubSeq(handlers, 1, 0)) = 0
    BY <1>2, PrefixFacts
  <1>5. SubSeq(frames, 1, 0) = <<>> /\ SubSeq(handlers, 1, 0) = <<>>
    BY <1>3, <1>4, EmptySeq
  <1> QED
    BY <1>1, <1>5 DEF Restore, Zeros

LEMMA FinishStep ==
    ASSUME StackInv, Finish PROVE StackInv'
  <1>1. state = "FINISHED" /\ Restore /\ mode' = "api" /\ host' = host /\ pending' = pending
    BY DEF Finish
  <1>2. host = None /\ pending = FALSE
    BY <1>1 DEF StackInv, Lifecycle, TypeOK
  <1> QED
    BY <1>1, <1>2, RestoreFacts, CleanKeeps

LEMMA CancelInternalStep ==
    ASSUME StackInv, CancelInternal, host = None, mode' \in {"api", "enter", "leave"} PROVE StackInv'
  <1>1. pending' = FALSE /\ host' = None
    BY DEF CancelInternal
  <1>2. CASE state = "READY"
    <2>1. state' = state /\ base' = base /\ entry' = entry /\ sp' = sp /\ frames' = frames /\ handlers' = handlers /\ landing' = landing
      BY <1>2 DEF CancelInternal, stack
    <2>2. base = Zeros /\ entry \in Funcs \cup {None}
      BY DEF StackInv, Lifecycle, TypeOK, Zeros
    <2> QED
      BY <1>1, <1>2, <2>1, <2>2, ReadyFacts, CleanKeeps
  <1>3. CASE state # "READY"
    <2>1. Restore
      BY <1>3 DEF CancelInternal
    <2> QED
      BY <1>1, <2>1, RestoreFacts, CleanKeeps
  <1> QED
    BY <1>2, <1>3

(* A stuttering step. *)
LEMMA StutterStep ==
    ASSUME StackInv, UNCHANGED vars PROVE StackInv'
  BY DEF vars, stack, StackInv, TypeOK, Lifecycle, ReadyIsClean, HostCall, Nested, Scoped, ScopedOf, FrameScoped,
         EndOf, NestedOf, FrameNested, FramePtr, Active, Depth, Top

LEMMA CancelStep ==
    ASSUME StackInv, Cancel PROVE StackInv'
  <1>1. CASE state = "RUNNING"
    <2>1. UNCHANGED vars
      BY <1>1 DEF Cancel
    <2> QED
      BY <2>1, StutterStep
  <1>2. CASE state # "RUNNING"
    <2>1. CancelInternal /\ mode' = mode
      BY <1>2 DEF Cancel
    <2>2. host = None /\ mode \in {"api", "enter", "leave"}
      BY <1>2 DEF StackInv, Lifecycle, TypeOK
    <2> QED
      BY <2>1, <2>2, CancelInternalStep
  <1> QED
    BY <1>1, <1>2

LEMMA CallFailsStep ==
    ASSUME StackInv, CallFails PROVE StackInv'
  <1>1. CancelInternal /\ mode' = "api" /\ host = None
    BY DEF CallFails, StackInv, Lifecycle
  <1> QED
    BY <1>1, CancelInternalStep

LEMMA StartRejectedStep ==
    ASSUME StackInv, NEW f \in Funcs, StartRejected(f) PROVE StackInv'
  <1>1. /\ state = "READY" /\ SaveBase /\ (entry' = entry \/ entry' = f) /\ state' = state /\ mode' = mode
        /\ sp' = sp /\ frames' = frames /\ handlers' = handlers /\ landing' = landing /\ host' = host /\ pending' = pending
    BY DEF StartRejected, stack
  <1>2. entry \in Funcs \cup {None} /\ mode \in {"api", "enter", "leave"}
    BY DEF StackInv, TypeOK
  <1>3. entry' \in Funcs \cup {None} /\ mode' \in {"api", "enter", "leave"}
    BY <1>1, <1>2
  <1> QED
    BY <1>1, <1>3, ReadyFacts, CleanKeeps

LEMMA ResumeStep ==
    ASSUME StackInv, Resume PROVE StackInv'
  <1>0. /\ state = "SUSPENDED" /\ state' = "RUNNING" /\ base' = base /\ entry' = entry
        /\ mode' \in {"api", "enter", "leave"} /\ host' = (IF entry.host THEN entry ELSE None)
        /\ sp' = sp /\ frames' = frames /\ handlers' = handlers /\ landing' = landing /\ pending' = pending
    BY DEF Resume, stack
  <1>1. /\ Active /\ entry \in Funcs /\ (entry.host <=> Depth = 0) /\ host = None /\ pending = FALSE
        /\ base = Zeros /\ (Depth = 0 => sp = entry.params + entry.results)
    BY <1>0 DEF StackInv, Lifecycle, TypeOK, Active, Zeros
  <1>2. host' \in Funcs \cup {None}
    BY <1>0, <1>1
  <1>3. TypeOK'
    BY <1>0, <1>2 DEF StackInv, TypeOK, States
  <1>4. Depth' = Depth /\ Top' = Top /\ Active'
    BY <1>0 DEF Depth, Top, Active
  <1>5. Lifecycle'
    BY <1>0, <1>1, <1>4 DEF Lifecycle, ReadyIsClean, Zeros
  <1>6. HostCall'
    <2>1. Depth \in Nat
      BY LenProperties DEF StackInv, TypeOK, Depth
    <2> QED
      BY <1>0, <1>1, <1>4, <2>1 DEF HostCall
  <1>7. Nested'
    <2>1. sp <= FramePtr(Depth) /\ NestedOf(frames)
      BY <1>1 DEF StackInv, Nested
    <2>2. Depth > 0 /\ landing # "pop" => sp \in Top.floor..Top.top
      BY <1>1 DEF StackInv, Nested
    <2>3. NestedOf(frames)' /\ FramePtr(Depth)' = FramePtr(Depth)
      BY <1>0, <1>4, <2>1 DEF NestedOf, FrameNested, FramePtr
    <2> QED
      BY <1>0, <1>4, <2>1, <2>2, <2>3 DEF Nested
  <1>8. Scoped'
    BY <1>0, <1>1 DEF StackInv, Scoped, ScopedOf, FrameScoped, EndOf
  <1> QED
    BY <1>3, <1>5, <1>6, <1>7, <1>8 DEF StackInv
(* An activation that has just been started. *)
LEMMA StartKeeps ==
    ASSUME base' = Zeros, NEW f \in Funcs, entry' = f, state' = "SUSPENDED", mode' \in {"api", "enter", "leave"},
           handlers' = <<>>, landing' = "no", host' = None, pending' = FALSE,
           NEW fs \in Seq(Frame), fs = frames', f.host <=> Len(fs) = 0,
           NEW n \in Nat, n = sp', n <= FramePtr(Len(fs)), Len(fs) = 0 => n = f.params + f.results,
           NestedOf(fs), Len(fs) > 0 => n \in fs[Len(fs)].floor..fs[Len(fs)].top,
           ScopedOf(fs, <<>>, TRUE)
    PROVE  StackInv'
  <1>0. StackSize \in Nat /\ MaxHandlers \in Nat /\ Len(fs) \in Nat
    BY ExecAssumption, LenProperties
  <1>1. Zeros \in [sp : 0..StackSize, handlers : Nat, frames : Nat]
    BY <1>0 DEF Zeros
  <1>2. <<>> \in Seq(Handler) /\ Len(<<>>) = 0
    BY EmptySeq
  <1>3. n \in 0..StackSize /\ 0 <= MaxHandlers
    BY <1>0 DEF FramePtr
  <1>4. TypeOK'
    BY <1>1, <1>2, <1>3 DEF TypeOK, States
  <1>5. Depth' = Len(fs) /\ Top' = fs[Len(fs)] /\ Active'
    BY DEF Depth, Top, Active
  <1>6. Lifecycle'
    BY <1>5 DEF Lifecycle, ReadyIsClean, Zeros
  <1>7. HostCall'
    BY DEF HostCall
  <1>8. Nested'
    <2>1. NestedOf(frames)' /\ FramePtr(Depth)' = FramePtr(Len(fs))
      BY <1>5 DEF NestedOf, FrameNested, FramePtr
    <2> QED
      BY <1>5, <2>1 DEF Nested
  <1>9. Scoped'
    BY DEF Scoped, ScopedOf, FrameScoped, EndOf
  <1> QED
    BY <1>4, <1>6, <1>7, <1>8, <1>9 DEF StackInv

(* Empty stacks. *)
LEMMA EmptyStacks ==
    /\ <<>> \in Seq(Frame) /\ <<>> \in Seq(Handler) /\ Len(<<>>) = 0
    /\ NestedOf(<<>>) /\ ScopedOf(<<>>, <<>>, TRUE)
  <1>1. <<>> \in Seq(Frame) /\ <<>> \in Seq(Handler) /\ Len(<<>>) = 0
    BY EmptySeq
  <1>2. \A k : k \notin 1..Len(<<>>) /\ k \notin 1..(Len(<<>>) - 1)
    BY <1>1
  <1>3. NestedOf(<<>>) /\ ScopedOf(<<>>, <<>>, TRUE)
    BY <1>1, <1>2 DEF NestedOf, ScopedOf
  <1> QED
    BY <1>1, <1>3

LEMMA StartStep ==
    ASSUME StackInv, NEW f \in Funcs, NEW m \in {"api", "enter"}, Start(f, m) PROVE StackInv'
  <1>0. /\ state = "READY" /\ SaveBase /\ entry' = f /\ state' = "SUSPENDED" /\ mode' = m
        /\ handlers' = handlers /\ landing' = landing /\ host' = host /\ pending' = pending
    BY DEF Start
  <1>1. /\ sp = 0 /\ frames = <<>> /\ handlers' = <<>> /\ landing' = "no" /\ host' = None /\ pending' = FALSE
        /\ base' = Zeros /\ Depth = 0 /\ Len(handlers) = 0
    BY <1>0, ReadyFacts
  <1>2. /\ f.params \in Nat /\ f.locals \in Nat /\ f.slots \in Nat /\ f.results \in Nat /\ StackSize \in Nat
    BY FuncFacts, ExecAssumption
  <1>3. mode' \in {"api", "enter", "leave"}
    BY <1>0
  <1>4. CASE f.host
    <2>1. sp + f.params + f.results <= FramePtr(Depth) /\ sp' = sp + f.params + f.results /\ frames' = frames
      BY <1>4 DEF Start
    <2>2. PICK n \in Nat : n = sp' /\ n = f.params + f.results /\ n <= FramePtr(0)
      BY <1>1, <1>2, <2>1
    <2>3. frames' = <<>> /\ ~(Len(<<>>) > 0)
      BY <1>1, <2>1, EmptyStacks
    <2> QED
      BY <1>0, <1>1, <1>3, <1>4, <2>2, <2>3, EmptyStacks, StartKeeps
  <1>5. CASE ~f.host
    <2> DEFINE fr == NewFrame(f, 0, 0)
    <2>1. /\ sp + f.params + f.slots <= FramePtr(Depth + 1) /\ sp' = sp + f.params + f.locals
          /\ frames' = Append(frames, NewFrame(f, sp, Len(handlers)))
      BY <1>5 DEF Start
    <2>2. frames' = Append(<<>>, fr)
      BY <1>1, <2>1
    <2>3. 0 + f.params + f.slots <= StackSize - 1 /\ 0 + f.params + f.slots <= StackSize
      BY <1>1, <1>2, <2>1 DEF FramePtr
    <2>4. /\ fr \in Frame /\ fr.locals = 0 /\ fr.floor = 0 + f.params + f.locals
          /\ fr.top = 0 + f.params + f.slots /\ fr.results = f.results
          /\ fr.hbase = 0 /\ fr.tries = <<>>
          /\ 0 + f.params + f.locals \in Nat
          /\ 0 <= 0 + f.params + f.locals
          /\ 0 + f.params + f.locals <= 0 + f.params + f.slots
      BY <1>5, <2>3, NewFrameFacts
    <2> HIDE DEF fr
    <2>5. PICK fs \in Seq(Frame) : fs = Append(<<>>, fr) /\ Len(fs) = 1 /\ fs[1] = fr
      <3>1. <<>> \in Seq(Frame) /\ Len(<<>>) = 0 /\ 0 + 1 = 1
        BY EmptyStacks
      <3>2. Append(<<>>, fr) \in Seq(Frame) /\ Len(Append(<<>>, fr)) = 1 /\ Append(<<>>, fr)[1] = fr
        BY <2>4, <3>1, AppendFacts
      <3> QED
        BY <3>2
    <2>6. fr.locals <= fr.floor /\ fr.floor <= fr.top /\ fr.top <= FramePtr(1)
      BY <2>3, <2>4 DEF FramePtr
    <2>7. FrameNested(fs, 1)
      <3>1. 1 \in 1..Len(fs) /\ fs[1].tries = <<>>
        BY <2>4, <2>5
      <3> QED
        BY <2>5, <2>6, <3>1, NewFrameNested
    <2>8. NestedOf(fs)
      <3>1. Len(<<>>) + 1 = 1 /\ ~(Len(<<>>) > 0)
        BY EmptyStacks
      <3> QED
        BY <2>4, <2>5, <2>7, <3>1, EmptyStacks, PushNested
    <2>9. ScopedOf(fs, <<>>, TRUE)
      BY <2>4, <2>5, EmptyStacks, PushScoped
    <2>10. PICK n \in Nat : n = sp' /\ n = fr.floor
      BY <1>1, <2>1, <2>4
    <2>11. n \in fr.floor..fr.top /\ n <= FramePtr(Len(fs))
      BY <1>2, <2>3, <2>4, <2>5, <2>10 DEF FramePtr
    <2>12. (f.host <=> Len(fs) = 0) /\ (Len(fs) = 0 => n = f.params + f.results) /\ fs = frames'
      BY <1>5, <2>2, <2>5
    <2>13. Len(fs) > 0 => n \in fs[Len(fs)].floor..fs[Len(fs)].top
      BY <2>5, <2>11
    <2> QED
      BY <1>0, <1>1, <1>3, <2>8, <2>9, <2>10, <2>11, <2>12, <2>13, StartKeeps
  <1> QED
    BY <1>4, <1>5
-----------------------------------------------------------------------------
LEMMA StackInvInit == Init => StackInv
  <1> SUFFICES ASSUME Init PROVE StackInv
    OBVIOUS
  <1>0. StackSize \in Nat /\ MaxHandlers \in Nat
    BY ExecAssumption
  <1>1. [sp |-> 0, handlers |-> 0, frames |-> 0] \in [sp : 0..StackSize, handlers : Nat, frames : Nat]
    BY <1>0
  <1>2. frames = <<>> /\ handlers = <<>> /\ Depth = 0 /\ Len(handlers) = 0 /\ ~Active
    BY EmptyStacks DEF Init, Depth, Active
  <1>3. TypeOK
    <2>1. frames \in Seq(Frame) /\ handlers \in Seq(Handler) /\ Len(handlers) <= MaxHandlers
      BY <1>0, <1>2, EmptyStacks
    <2>2. base \in [sp : 0..StackSize, handlers : Nat, frames : Nat]
      BY <1>1 DEF Init
    <2>3. sp \in 0..StackSize
      BY <1>0 DEF Init
    <2> QED
      BY <2>1, <2>2, <2>3 DEF Init, TypeOK, States
  <1>4. Lifecycle /\ HostCall /\ Scoped
    BY <1>2 DEF Init, Lifecycle, ReadyIsClean, HostCall, Scoped
  <1>5. Nested
    BY <1>0, <1>2 DEF Init, Nested, FramePtr
  <1> QED
    BY <1>3, <1>4, <1>5 DEF StackInv

LEMMA StackInvStep == StackInv /\ [Next]_vars => StackInv'
  <1> SUFFICES ASSUME StackInv, [Next]_vars PROVE StackInv'
    OBVIOUS
  <1>1. CASE \E f \in Funcs : StartRejected(f) \/ \E m \in {"api", "enter"} : Start(f, m)
    BY <1>1, StartRejectedStep, StartStep
  <1>2. CASE Resume \/ Finish \/ Cancel \/ CallFails
    BY <1>2, ResumeStep, FinishStep, CancelStep, CallFailsStep
  <1>3. CASE HostReturns \/ HostTraps
    BY <1>3, HostReturnsStep, HostTrapsStep
  <1>4. CASE Interpret
    <2>1. CASE Trap \/ Suspend \/ EndTryTable \/ Trim \/ Return
      BY <2>1, TrapStep, SuspendStep, EndTryTableStep, TrimStep, ReturnStep
    <2>2. CASE \E n \in Heights : Operate(n)
      BY <2>2, OperateStep
    <2>3. CASE \E tb \in Tables : TryTable(tb)
      BY <2>3, TryTableStep
    <2>4. CASE \E label \in Labels, n \in 0..StackSize : Branch(label, n)
      BY <2>4, BranchStep
    <2>5. CASE \E f \in Funcs : Call(f) \/ CallHost(f) \/ TailCall(f) \/ TailCallHost(f)
      BY <2>5, CallStep, CallHostStep, TailCallStep, TailCallHostStep
    <2>6. CASE \E t \in Tags : ThrowUncaught(t) \/ \E n \in 0..StackSize : ThrowCaught(t, n)
      BY <2>6, ThrowUncaughtStep, ThrowCaughtStep
    <2> QED
      BY <1>4, <2>1, <2>2, <2>3, <2>4, <2>5, <2>6 DEF Interpret
  <1>5. CASE UNCHANGED vars
    BY <1>5, StutterStep
  <1> QED
    BY <1>1, <1>2, <1>3, <1>4, <1>5 DEF Next

(* In every reachable state the activation's stacks and lifecycle agree. *)
THEOREM StackInvariant == Spec => []StackInv
  BY StackInvInit, StackInvStep, PTL DEF Spec

(* Every variable of the activation keeps its type: no step of the         *)
(* interpreter pushes more handlers than the budget, or moves the stack    *)
(* pointer out of the buffer.                                              *)
THEOREM StackTypeCorrect == Spec => []TypeOK
  <1>1. StackInv => TypeOK
    BY DEF StackInv
  <1> QED
    BY <1>1, StackInvariant, PTL
LEMMA ScopedMatches == StackInv => HandlersMatch
  <1> SUFFICES ASSUME StackInv, Active PROVE HandlersMatch
    BY DEF HandlersMatch
  <1>0. ScopedOf(frames, handlers, landing = "no") /\ frames \in Seq(Frame) /\ handlers \in Seq(Handler)
    BY DEF StackInv, Scoped, TypeOK
  <1>1. Depth = Len(frames) /\ Depth \in Nat /\ Len(handlers) \in Nat
    BY <1>0, LenProperties DEF Depth
  <1>2. \A k \in 1..Depth : HandlersEnd(k) = EndOf(frames, handlers, k)
    BY <1>1 DEF HandlersEnd, EndOf
  <1>3. ASSUME NEW k \in 1..Depth
        PROVE  /\ frames[k].hbase + Len(frames[k].tries) <= HandlersEnd(k)
               /\ k < Depth \/ landing = "no" => frames[k].hbase + Len(frames[k].tries) = HandlersEnd(k)
               /\ \A j \in 1..Len(frames[k].tries) :
                     handlers[frames[k].hbase + j] =
                         [call_depth |-> k, sp_base |-> frames[k].tries[j].sp_base,
                          table |-> frames[k].tries[j].table]
    BY <1>0, <1>1, <1>2 DEF ScopedOf, FrameScoped
  <1>4. Depth > 0 => frames[1].hbase = 0
    BY <1>0, <1>1 DEF ScopedOf
  <1>5. \A i \in 1..Len(handlers) : handlers[i].call_depth \in 1..Depth
    BY <1>0, <1>1 DEF ScopedOf
  <1>6. \A i \in 1..Len(handlers) : handlers[i].call_depth <= Depth
    BY <1>1, <1>5
  <1>7. Depth = 0 => handlers = <<>>
    <2> SUFFICES ASSUME Depth = 0, Len(handlers) # 0 PROVE FALSE
      BY <1>0, EmptySeq
    <2>1. 1 \in 1..Len(handlers) /\ \A x : x \notin 1..Depth
      BY <1>1
    <2> QED
      BY <1>5, <2>1
  <1> QED
    BY <1>3, <1>4, <1>6, <1>7 DEF HandlersMatch

(* WAH_DROP_FRAME_HANDLERS, TRIM_HANDLERS, END_TRY_TABLE and               *)
(* wah_throw_exception, in any order and at any depth, leave exactly the   *)
(* handlers of the try_tables around the code of the frames.               *)
THEOREM HandlersAreScoped == Spec => []HandlersMatch
  BY StackInvariant, ScopedMatches, PTL

LEMMA NestedBounds == StackInv => FrameBounds
  <1> SUFFICES ASSUME StackInv PROVE FrameBounds
    OBVIOUS
  <1>1. /\ sp <= FramePtr(Depth)
        /\ Active => NestedOf(frames)
        /\ Active /\ Depth > 0 /\ host = None /\ landing # "pop" => sp \in Top.floor..Top.top
    BY DEF StackInv, Nested
  <1>2. ASSUME Active, NEW k \in 1..Depth
        PROVE  /\ frames[k].floor <= frames[k].top
               /\ frames[k].top <= FramePtr(k)
               /\ \A j \in 1..Len(frames[k].tries) :
                     frames[k].tries[j].sp_base \in frames[k].floor..frames[k].top
    BY <1>1, <1>2 DEF NestedOf, FrameNested, Depth
  <1>3. ASSUME Active, NEW k \in 1..(Depth - 1)
        PROVE  frames[k + 1].locals \in frames[k].floor..frames[k].top
    BY <1>1, <1>3 DEF NestedOf, Depth
  <1> QED
    BY <1>1, <1>2, <1>3 DEF FrameBounds

(* The preflight checks of wah_start_function_internal, the calls and the  *)
(* tail calls keep the value stack below the frame pointer and the         *)
(* operands of each frame within its own bounds, whatever the program.     *)
THEOREM FramesAreNested == Spec => []FrameBounds
  BY StackInvariant, NestedBounds, PTL

(* wah_finish_internal and wah_cancel_internal leave nothing of an         *)
(* activation behind, whichever way it ended.                              *)
THEOREM ReadyAgain == Spec => []ReadyIsClean
  <1>1. StackInv => ReadyIsClean
    BY DEF StackInv, Lifecycle
  <1> QED
    BY <1>1, StackInvariant, PTL
-----------------------------------------------------------------------------
(* The catch tables that enclose the code of each frame. *)
CallsOf(fs) == [k \in 1..Len(fs) |-> TablesOf(fs[k])]

LEMMA TablesFacts ==
    ASSUME NEW fr \in Frame
    PROVE  /\ TablesOf(fr) \in Seq(Tables) /\ Len(TablesOf(fr)) = Len(fr.tries)
           /\ \A j \in 1..Len(fr.tries) : TablesOf(fr)[j] = fr.tries[j].table
  <1>1. fr.tries \in Seq(Try) /\ Len(fr.tries) \in Nat
    BY LenProperties DEF Frame, Try
  <1>2. \A j \in 1..Len(fr.tries) : fr.tries[j].table \in Tables
    <2>1. \A j \in 1..Len(fr.tries) : fr.tries[j] \in Try
      BY <1>1, ElementOfSeq
    <2> QED
      BY <2>1 DEF Try
  <1>3. TablesOf(fr) = [j \in 1..Len(fr.tries) |-> fr.tries[j].table]
    BY DEF TablesOf
  <1>4. TablesOf(fr) \in [1..Len(fr.tries) -> Tables]
    BY <1>2, <1>3
  <1>5. TablesOf(fr) \in Seq(Tables)
    BY <1>1, <1>4, IsASeq
  <1>6. Len(TablesOf(fr)) = Len(fr.tries)
    BY <1>1, <1>3, <1>5, LenProperties
  <1> QED
    BY <1>3, <1>5, <1>6

LEMMA CallsFacts ==
    ASSUME NEW fs \in Seq(Frame)
    PROVE  /\ CallsOf(fs) \in Seq(Seq(Tables)) /\ Len(CallsOf(fs)) = Len(fs)
           /\ \A k \in 1..Len(fs) : CallsOf(fs)[k] = TablesOf(fs[k])
  <1>1. Len(fs) \in Nat
    BY LenProperties
  <1>2. \A k \in 1..Len(fs) : TablesOf(fs[k]) \in Seq(Tables)
    BY FrameFacts, TablesFacts
  <1>3. CallsOf(fs) = [k \in 1..Len(fs) |-> TablesOf(fs[k])]
    BY DEF CallsOf
  <1>4. CallsOf(fs) \in [1..Len(fs) -> Seq(Tables)]
    BY <1>2, <1>3
  <1>5. CallsOf(fs) \in Seq(Seq(Tables))
    BY <1>1, <1>4, IsASeq
  <1>6. Len(CallsOf(fs)) = Len(fs)
    BY <1>1, <1>3, <1>5, LenProperties
  <1> QED
    BY <1>3, <1>5, <1>6

Replaced(s, d, x) == [s EXCEPT ![d] = x]

(* How the refinement mapping changes when the frames are cut back to the  *)
(* d-th and that one is replaced.                                          *)
LEMMA CallsCut ==
    ASSUME NEW fs \in Seq(Frame), NEW d \in 1..Len(fs), NEW fs2 \in Seq(Frame), Len(fs2) = d,
           \A k \in 1..(d - 1) : fs2[k] = fs[k]
    PROVE  CallsOf(fs2) = Replaced(SubSeq(CallsOf(fs), 1, d), d, TablesOf(fs2[d]))
  <1> DEFINE cs == CallsOf(fs)
             cs2 == CallsOf(fs2)
             g == SubSeq(cs, 1, d)
  <1>0. Len(fs) \in Nat /\ d \in Nat /\ d <= Len(fs)
    BY LenProperties
  <1>1. cs \in Seq(Seq(Tables)) /\ Len(cs) = Len(fs) /\ \A k \in 1..Len(fs) : cs[k] = TablesOf(fs[k])
    BY CallsFacts
  <1>2. cs2 \in Seq(Seq(Tables)) /\ Len(cs2) = d /\ \A k \in 1..d : cs2[k] = TablesOf(fs2[k])
    BY CallsFacts
  <1> HIDE DEF cs, cs2
  <1>3. g \in Seq(Seq(Tables)) /\ Len(g) = d /\ \A k \in 1..d : g[k] = cs[k]
    BY <1>0, <1>1, PrefixFacts
  <1>4. TablesOf(fs2[d]) \in Seq(Tables) /\ d \in 1..d
    BY <1>0, FrameFacts, TablesFacts
  <1> HIDE DEF g
  <1> DEFINE h == [g EXCEPT ![d] = TablesOf(fs2[d])]
  <1>5. /\ h \in Seq(Seq(Tables)) /\ Len(h) = d /\ h[d] = TablesOf(fs2[d])
        /\ \A k \in 1..d : k # d => h[k] = g[k]
    BY <1>3, <1>4, ExceptFacts
  <1> HIDE DEF h
  <1>6. \A k \in 1..d : k = d \/ (k # d /\ k \in 1..(d - 1) /\ k \in 1..Len(fs))
    BY <1>0
  <1>7. \A k \in 1..d : h[k] = cs2[k]
    BY <1>1, <1>2, <1>3, <1>5, <1>6
  <1>8. h = cs2
    BY <1>2, <1>5, <1>7, SeqEqual
  <1> QED
    BY <1>8 DEF h, g, cs, cs2, Replaced

LEMMA CallsPrefix ==
    ASSUME NEW fs \in Seq(Frame), NEW d \in 0..Len(fs)
    PROVE  CallsOf(SubSeq(fs, 1, d)) = SubSeq(CallsOf(fs), 1, d)
  <1> DEFINE cs == CallsOf(fs)
             fs2 == SubSeq(fs, 1, d)
             cs2 == CallsOf(fs2)
             g == SubSeq(cs, 1, d)
  <1>0. Len(fs) \in Nat /\ d \in Nat /\ d <= Len(fs) /\ \A k \in 1..d : k \in 1..Len(fs)
    BY LenProperties
  <1>1. cs \in Seq(Seq(Tables)) /\ Len(cs) = Len(fs) /\ \A k \in 1..Len(fs) : cs[k] = TablesOf(fs[k])
    BY CallsFacts
  <1>2. fs2 \in Seq(Frame) /\ Len(fs2) = d /\ \A k \in 1..d : fs2[k] = fs[k]
    BY <1>0, PrefixFacts
  <1> HIDE DEF fs2, cs
  <1>3. cs2 \in Seq(Seq(Tables)) /\ Len(cs2) = d /\ \A k \in 1..d : cs2[k] = TablesOf(fs2[k])
    BY <1>2, CallsFacts
  <1> HIDE DEF cs2
  <1>4. g \in Seq(Seq(Tables)) /\ Len(g) = d /\ \A k \in 1..d : g[k] = cs[k]
    BY <1>0, <1>1, PrefixFacts
  <1> HIDE DEF g
  <1>5. \A k \in 1..d : g[k] = cs2[k]
    BY <1>0, <1>1, <1>2, <1>3, <1>4
  <1>6. g = cs2
    BY <1>3, <1>4, <1>5, SeqEqual
  <1> QED
    BY <1>6 DEF g, cs, cs2, fs2

LEMMA CallsPush ==
    ASSUME NEW fs \in Seq(Frame), NEW fr \in Frame, fr.tries = <<>>
    PROVE  CallsOf(Append(fs, fr)) = Append(CallsOf(fs), <<>>)
  <1> DEFINE cs == CallsOf(fs)
             fs2 == Append(fs, fr)
             cs2 == CallsOf(fs2)
             g == Append(cs, <<>>)
             n == Len(fs)
  <1>0. n \in Nat
    BY LenProperties
  <1>1. cs \in Seq(Seq(Tables)) /\ Len(cs) = n /\ \A k \in 1..n : cs[k] = TablesOf(fs[k])
    BY CallsFacts
  <1>2. fs2 \in Seq(Frame) /\ Len(fs2) = n + 1 /\ fs2[n + 1] = fr /\ \A k \in 1..n : fs2[k] = fs[k]
    BY AppendFacts
  <1>3. TablesOf(fr) = <<>> /\ <<>> \in Seq(Tables)
    <2>1. TablesOf(fr) \in Seq(Tables) /\ Len(TablesOf(fr)) = 0
      BY TablesFacts
    <2> QED
      BY <2>1, EmptySeq
  <1> HIDE DEF fs2, cs, n
  <1>4. cs2 \in Seq(Seq(Tables)) /\ Len(cs2) = n + 1 /\ \A k \in 1..(n + 1) : cs2[k] = TablesOf(fs2[k])
    BY <1>2, CallsFacts
  <1> HIDE DEF cs2
  <1>5. g \in Seq(Seq(Tables)) /\ Len(g) = n + 1 /\ g[n + 1] = <<>> /\ \A k \in 1..n : g[k] = cs[k]
    BY <1>1, <1>3, AppendFacts
  <1> HIDE DEF g
  <1>6. \A k \in 1..(n + 1) : k = n + 1 \/ k \in 1..n
    BY <1>0
  <1>7. \A k \in 1..(n + 1) : g[k] = cs2[k]
    BY <1>1, <1>2, <1>3, <1>4, <1>5, <1>6
  <1>8. g = cs2
    BY <1>4, <1>5, <1>7, SeqEqual
  <1> QED
    BY <1>8 DEF g, cs, cs2, fs2

(* The try_tables around a label, in both views. *)
LEMMA TablesJump ==
    ASSUME NEW fr \in Frame, NEW label \in Labels, label <= Len(fr.tries) \/ label = FuncEnd
    PROVE  TablesOf(AtLabel(fr, label)) = Lexical!Enclosing(TablesOf(fr), label)
  <1>0. fr.tries \in Seq(Try) /\ Len(fr.tries) \in Nat
    BY LenProperties DEF Frame, Try
  <1>1. PICK t \in 0..Len(fr.tries) :
              /\ t = IF label = FuncEnd THEN 0 ELSE label
              /\ AtLabel(fr, label) \in Frame
              /\ AtLabel(fr, label).tries = SubSeq(fr.tries, 1, t)
    BY JumpFacts
  <1> DEFINE a == TablesOf(AtLabel(fr, label))
             c == TablesOf(fr)
             g == SubSeq(c, 1, t)
  <1>2. t \in Nat /\ t <= Len(fr.tries) /\ \A j \in 1..t : j \in 1..Len(fr.tries)
    BY <1>0
  <1>3. c \in Seq(Tables) /\ Len(c) = Len(fr.tries) /\ \A j \in 1..Len(fr.tries) : c[j] = fr.tries[j].table
    BY TablesFacts
  <1>4. Len(SubSeq(fr.tries, 1, t)) = t /\ \A j \in 1..t : SubSeq(fr.tries, 1, t)[j] = fr.tries[j]
    BY <1>0, <1>2, PrefixFacts
  <1>5. a \in Seq(Tables) /\ Len(a) = t /\ \A j \in 1..t : a[j] = SubSeq(fr.tries, 1, t)[j].table
    BY <1>1, <1>4, TablesFacts
  <1> HIDE DEF a, c
  <1>6. g \in Seq(Tables) /\ Len(g) = t /\ \A j \in 1..t : g[j] = c[j]
    BY <1>2, <1>3, PrefixFacts
  <1>7. \A j \in 1..t : g[j] = a[j]
    BY <1>2, <1>3, <1>4, <1>5, <1>6
  <1>8. g = a
    BY <1>5, <1>6, <1>7, SeqEqual
  <1>9. label = FuncEnd => g = <<>>
    BY <1>1, <1>6, EmptySeq
  <1>10. g = Lexical!Enclosing(c, label)
    BY <1>1, <1>9 DEF Lexical!Enclosing
  <1> QED
    BY <1>8, <1>10 DEF a, c
-----------------------------------------------------------------------------
(* The steps of Unwinding, in terms of the calls before and after. *)
Allowed == [Lexical!Next]_(Lexical!vars)

LEMMA AllowedSame ==
    ASSUME state' = state, NEW cs, cs = CallsOf(frames), cs = CallsOf(frames)'
    PROVE  Allowed
  BY DEF Allowed, Lexical!vars, CallsOf, Depth

LEMMA AllowedRun ==
    ASSUME state = "SUSPENDED", state' = "RUNNING", NEW cs, cs = CallsOf(frames), cs = CallsOf(frames)'
    PROVE  Allowed
  BY DEF Allowed, Lexical!Next, Lexical!Run, CallsOf, Depth

LEMMA AllowedStop ==
    ASSUME state = "RUNNING", NEW cs, cs = CallsOf(frames), cs = CallsOf(frames)',
           \/ state' \in {"SUSPENDED", "TRAPPED"}
           \/ state' = "FINISHED" /\ cs = <<>>
    PROVE  Allowed
  BY DEF Allowed, Lexical!Next, Lexical!Stop, CallsOf, Depth

LEMMA AllowedBegin ==
    ASSUME state = "READY", state' = "SUSPENDED", NEW cs2 \in {<<>>, << <<>> >>}, cs2 = CallsOf(frames)'
    PROVE  Allowed
  BY DEF Allowed, Lexical!Next, Lexical!Begin, CallsOf, Depth

LEMMA AllowedEnd ==
    ASSUME state \notin {"READY", "RUNNING"}, state' = "READY", <<>> = CallsOf(frames)'
    PROVE  Allowed
  BY DEF Allowed, Lexical!Next, Lexical!End, CallsOf, Depth

LEMMA AllowedEnter ==
    ASSUME state = "RUNNING", state' = "RUNNING", NEW tb \in Tables,
           NEW cs, cs = CallsOf(frames), cs # <<>>,
           NEW cs2, cs2 = CallsOf(frames)', cs2 = [cs EXCEPT ![Len(cs)] = Append(@, tb)]
    PROVE  Allowed
  BY DEF Allowed, Lexical!Next, Lexical!Enter, Lexical!Running, CallsOf, Depth

LEMMA AllowedJump ==
    ASSUME state = "RUNNING", state' = "RUNNING", NEW tb \in Tables,
           NEW cs, cs = CallsOf(frames), cs # <<>>, tb.label <= Len(cs[Len(cs)]) \/ tb.label = FuncEnd,
           NEW cs2, cs2 = CallsOf(frames)', cs2 = [cs EXCEPT ![Len(cs)] = Lexical!Enclosing(@, tb.label)]
    PROVE  Allowed
  <1>1. Lexical!Jump(tb.label)
    BY DEF Lexical!Jump, Lexical!Running, Lexical!Last, CallsOf, Depth
  <1> QED
    BY <1>1 DEF Allowed, Lexical!Next

LEMMA AllowedCall ==
    ASSUME state = "RUNNING", state' = "RUNNING", NEW cs, cs = CallsOf(frames), cs # <<>>,
           NEW cs2, cs2 = CallsOf(frames)', cs2 = Append(cs, <<>>)
    PROVE  Allowed
  BY DEF Allowed, Lexical!Next, Lexical!Call, Lexical!Running, CallsOf, Depth

LEMMA AllowedTailCall ==
    ASSUME state = "RUNNING", state' = "RUNNING", NEW cs, cs = CallsOf(frames), cs # <<>>,
           NEW cs2, cs2 = CallsOf(frames)', cs2 = [cs EXCEPT ![Len(cs)] = <<>>]
    PROVE  Allowed
  BY DEF Allowed, Lexical!Next, Lexical!TailCall, Lexical!Running, CallsOf, Depth

LEMMA AllowedReturn ==
    ASSUME state = "RUNNING", NEW cs, cs = CallsOf(frames), cs # <<>>,
           NEW cs2, cs2 = CallsOf(frames)', cs2 = SubSeq(cs, 1, Len(cs) - 1),
           state' = IF Len(cs) = 1 THEN "FINISHED" ELSE state
    PROVE  Allowed
  BY DEF Allowed, Lexical!Next, Lexical!Return, Lexical!Running, CallsOf, Depth

LEMMA AllowedCaught ==
    ASSUME state = "RUNNING", state' = "RUNNING", NEW t \in Tags, NEW cs, cs = CallsOf(frames), cs # <<>>,
           NEW k \in 1..Len(cs), NEW j \in 1..Len(cs[k]),
           t \in cs[k][j].catches,
           \A i \in (j + 1)..Len(cs[k]) : t \notin cs[k][i].catches,
           \A l \in (k + 1)..Len(cs) : \A i \in 1..Len(cs[l]) : t \notin cs[l][i].catches,
           NEW cs2, cs2 = CallsOf(frames)', SubSeq(cs, 1, k)[k] = cs[k],
           cs2 = Replaced(SubSeq(cs, 1, k), k, Lexical!Enclosing(cs[k], cs[k][j].label))
    PROVE  Allowed
  <1>1. cs = [x \in 1..Depth |-> TablesOf(frames[x])] /\ cs2 = [x \in 1..Depth |-> TablesOf(frames[x])]'
    BY DEF CallsOf, Depth
  <1>2. Lexical!Innermost(k, j, t)
    BY <1>1 DEF Lexical!Innermost
  <1>3. cs2 = [SubSeq(cs, 1, k) EXCEPT ![k] = Lexical!Enclosing(@, cs[k][j].label)]
    BY DEF Replaced
  <1>4. Lexical!Caught(t)
    BY <1>1, <1>2, <1>3 DEF Lexical!Caught, Lexical!Running
  <1> QED
    BY <1>4 DEF Allowed, Lexical!Next

LEMMA AllowedUncaught ==
    ASSUME state = "RUNNING", state' = "TRAPPED", NEW t \in Tags, NEW cs, cs = CallsOf(frames), cs # <<>>,
           \A k \in 1..Len(cs) : \A j \in 1..Len(cs[k]) : t \notin cs[k][j].catches,
           NEW k \in 0..Len(cs), NEW cs2, cs2 = CallsOf(frames)', cs2 = SubSeq(cs, 1, k)
    PROVE  Allowed
  <1>1. cs = [x \in 1..Depth |-> TablesOf(frames[x])] /\ cs2 = [x \in 1..Depth |-> TablesOf(frames[x])]'
    BY DEF CallsOf, Depth
  <1>2. Lexical!Uncaught(t)
    BY <1>1 DEF Lexical!Uncaught, Lexical!Running
  <1> QED
    BY <1>2 DEF Allowed, Lexical!Next
-----------------------------------------------------------------------------
(* Steps that leave the frames alone. *)
LEMMA SameCalls ==
    ASSUME frames' = frames
    PROVE  CallsOf(frames)' = CallsOf(frames)
  BY DEF CallsOf

(* While the interpreter runs there is a call. *)
LEMMA RunningCalls ==
    ASSUME StackInv, Interpreting
    PROVE  /\ frames \in Seq(Frame) /\ Depth = Len(frames) /\ Depth \in Nat /\ Depth \in 1..Len(frames)
           /\ CallsOf(frames) \in Seq(Seq(Tables)) /\ Len(CallsOf(frames)) = Depth
           /\ CallsOf(frames) # <<>> /\ CallsOf(frames)[Depth] = TablesOf(Top)
           /\ \A k \in 1..Depth : CallsOf(frames)[k] = TablesOf(frames[k])
           /\ SubSeq(CallsOf(frames), 1, Depth) = CallsOf(frames)
  <1>1. /\ frames \in Seq(Frame) /\ Depth = Len(frames) /\ Depth \in Nat /\ Depth > 0 /\ Depth \in 1..Len(frames)
        /\ Top = frames[Depth]
    BY InterpretFacts
  <1>2. /\ CallsOf(frames) \in Seq(Seq(Tables)) /\ Len(CallsOf(frames)) = Depth
        /\ \A k \in 1..Depth : CallsOf(frames)[k] = TablesOf(frames[k])
    BY <1>1, CallsFacts
  <1>3. CallsOf(frames) # <<>>
    BY <1>1, <1>2, EmptySeq
  <1>4. SubSeq(CallsOf(frames), 1, Depth) = CallsOf(frames)
    BY <1>2, WholePrefix
  <1> QED
    BY <1>1, <1>2, <1>3, <1>4

(* The innermost call after its frame was replaced. *)
LEMMA TopCalls ==
    ASSUME StackInv, Interpreting, NEW fr \in Frame
    PROVE  CallsOf(SetTop(fr)) = [CallsOf(frames) EXCEPT ![Len(CallsOf(frames))] = TablesOf(fr)]
  <1>1. PICK fs \in Seq(Frame) : fs = SetTop(fr)
    BY SetTopFacts
  <1>2. Len(fs) = Depth /\ fs[Depth] = fr /\ \A k \in 1..(Depth - 1) : fs[k] = frames[k]
    BY <1>1, SetTopFacts
  <1>3. PICK d \in 1..Len(frames) : d = Depth
    BY RunningCalls
  <1>4. Len(fs) = d /\ fs[d] = fr /\ \A k \in 1..(d - 1) : fs[k] = frames[k]
    BY <1>2, <1>3
  <1>5. CallsOf(fs) = [SubSeq(CallsOf(frames), 1, d) EXCEPT ![d] = TablesOf(fr)]
    <2>1. frames \in Seq(Frame)
      BY RunningCalls
    <2>2. CallsOf(fs) = Replaced(SubSeq(CallsOf(frames), 1, d), d, TablesOf(fs[d]))
      BY <1>4, <2>1, CallsCut
    <2> QED
      BY <1>4, <2>2 DEF Replaced
  <1>6. SubSeq(CallsOf(frames), 1, d) = CallsOf(frames) /\ d = Len(CallsOf(frames))
    BY <1>3, RunningCalls
  <1> QED
    BY <1>1, <1>5, <1>6

LEMMA TrapsAllowed ==
    ASSUME StackInv, Interpreting, Traps, frames' = frames PROVE Allowed
  <1>1. state = "RUNNING" /\ state' \in {"SUSPENDED", "TRAPPED"}
    BY DEF Interpreting, Traps
  <1> QED
    BY <1>1, SameCalls, AllowedStop

LEMMA StartAllowed ==
    ASSUME StackInv, NEW f \in Funcs, NEW m \in {"api", "enter"}, Start(f, m) PROVE Allowed
  <1>0. state = "READY" /\ state' = "SUSPENDED"
    BY DEF Start
  <1>1. sp = 0 /\ frames = <<>> /\ handlers = <<>> /\ Depth = 0 /\ Len(handlers) = 0
    BY <1>0, ReadyFacts
  <1>2. CallsOf(<<>>) = <<>>
    <2>1. CallsOf(<<>>) \in Seq(Seq(Tables)) /\ Len(CallsOf(<<>>)) = 0
      BY EmptyStacks, CallsFacts
    <2> QED
      BY <2>1, EmptySeq
  <1>3. CASE f.host
    <2>1. frames' = frames
      BY <1>3 DEF Start
    <2>2. CallsOf(frames)' = <<>>
      BY <1>1, <1>2, <2>1, SameCalls
    <2> QED
      BY <1>0, <2>2, AllowedBegin
  <1>4. CASE ~f.host
    <2>1. frames' = Append(<<>>, NewFrame(f, 0, 0)) /\ sp + f.params + f.slots <= FramePtr(Depth + 1)
      BY <1>1, <1>4 DEF Start
    <2>2. 0 + f.params + f.slots <= StackSize
      BY <1>1, <2>1, FuncFacts, ExecAssumption DEF FramePtr
    <2>3. NewFrame(f, 0, 0) \in Frame /\ NewFrame(f, 0, 0).tries = <<>>
      BY <1>4, <2>2, NewFrameFacts
    <2>4. CallsOf(Append(<<>>, NewFrame(f, 0, 0))) = Append(<<>>, <<>>)
      BY <1>2, <2>3, EmptyStacks, CallsPush
    <2>5. Append(<<>>, <<>>) = << <<>> >>
      OBVIOUS
    <2>6. CallsOf(frames)' = << <<>> >>
      BY <2>1, <2>4, <2>5 DEF CallsOf
    <2> QED
      BY <1>0, <2>6, AllowedBegin
  <1> QED
    BY <1>3, <1>4

LEMMA RestoreAllowed ==
    ASSUME StackInv, Restore, state \notin {"READY", "RUNNING"} PROVE Allowed
  <1>1. state' = "READY" /\ frames' = <<>>
    BY RestoreFacts
  <1>2. CallsOf(<<>>) = <<>>
    <2>1. CallsOf(<<>>) \in Seq(Seq(Tables)) /\ Len(CallsOf(<<>>)) = 0
      BY EmptyStacks, CallsFacts
    <2> QED
      BY <2>1, EmptySeq
  <1>3. CallsOf(frames)' = <<>>
    BY <1>1, <1>2 DEF CallsOf
  <1> QED
    BY <1>1, <1>3, AllowedEnd

LEMMA CancelAllowed ==
    ASSUME StackInv, CancelInternal, state # "RUNNING" PROVE Allowed
  <1>1. CASE state = "READY"
    <2>1. state' = state /\ frames' = frames
      BY <1>1 DEF CancelInternal, stack
    <2> QED
      BY <2>1, SameCalls, AllowedSame
  <1>2. CASE state # "READY"
    <2>1. Restore /\ state \notin {"READY", "RUNNING"}
      BY <1>2 DEF CancelInternal
    <2> QED
      BY <2>1, RestoreAllowed
  <1> QED
    BY <1>1, <1>2

LEMMA HostReturnsAllowed ==
    ASSUME StackInv, HostReturns PROVE Allowed
  <1>0. host # None /\ frames' = frames /\ state = "RUNNING"
    BY DEF HostReturns, StackInv, Lifecycle
  <1>1. CASE Depth = 0
    <2>1. state' = "FINISHED"
      BY <1>1 DEF HostReturns
    <2>2. frames \in Seq(Frame) /\ Len(frames) = 0
      BY <1>1 DEF StackInv, TypeOK, Depth
    <2>3. CallsOf(frames) \in Seq(Seq(Tables)) /\ Len(CallsOf(frames)) = 0
      BY <2>2, CallsFacts
    <2>4. CallsOf(frames) = <<>>
      BY <2>3, EmptySeq
    <2> QED
      BY <1>0, <2>1, <2>4, SameCalls, AllowedStop
  <1>2. CASE Depth # 0
    <2>1. state' = state
      BY <1>2 DEF HostReturns
    <2> QED
      BY <1>0, <2>1, SameCalls, AllowedSame
  <1> QED
    BY <1>1, <1>2

LEMMA TryTableAllowed ==
    ASSUME StackInv, NEW tb \in Tables, TryTable(tb) PROVE Allowed
  <1> DEFINE tr == [sp_base |-> sp, table |-> tb]
             fr == [Top EXCEPT !.tries = Append(@, tr)]
  <1>0. Interpreting /\ state = "RUNNING"
    BY CodeFacts DEF TryTable
  <1>1. CASE Len(handlers) >= MaxHandlers
    BY <1>0, <1>1, TrapsAllowed DEF TryTable
  <1>2. CASE ~(Len(handlers) >= MaxHandlers)
    <2>1. frames' = SetTop(fr) /\ state' = "RUNNING"
      BY <1>0, <1>2 DEF TryTable
    <2>2. Top \in Frame /\ Top.tries \in Seq(Try) /\ Len(Top.tries) \in Nat
      BY <1>0, InterpretFacts
    <2>3. tr \in Try /\ tr.table = tb
      BY DEF Try, StackInv, TypeOK
    <2> HIDE DEF tr
    <2>4. PICK s \in Seq(Try) : s = Append(Top.tries, tr)
      BY <2>2, <2>3, AppendFacts
    <2>5. /\ Len(s) = Len(Top.tries) + 1 /\ s[Len(Top.tries) + 1] = tr
          /\ \A j \in 1..Len(Top.tries) : s[j] = Top.tries[j]
      BY <2>2, <2>3, <2>4, AppendFacts
    <2>6. fr \in Frame /\ fr.tries = s
      BY <2>2, <2>4 DEF Frame, Try
    <2> HIDE DEF fr
    <2>7. TablesOf(fr) = Append(TablesOf(Top), tb)
      <3> DEFINE a == TablesOf(fr)
                 c == TablesOf(Top)
                 g == Append(c, tb)
                 n == Len(Top.tries)
      <3>1. a \in Seq(Tables) /\ Len(a) = n + 1 /\ \A j \in 1..(n + 1) : a[j] = s[j].table
        BY <2>5, <2>6, TablesFacts
      <3>2. c \in Seq(Tables) /\ Len(c) = n /\ \A j \in 1..n : c[j] = Top.tries[j].table
        BY <2>2, TablesFacts
      <3> HIDE DEF a, c
      <3>3. g \in Seq(Tables) /\ Len(g) = n + 1 /\ g[n + 1] = tb /\ \A j \in 1..n : g[j] = c[j]
        BY <3>2, AppendFacts
      <3> HIDE DEF g
      <3>4. \A j \in 1..(n + 1) : j = n + 1 \/ j \in 1..n
        BY <2>2
      <3>5. \A j \in 1..(n + 1) : g[j] = a[j]
        BY <2>3, <2>5, <3>1, <3>2, <3>3, <3>4
      <3>6. g = a
        BY <3>1, <3>3, <3>5, SeqEqual
      <3> QED
        BY <3>6 DEF g, a, c
    <2>8. CallsOf(SetTop(fr)) = [CallsOf(frames) EXCEPT ![Len(CallsOf(frames))] = TablesOf(fr)]
      BY <1>0, <2>6, TopCalls
    <2>9. PICK cs : cs = CallsOf(frames)
      OBVIOUS
    <2>10. cs # <<>> /\ cs[Len(cs)] = TablesOf(Top)
      BY <1>0, <2>9, RunningCalls
    <2>11. PICK cs2 : cs2 = CallsOf(SetTop(fr))
      OBVIOUS
    <2>12. cs2 = [cs EXCEPT ![Len(cs)] = Append(@, tb)]
      BY <2>7, <2>8, <2>9, <2>10, <2>11
    <2>13. cs2 = CallsOf(frames)'
      BY <2>1, <2>11 DEF CallsOf
    <2> QED
      BY <1>0, <2>1, <2>9, <2>10, <2>12, <2>13, AllowedEnter
  <1> QED
    BY <1>1, <1>2
(* The validator's bound on the nesting of try_tables. *)
LEMMA TriesBound ==
    ASSUME StackInv, Interpreting
    PROVE  Len(Top.tries) <= MaxTries
  <1>0. /\ frames \in Seq(Frame) /\ handlers \in Seq(Handler) /\ Depth \in 1..Len(frames) /\ Top = frames[Depth]
        /\ Top.tries \in Seq(Try) /\ Len(Top.tries) \in Nat /\ ScopedOf(frames, handlers, landing = "no")
    BY InterpretFacts
  <1>1. MaxTries \in Nat
    BY ExecAssumption
  <1>2. CASE Len(Top.tries) > 0
    <2> DEFINE c == Len(Top.tries)
    <2>1. c \in 1..c
      BY <1>0, <1>2
    <2>2. Top.tries[c].table.depth = c - 1
      <3>1. FrameScoped(frames, handlers, Depth)
        BY <1>0 DEF ScopedOf
      <3> QED
        BY <1>0, <2>1, <3>1 DEF FrameScoped
    <2>3. Top.tries[c] \in Try
      BY <1>0, <2>1, ElementOfSeq
    <2>4. Top.tries[c].table.depth \in 0..(MaxTries - 1)
      BY <2>3 DEF Try, Tables
    <2> QED
      BY <1>0, <1>1, <2>2, <2>4
  <1> QED
    BY <1>0, <1>1, <1>2

(* A jump within the innermost frame. *)
LEMMA JumpAllowed ==
    ASSUME StackInv, Interpreting, state' = "RUNNING", NEW label \in Labels,
           label <= Len(Top.tries) \/ label = FuncEnd, frames' = SetTop(AtLabel(Top, label))
    PROVE  Allowed
  <1>0. /\ state = "RUNNING" /\ Top \in Frame /\ Len(Top.tries) \in Nat /\ Top.tries \in Seq(Try)
    BY InterpretFacts DEF Interpreting
  <1>1. MaxTries \in Nat /\ label \in Nat /\ Len(Top.tries) <= MaxTries
    <2>1. MaxTries \in Nat
      BY ExecAssumption
    <2>2. label \in Nat
      BY <2>1 DEF Labels, FuncEnd
    <2> QED
      BY <2>1, <2>2, TriesBound
  <1>2. AtLabel(Top, label) \in Frame
    BY <1>0, JumpFacts
  <1>3. CallsOf(SetTop(AtLabel(Top, label))) =
            [CallsOf(frames) EXCEPT ![Len(CallsOf(frames))] = TablesOf(AtLabel(Top, label))]
    BY <1>2, TopCalls
  <1>4. TablesOf(AtLabel(Top, label)) = Lexical!Enclosing(TablesOf(Top), label)
    BY <1>0, TablesJump
  <1>5. PICK cs \in Seq(Seq(Tables)) : cs = CallsOf(frames) /\ cs # <<>> /\ cs[Len(cs)] = TablesOf(Top)
    BY RunningCalls
  <1>6. PICK cs2 : cs2 = CallsOf(SetTop(AtLabel(Top, label)))
    OBVIOUS
  <1>7. cs2 = [cs EXCEPT ![Len(cs)] = Lexical!Enclosing(@, label)]
    BY <1>3, <1>4, <1>5, <1>6
  <1>8. cs2 = CallsOf(frames)'
    BY <1>6 DEF CallsOf
  <1>9. Len(cs[Len(cs)]) = Len(Top.tries)
    BY <1>0, <1>5, TablesFacts
  <1>10. CASE Len(Top.tries) > 0 /\ (label = FuncEnd \/ label < Len(Top.tries))
    <2> DEFINE tb == [depth |-> IF label = FuncEnd THEN 0 ELSE label, catches |-> {}, label |-> label]
    <2>1. tb.depth \in 0..(MaxTries - 1) /\ (tb.label <= tb.depth \/ tb.label = FuncEnd)
      BY <1>0, <1>1, <1>10
    <2>2. tb \in Tables
      BY <2>1 DEF Tables
    <2>3. tb.label = label
      OBVIOUS
    <2> HIDE DEF tb
    <2>4. tb.label <= Len(cs[Len(cs)]) \/ tb.label = FuncEnd
      BY <1>9, <2>3
    <2> QED
      BY <1>0, <1>5, <1>7, <1>8, <2>2, <2>3, <2>4, AllowedJump
  <1>11. CASE ~(Len(Top.tries) > 0 /\ (label = FuncEnd \/ label < Len(Top.tries)))
    <2>1. Lexical!Enclosing(TablesOf(Top), label) = TablesOf(Top)
      <3>1. TablesOf(Top) \in Seq(Tables) /\ Len(TablesOf(Top)) = Len(Top.tries)
        BY <1>0, TablesFacts
      <3>2. CASE label # FuncEnd
        <4>1. label = Len(TablesOf(Top))
          BY <1>0, <1>1, <1>11, <3>1, <3>2
        <4> QED
          BY <3>1, <3>2, <4>1, WholePrefix DEF Lexical!Enclosing
      <3>3. CASE label = FuncEnd
        <4>1. Len(TablesOf(Top)) = 0
          BY <1>0, <1>11, <3>1, <3>3
        <4> QED
          BY <3>1, <3>3, <4>1, EmptySeq DEF Lexical!Enclosing
      <3> QED
        BY <3>2, <3>3
    <2>2. cs2 = [cs EXCEPT ![Len(cs)] = cs[Len(cs)]]
      BY <1>5, <1>7, <2>1
    <2>3. cs2 = cs
      BY <2>2
    <2> QED
      BY <1>0, <1>5, <1>8, <2>3, AllowedSame
  <1> QED
    BY <1>10, <1>11

LEMMA EndTryTableAllowed ==
    ASSUME StackInv, EndTryTable PROVE Allowed
  <1>0. Interpreting /\ state = "RUNNING" /\ Top.tries # <<>>
    BY CodeFacts DEF EndTryTable
  <1>1. CASE handlers = <<>>
    BY <1>0, <1>1, TrapsAllowed DEF EndTryTable
  <1>2. CASE handlers # <<>>
    <2> DEFINE c == Len(Top.tries)
    <2>1. frames' = SetTop([Top EXCEPT !.tries = SubSeq(Top.tries, 1, c - 1)]) /\ state' = "RUNNING"
      BY <1>0, <1>2 DEF EndTryTable, Butlast
    <2>2. Top.tries \in Seq(Try) /\ c \in Nat /\ MaxTries \in Nat
      BY <1>0, InterpretFacts, ExecAssumption
    <2>3. c > 0 /\ c <= MaxTries
      BY <1>0, <2>2, TriesBound, EmptySeq
    <2>4. c - 1 \in Labels /\ c - 1 <= c /\ c - 1 # FuncEnd
      BY <2>2, <2>3 DEF Labels, FuncEnd
    <2>5. frames' = SetTop(AtLabel(Top, c - 1))
      BY <2>1, <2>4 DEF AtLabel
    <2> QED
      BY <1>0, <2>1, <2>4, <2>5, JumpAllowed
  <1> QED
    BY <1>1, <1>2

LEMMA CallAllowed ==
    ASSUME StackInv, NEW f \in Funcs, Call(f) PROVE Allowed
  <1>0. InCode /\ Interpreting /\ state = "RUNNING" /\ ~f.host /\ Callable(f)
    BY CodeFacts DEF Call
  <1>1. CASE sp + f.slots > FramePtr(Depth + 1)
    BY <1>0, <1>1, TrapsAllowed DEF Call
  <1>2. CASE ~(sp + f.slots > FramePtr(Depth + 1))
    <2> DEFINE fr == NewFrame(f, sp - f.params, Len(handlers))
    <2>1. frames' = Append(frames, fr) /\ state' = "RUNNING"
      BY <1>0, <1>2 DEF Call
    <2>2. fr \in Frame /\ fr.tries = <<>>
      <3>1. PICK s \in Nat, p \in Nat, lo \in Nat, d \in Nat : s = sp /\ p = f.params /\ lo = Top.floor /\ d = Depth
        BY <1>0, InterpretFacts, FuncFacts
      <3>2. s - p >= lo
        BY <1>0, <3>1 DEF Callable
      <3>3. StackSize \in Nat /\ f.slots \in Nat /\ Len(handlers) \in Nat
        BY <1>0, InterpretFacts, FuncFacts
      <3>4. s + f.slots <= StackSize - (d + 1)
        BY <1>2, <3>1, <3>3 DEF FramePtr
      <3>5. s - p \in Nat /\ (s - p) + p + f.slots <= StackSize
        BY <3>2, <3>3, <3>4
      <3>6. NewFrame(f, s - p, Len(handlers)) \in Frame /\ NewFrame(f, s - p, Len(handlers)).tries = <<>>
        <4>1. (s - p) + f.params + f.slots <= StackSize
          BY <3>1, <3>5
        <4> QED
          BY <1>0, <3>3, <3>5, <4>1, NewFrameFacts
      <3> QED
        BY <3>1, <3>6
    <2> HIDE DEF fr
    <2>3. PICK cs : cs = CallsOf(frames) /\ cs # <<>>
      BY <1>0, RunningCalls
    <2>4. PICK cs2 : cs2 = CallsOf(Append(frames, fr)) /\ cs2 = Append(cs, <<>>)
      BY <1>0, <2>2, <2>3, RunningCalls, CallsPush
    <2>5. cs2 = CallsOf(frames)'
      BY <2>1, <2>4 DEF CallsOf
    <2> QED
      BY <1>0, <2>1, <2>3, <2>4, <2>5, AllowedCall
  <1> QED
    BY <1>1, <1>2

(* The innermost frame is reused, without its try_tables. *)
LEMMA ReuseAllowed ==
    ASSUME StackInv, Interpreting, state' = "RUNNING", NEW fr \in Frame, fr.tries = <<>>, frames' = SetTop(fr)
    PROVE  Allowed
  <1>0. state = "RUNNING"
    BY DEF Interpreting
  <1>1. TablesOf(fr) = <<>>
    <2>1. TablesOf(fr) \in Seq(Tables) /\ Len(TablesOf(fr)) = 0
      BY TablesFacts
    <2> QED
      BY <2>1, EmptySeq
  <1>2. PICK cs : cs = CallsOf(frames) /\ cs # <<>>
    BY RunningCalls
  <1>3. PICK cs2 : cs2 = CallsOf(SetTop(fr)) /\ cs2 = [cs EXCEPT ![Len(cs)] = <<>>]
    BY <1>1, <1>2, TopCalls
  <1>4. cs2 = CallsOf(frames)'
    BY <1>3 DEF CallsOf
  <1> QED
    BY <1>0, <1>2, <1>3, <1>4, AllowedTailCall

LEMMA TailCallAllowed ==
    ASSUME StackInv, NEW f \in Funcs, TailCall(f) PROVE Allowed
  <1>0. Interpreting /\ state = "RUNNING" /\ ~f.host
    BY CodeFacts DEF TailCall
  <1>1. CASE Top.locals + f.params + f.slots > FramePtr(Depth)
    BY <1>0, <1>1, TrapsAllowed DEF TailCall
  <1>2. CASE ~(Top.locals + f.params + f.slots > FramePtr(Depth))
    <2> DEFINE fr == NewFrame(f, Top.locals, Top.hbase)
    <2>1. frames' = SetTop(fr) /\ state' = "RUNNING"
      BY <1>0, <1>2 DEF TailCall
    <2>2. Top.locals \in Nat /\ Top.hbase \in Nat /\ Depth \in Nat /\ StackSize \in Nat
      BY <1>0, InterpretFacts
    <2>3. Top.locals + f.params + f.slots <= StackSize
      BY <1>2, <2>2, FuncFacts DEF FramePtr
    <2>4. fr \in Frame /\ fr.tries = <<>>
      BY <1>0, <2>2, <2>3, NewFrameFacts
    <2> HIDE DEF fr
    <2> QED
      BY <1>0, <2>1, <2>4, ReuseAllowed
  <1> QED
    BY <1>1, <1>2

LEMMA TailCallHostAllowed ==
    ASSUME StackInv, NEW f \in Funcs, TailCallHost(f) PROVE Allowed
  <1>0. Interpreting /\ state = "RUNNING"
    BY CodeFacts DEF TailCallHost
  <1>1. CASE sp + f.results > FramePtr(Depth)
    BY <1>0, <1>1, TrapsAllowed DEF TailCallHost
  <1>2. CASE ~(sp + f.results > FramePtr(Depth))
    <2> DEFINE fr == [Top EXCEPT !.tries = <<>>]
    <2>1. frames' = SetTop(fr) /\ state' = "RUNNING"
      BY <1>0, <1>2 DEF TailCallHost
    <2>2. Top \in Frame /\ <<>> \in Seq(Try)
      BY <1>0, InterpretFacts, EmptySeq
    <2>3. fr \in Frame /\ fr.tries = <<>>
      BY <2>2 DEF Frame, Try
    <2> HIDE DEF fr
    <2> QED
      BY <1>0, <2>1, <2>3, ReuseAllowed
  <1> QED
    BY <1>1, <1>2

LEMMA ReturnAllowed ==
    ASSUME StackInv, Return PROVE Allowed
  <1>0. /\ Interpreting /\ state = "RUNNING" /\ frames' = SubSeq(frames, 1, Depth - 1)
        /\ state' = IF Depth = 1 THEN "FINISHED" ELSE state
    BY DEF Return, Interpreting, Butlast, Depth
  <1>1. PICK cs : cs = CallsOf(frames) /\ cs # <<>> /\ Len(cs) = Depth
    BY <1>0, RunningCalls
  <1>2. frames \in Seq(Frame) /\ Depth - 1 \in 0..Len(frames)
    BY <1>0, RunningCalls
  <1>3. PICK cs2 : cs2 = CallsOf(SubSeq(frames, 1, Depth - 1)) /\ cs2 = SubSeq(cs, 1, Depth - 1)
    BY <1>1, <1>2, CallsPrefix
  <1>4. cs2 = CallsOf(frames)'
    BY <1>0, <1>3 DEF CallsOf
  <1> QED
    BY <1>0, <1>1, <1>3, <1>4, AllowedReturn
(* The catch tables of a call are those of its handlers. *)
LEMMA CallHandlers ==
    ASSUME StackInv, InCode, NEW k \in 1..Depth
    PROVE  /\ frames[k].hbase \in Nat /\ Len(CallsOf(frames)[k]) = Len(frames[k].tries) /\ Len(frames[k].tries) \in Nat
           /\ \A j \in 1..Len(frames[k].tries) :
                 /\ frames[k].hbase + j \in 1..Len(handlers)
                 /\ handlers[frames[k].hbase + j].table = CallsOf(frames)[k][j]
  <1>0. /\ frames \in Seq(Frame) /\ handlers \in Seq(Handler) /\ Depth = Len(frames)
        /\ ScopedOf(frames, handlers, TRUE) /\ Len(handlers) \in Nat
    BY CodeFacts, InterpretFacts
  <1>1. k \in 1..Len(frames)
    BY <1>0
  <1>2. frames[k] \in Frame /\ frames[k].hbase \in Nat /\ Len(frames[k].tries) \in Nat
    BY <1>0, <1>1, FrameFacts
  <1>3. CallsOf(frames)[k] = TablesOf(frames[k])
    BY <1>0, <1>1, CallsFacts
  <1>4. /\ Len(TablesOf(frames[k])) = Len(frames[k].tries)
        /\ \A j \in 1..Len(frames[k].tries) : TablesOf(frames[k])[j] = frames[k].tries[j].table
    BY <1>2, TablesFacts
  <1>5. \A j \in 1..Len(frames[k].tries) :
            handlers[frames[k].hbase + j] = [call_depth |-> k, sp_base |-> frames[k].tries[j].sp_base,
                                             table |-> frames[k].tries[j].table]
    BY <1>0, <1>1 DEF ScopedOf, FrameScoped
  <1>6. frames[k].hbase + Len(frames[k].tries) <= Len(handlers)
    <2>1. frames[k].hbase + Len(frames[k].tries) <= EndOf(frames, handlers, k)
      BY <1>0, <1>1 DEF ScopedOf
    <2>2. EndOf(frames, handlers, k) \in Nat /\ EndOf(frames, handlers, k) <= Len(handlers)
      BY <1>0, <1>1, EndFacts
    <2> QED
      BY <1>0, <1>2, <2>1, <2>2
  <1>7. \A j \in 1..Len(frames[k].tries) : frames[k].hbase + j \in 1..Len(handlers)
    BY <1>0, <1>2, <1>6
  <1>8. ASSUME NEW j \in 1..Len(frames[k].tries)
        PROVE  handlers[frames[k].hbase + j].table = CallsOf(frames)[k][j]
    <2>1. handlers[frames[k].hbase + j].table = frames[k].tries[j].table
      <3>1. PICK i \in 1..Len(handlers) : i = frames[k].hbase + j
        BY <1>7
      <3>2. handlers[i] = [call_depth |-> k, sp_base |-> frames[k].tries[j].sp_base,
                           table |-> frames[k].tries[j].table]
        BY <1>5, <3>1
      <3>3. handlers[i].table = frames[k].tries[j].table
        BY <3>2
      <3> QED
        BY <3>1, <3>3
    <2>2. CallsOf(frames)[k][j] = frames[k].tries[j].table
      BY <1>3, <1>4
    <2> QED
      BY <2>1, <2>2
  <1> QED
    BY <1>2, <1>3, <1>4, <1>7, <1>8

LEMMA ThrowUncaughtAllowed ==
    ASSUME StackInv, NEW tag \in Tags, ThrowUncaught(tag) PROVE Allowed
  <1>0. /\ InCode /\ Interpreting /\ state = "RUNNING" /\ state' = "TRAPPED"
        /\ frames' = SubSeq(frames, 1, Unwound(base.handlers + 1))
        /\ \A i \in 1..Len(handlers) : ~Catches(i, tag)
    BY CodeFacts DEF ThrowUncaught, Traps
  <1>1. base.handlers = 0
    BY DEF StackInv, Lifecycle
  <1>2. /\ frames \in Seq(Frame) /\ handlers \in Seq(Handler) /\ Len(handlers) \in Nat /\ Depth = Len(frames)
        /\ ScopedOf(frames, handlers, landing = "no")
    BY <1>0, InterpretFacts
  <1>3. PICK u \in 0..Depth : u = Unwound(1)
    BY <1>2, UnwoundAll
  <1>4. frames' = SubSeq(frames, 1, u)
    <2>1. Unwound(base.handlers + 1) = Unwound(1)
      BY <1>1
    <2> QED
      BY <1>0, <1>3, <2>1
  <1>5. \A i \in 1..Len(handlers) : tag \notin handlers[i].table.catches
    BY <1>0, <1>1, <1>2 DEF Catches
  <1>6. PICK cs : cs = CallsOf(frames) /\ cs # <<>> /\ Len(cs) = Depth
    BY <1>0, RunningCalls
  <1>7. ASSUME NEW k \in 1..Len(cs), NEW j \in 1..Len(cs[k]) PROVE tag \notin cs[k][j].catches
    <2>1. k \in 1..Depth /\ j \in 1..Len(frames[k].tries)
      BY <1>0, <1>6, CallHandlers
    <2>2. frames[k].hbase + j \in 1..Len(handlers) /\ handlers[frames[k].hbase + j].table = cs[k][j]
      BY <1>0, <1>6, <2>1, CallHandlers
    <2> QED
      BY <1>5, <2>2
  <1>8. PICK cs2 : cs2 = CallsOf(SubSeq(frames, 1, u)) /\ cs2 = SubSeq(cs, 1, u)
    BY <1>2, <1>6, CallsPrefix
  <1>9. cs2 = CallsOf(frames)' /\ u \in 0..Len(cs)
    BY <1>4, <1>6, <1>8 DEF CallsOf
  <1> QED
    BY <1>0, <1>6, <1>7, <1>8, <1>9, AllowedUncaught

LEMMA ThrowCaughtAllowed ==
    ASSUME StackInv, NEW tag \in Tags, NEW n \in 0..StackSize, ThrowCaught(tag, n) PROVE Allowed
  <1>0. InCode /\ Interpreting /\ state = "RUNNING" /\ state' = "RUNNING"
    BY CodeFacts DEF ThrowCaught
  <1>1. PICK i \in 1..Len(handlers) :
          /\ Catches(i, tag)
          /\ \A k \in (i + 1)..Len(handlers) : ~Catches(k, tag)
          /\ frames' = [SubSeq(frames, 1, Unwound(i)) EXCEPT ![Unwound(i)] = AtLabel(frames[Unwound(i)], handlers[i].table.label)]
    BY DEF ThrowCaught
  <1> DEFINE label == handlers[i].table.label
  <1>2. PICK d \in 1..Depth : \E j \in 1..Len(frames[d].tries) :
              /\ Unwound(i) = d
              /\ i = frames[d].hbase + j /\ i <= EndOf(frames, handlers, d)
              /\ label \in Labels
              /\ label <= j - 1 \/ label = FuncEnd
              /\ AtLabel(frames[d], label) \in Frame
    BY <1>0, CaughtFacts
  <1>3. PICK j \in 1..Len(frames[d].tries) :
              /\ Unwound(i) = d
              /\ i = frames[d].hbase + j /\ i <= EndOf(frames, handlers, d)
              /\ label \in Labels
              /\ label <= j - 1 \/ label = FuncEnd
              /\ AtLabel(frames[d], label) \in Frame
    BY <1>2
  <1>4. frames' = [SubSeq(frames, 1, d) EXCEPT ![d] = AtLabel(frames[d], label)]
    BY <1>1, <1>3
  <1> HIDE DEF label
  <1>5. /\ frames \in Seq(Frame) /\ handlers \in Seq(Handler) /\ Depth = Len(frames) /\ Depth \in Nat
        /\ Len(handlers) \in Nat
    BY <1>0, InterpretFacts
  <1>6. ScopedOf(frames, handlers, TRUE) /\ base.handlers = 0
    BY <1>0, CodeFacts DEF StackInv, Lifecycle
  <1>7. /\ tag \in handlers[i].table.catches
        /\ \A k \in (i + 1)..Len(handlers) : tag \notin handlers[k].table.catches
    BY <1>1, <1>5, <1>6 DEF Catches
  <1>8. PICK cs : /\ cs = CallsOf(frames) /\ cs # <<>> /\ Len(cs) = Depth
                  /\ \A k \in 1..Depth : cs[k] = TablesOf(frames[k])
    BY <1>0, RunningCalls
  <1>9. \A k \in 1..Depth :
           /\ frames[k].hbase \in Nat /\ Len(cs[k]) = Len(frames[k].tries) /\ Len(frames[k].tries) \in Nat
           /\ \A x \in 1..Len(cs[k]) : /\ frames[k].hbase + x \in 1..Len(handlers)
                                       /\ handlers[frames[k].hbase + x].table = cs[k][x]
    BY <1>0, <1>8, CallHandlers
  <1>10. d \in 1..Len(cs) /\ j \in 1..Len(cs[d]) /\ handlers[i].table = cs[d][j] /\ cs[d][j].label = label
    <2>1. d \in 1..Len(cs)
      BY <1>8
    <2>2. Len(cs[d]) = Len(frames[d].tries)
      BY <1>9
    <2>3. j \in 1..Len(cs[d]) /\ i = frames[d].hbase + j
      BY <1>3, <2>2
    <2>4. handlers[frames[d].hbase + j].table = cs[d][j]
      BY <1>9, <2>3
    <2>5. handlers[i].table = cs[d][j]
      BY <2>3, <2>4
    <2> QED
      BY <2>1, <2>3, <2>5 DEF label
  <1>11. \A x \in (j + 1)..Len(cs[d]) : tag \notin cs[d][x].catches
    <2> SUFFICES ASSUME NEW x \in (j + 1)..Len(cs[d]) PROVE tag \notin cs[d][x].catches
      OBVIOUS
    <2>a. PICK h \in Nat, z \in Nat : h = frames[d].hbase /\ z = Len(cs[d])
      BY <1>9
    <2>b. i = h + j /\ j \in Nat /\ j >= 1
      BY <1>3, <2>a
    <2>c. x \in (j + 1)..z
      BY <2>a
    <2>d. x \in 1..z /\ h + x >= i + 1
      BY <2>b, <2>c
    <2>1. x \in 1..Len(cs[d]) /\ frames[d].hbase + x >= i + 1
      BY <2>a, <2>d
    <2>2. frames[d].hbase + x \in 1..Len(handlers) /\ handlers[frames[d].hbase + x].table = cs[d][x]
      BY <1>9, <2>1
    <2>3. frames[d].hbase + x \in (i + 1)..Len(handlers)
      BY <1>5, <2>1, <2>2
    <2> QED
      BY <1>7, <2>2, <2>3
  <1>12. \A l \in (d + 1)..Len(cs) : \A x \in 1..Len(cs[l]) : tag \notin cs[l][x].catches
    <2> SUFFICES ASSUME NEW l \in (d + 1)..Len(cs), NEW x \in 1..Len(cs[l]) PROVE tag \notin cs[l][x].catches
      OBVIOUS
    <2>1. l \in 1..Depth /\ d < l /\ d \in 1..Len(frames) /\ l \in 1..Len(frames)
      BY <1>5, <1>8
    <2>2. EndOf(frames, handlers, d) <= frames[l].hbase /\ EndOf(frames, handlers, d) \in Nat
      BY <1>5, <1>6, <2>1, EndFacts DEF ScopedOf
    <2>3. frames[l].hbase \in Nat /\ frames[l].hbase + x \in 1..Len(handlers) /\ handlers[frames[l].hbase + x].table = cs[l][x]
      BY <1>9, <2>1
    <2>4. x \in Nat /\ x >= 1
      BY <1>9, <2>1
    <2>5. frames[l].hbase + x \in (i + 1)..Len(handlers)
      <3>1. PICK b \in Nat, e \in Nat : b = frames[l].hbase /\ e = EndOf(frames, handlers, d)
        BY <2>2, <2>3
      <3>2. i <= e /\ e <= b /\ i \in Nat
        BY <1>3, <1>5, <2>2, <3>1
      <3>3. b + x \in 1..Len(handlers)
        BY <2>3, <3>1
      <3>4. b + x \in (i + 1)..Len(handlers)
        BY <1>5, <2>4, <3>2, <3>3
      <3> QED
        BY <3>1, <3>4
    <2> QED
      BY <1>7, <2>3, <2>5
  <1>13. PICK g \in Seq(Frame) : g = SubSeq(frames, 1, d) /\ Len(g) = d /\ \A k \in 1..d : g[k] = frames[k]
    <2>1. d \in Nat /\ d <= Len(frames)
      BY <1>5
    <2>2. /\ SubSeq(frames, 1, d) \in Seq(Frame) /\ Len(SubSeq(frames, 1, d)) = d
          /\ \A k \in 1..d : SubSeq(frames, 1, d)[k] = frames[k]
      BY <1>5, <2>1, PrefixFacts
    <2> QED
      BY <2>2
  <1>14. d \in 1..Len(g) /\ d \in 1..Len(frames) /\ \A k \in 1..(d - 1) : k \in 1..d /\ k # d
    BY <1>5, <1>13
  <1>15. PICK fs \in Seq(Frame) :
             /\ fs = [g EXCEPT ![d] = AtLabel(frames[d], label)]
             /\ Len(fs) = d /\ fs[d] = AtLabel(frames[d], label)
             /\ \A k \in 1..Len(g) : k # d => fs[k] = g[k]
    <2>1. /\ [g EXCEPT ![d] = AtLabel(frames[d], label)] \in Seq(Frame)
          /\ Len([g EXCEPT ![d] = AtLabel(frames[d], label)]) = Len(g)
          /\ [g EXCEPT ![d] = AtLabel(frames[d], label)][d] = AtLabel(frames[d], label)
          /\ \A k \in 1..Len(g) : k # d => [g EXCEPT ![d] = AtLabel(frames[d], label)][k] = g[k]
      BY <1>3, <1>14, ExceptFacts
    <2> QED
      BY <1>13, <2>1
  <1>16. fs = frames' /\ \A k \in 1..(d - 1) : fs[k] = frames[k]
    BY <1>4, <1>13, <1>14, <1>15
  <1>17. TablesOf(fs[d]) = Lexical!Enclosing(cs[d], label)
    <2>1. frames[d] \in Frame /\ Len(frames[d].tries) \in Nat
      BY <1>5, <1>14, FrameFacts
    <2>2. label \in Nat
      <3>1. MaxTries \in Nat
        BY ExecAssumption
      <3> QED
        BY <1>3, <3>1 DEF Labels, FuncEnd
    <2>3. label <= Len(frames[d].tries) \/ label = FuncEnd
      BY <1>3, <2>1, <2>2
    <2>4. TablesOf(AtLabel(frames[d], label)) = Lexical!Enclosing(TablesOf(frames[d]), label)
      BY <1>3, <2>1, <2>3, TablesJump
    <2> QED
      BY <1>8, <1>15, <2>4
  <1>18. PICK cs2 : cs2 = CallsOf(fs) /\ cs2 = Replaced(SubSeq(cs, 1, d), d, TablesOf(fs[d]))
    <2>1. CallsOf(fs) = Replaced(SubSeq(CallsOf(frames), 1, d), d, TablesOf(fs[d]))
      <3>1. frames \in Seq(Frame) /\ d \in 1..Len(frames) /\ Len(fs) = d /\ \A k \in 1..(d - 1) : fs[k] = frames[k]
        BY <1>5, <1>14, <1>15, <1>16
      <3> QED
        BY <3>1, CallsCut
    <2> QED
      BY <1>8, <2>1
  <1>19. SubSeq(cs, 1, d)[d] = cs[d]
    <2>1. cs \in Seq(Seq(Tables)) /\ d \in Nat /\ d <= Len(cs) /\ d \in 1..d
      BY <1>0, <1>5, <1>8, RunningCalls
    <2> QED
      BY <2>1, PrefixFacts
  <1>20. cs2 = Replaced(SubSeq(cs, 1, d), d, Lexical!Enclosing(cs[d], cs[d][j].label))
    BY <1>10, <1>17, <1>18
  <1>21. cs2 = CallsOf(frames)'
    BY <1>16, <1>18 DEF CallsOf
  <1>22. tag \in cs[d][j].catches
    BY <1>7, <1>10
  <1>23. state = "RUNNING" /\ state' = "RUNNING" /\ cs = CallsOf(frames) /\ cs # <<>>
    BY <1>0, <1>8
  <1>24. d \in 1..Len(cs) /\ j \in 1..Len(cs[d])
    BY <1>10
  <1> QED
    BY <1>11, <1>12, <1>19, <1>20, <1>21, <1>22, <1>23, <1>24, AllowedCaught
-----------------------------------------------------------------------------
LEMMA RefinesInit == Init => Lexical!Init
  <1> SUFFICES ASSUME Init PROVE Lexical!Init
    OBVIOUS
  <1>1. state = "READY" /\ frames = <<>>
    BY DEF Init
  <1>2. CallsOf(frames) \in Seq(Seq(Tables)) /\ Len(CallsOf(frames)) = 0
    BY <1>1, EmptyStacks, CallsFacts
  <1>3. CallsOf(frames) = <<>>
    BY <1>2, EmptySeq
  <1> QED
    BY <1>1, <1>3 DEF Lexical!Init, CallsOf, Depth

LEMMA RefinesStep == StackInv /\ [Next]_vars => Allowed
  <1> SUFFICES ASSUME StackInv, [Next]_vars PROVE Allowed
    OBVIOUS
  <1>1. ASSUME NEW f \in Funcs, StartRejected(f) PROVE Allowed
    <2>1. state' = state /\ frames' = frames
      BY <1>1 DEF StartRejected, stack
    <2> QED
      BY <2>1, SameCalls, AllowedSame
  <1>2. CASE Resume
    <2>1. state = "SUSPENDED" /\ state' = "RUNNING" /\ frames' = frames
      BY <1>2 DEF Resume, stack
    <2> QED
      BY <2>1, SameCalls, AllowedRun
  <1>3. CASE Finish
    <2>1. Restore /\ state \notin {"READY", "RUNNING"}
      BY <1>3 DEF Finish
    <2> QED
      BY <2>1, RestoreAllowed
  <1>4. CASE Cancel
    <2>1. CASE state = "RUNNING"
      <3>1. state' = state /\ frames' = frames
        BY <1>4, <2>1 DEF Cancel, vars, stack
      <3> QED
        BY <3>1, SameCalls, AllowedSame
    <2>2. CASE state # "RUNNING"
      BY <1>4, <2>2, CancelAllowed DEF Cancel
    <2> QED
      BY <2>1, <2>2
  <1>5. CASE CallFails
    <2>1. CancelInternal /\ state # "RUNNING"
      BY <1>5 DEF CallFails
    <2> QED
      BY <2>1, CancelAllowed
  <1>6. CASE HostTraps
    <2>1. state = "RUNNING" /\ state' \in {"SUSPENDED", "TRAPPED"} /\ frames' = frames
      BY <1>6 DEF HostTraps, stack, StackInv, Lifecycle
    <2> QED
      BY <2>1, SameCalls, AllowedStop
  <1>7. CASE Interpret
    <2>1. CASE Trap
      <3>1. Interpreting /\ Traps /\ frames' = frames
        BY <2>1 DEF Trap, InCode, stack
      <3> QED
        BY <3>1, TrapsAllowed
    <2>2. CASE Suspend
      <3>1. state = "RUNNING" /\ state' \in {"SUSPENDED", "TRAPPED"} /\ frames' = frames
        BY <2>2 DEF Suspend, Interpreting, stack
      <3> QED
        BY <3>1, SameCalls, AllowedStop
    <2>3. CASE Trim
      <3>1. Interpreting /\ frames' = frames /\ (Traps \/ state' = state)
        BY <2>3 DEF Trim
      <3>2. CASE Traps
        BY <3>1, <3>2, TrapsAllowed
      <3>3. CASE state' = state
        BY <3>1, <3>3, SameCalls, AllowedSame
      <3> QED
        BY <3>1, <3>2, <3>3
    <2>4. ASSUME NEW n \in Heights, Operate(n) PROVE Allowed
      <3>1. state' = state /\ frames' = frames
        BY <2>4 DEF Operate
      <3> QED
        BY <3>1, SameCalls, AllowedSame
    <2>5. ASSUME NEW label \in Labels, NEW n \in 0..StackSize, Branch(label, n) PROVE Allowed
      <3>1. /\ Interpreting /\ state' = "RUNNING" /\ frames' = SetTop(AtLabel(Top, label))
            /\ label <= Len(Top.tries) \/ label = FuncEnd
        BY <2>5 DEF Branch, InCode, Interpreting
      <3> QED
        BY <3>1, JumpAllowed
    <2>6. ASSUME NEW f \in Funcs, CallHost(f) PROVE Allowed
      <3>1. Interpreting /\ frames' = frames /\ (Traps \/ state' = state)
        BY <2>6 DEF CallHost, InCode, stack
      <3>2. CASE Traps
        BY <3>1, <3>2, TrapsAllowed
      <3>3. CASE state' = state
        BY <3>1, <3>3, SameCalls, AllowedSame
      <3> QED
        BY <3>1, <3>2, <3>3
    <2> QED
      BY <1>7, <2>1, <2>2, <2>3, <2>4, <2>5, <2>6, EndTryTableAllowed, ReturnAllowed, TryTableAllowed,
         CallAllowed, TailCallAllowed, TailCallHostAllowed, ThrowUncaughtAllowed, ThrowCaughtAllowed DEF Interpret
  <1>8. CASE UNCHANGED vars
    <2>1. state' = state /\ frames' = frames
      BY <1>8 DEF vars, stack
    <2> QED
      BY <2>1, SameCalls, AllowedSame
  <1> QED
    BY <1>1, <1>2, <1>3, <1>4, <1>5, <1>6, <1>7, <1>8, HostReturnsAllowed, StartAllowed DEF Next

(* The handler stack of wah_throw_exception, with its call depths and its  *)
(* trimming at labels, implements lexically scoped handlers for every      *)
(* program: an exception reaches the innermost enclosing try_table that    *)
(* catches it, of the innermost call that has one.                         *)
THEOREM UnwindsLexically == Spec => ImplementsUnwinding
  BY StackInvariant, RefinesInit, RefinesStep, PTL DEF Spec, ImplementsUnwinding, Lexical!Spec, Allowed
=============================================================================
