---------------------------- MODULE StreamProofs -----------------------------
(***************************************************************************)
(* The streams of both sides, for every capacity, every set of packet      *)
(* sizes that fit and every bound on the packets sent: StaysFramed,        *)
(* ServerCountsPackets and DropsOnlyWhenFull, and that the client is the   *)
(* channel its handlers are promised.                                      *)
(*                                                                         *)
(* Offset is defined by recursion, and what a recursive definition says of *)
(* every stream cannot be proved by an induction of the prover's.  So the  *)
(* induction is that of the behaviours: StreamInv says that the equation   *)
(* of Offset has one solution for the packets sent so far, and SendPacket  *)
(* extends it by one packet.                                               *)
(***************************************************************************)
EXTENDS Streams, SequenceTheorems, TLAPS

-----------------------------------------------------------------------------
(* The buffer and the packets of the side that is checked. *)
Cap == IF IsServer THEN Capacity ELSE ClientCapacity
SideSizes == IF IsServer THEN Sizes ELSE ClientSizes

(* How far the packets read reach, and those handled.                      *)
Consumed == received - (writePos - readPos)
Upto == Consumed + IF busy THEN processLen ELSE 0

(* What the definition of Offset asks of a function.                       *)
SumsOf(s, f) == f = [k \in 0 .. Len(s) |-> IF k = 0 THEN 0 ELSE f[k - 1] + s[k]]

(* Offset is the one function its definition asks for, and every packet    *)
(* has room for its header.                                                *)
OffsetInv ==
    /\ SumsOf(sent, Offset)
    /\ \A f : SumsOf(sent, f) => f = Offset
    /\ \A k \in 0 .. Len(sent) : Offset[k] \in Nat
    /\ \A j, k \in 0 .. Len(sent) : j < k => Offset[j] + HeaderSize <= Offset[k]

StreamTypes ==
    /\ side \in {"server", "client"}
    /\ sent \in Seq(SideSizes)
    /\ hangup \in BOOLEAN /\ isConnected \in BOOLEAN /\ busy \in BOOLEAN
    /\ received \in Nat /\ readPos \in Nat /\ writePos \in Nat /\ processLen \in Nat
    /\ buffer \in [0 .. Cap - 1 -> Nat]
    /\ readPos <= writePos /\ writePos <= Cap

(* What has been received and not yet read lies from readPos on. *)
BufferInv ==
    /\ writePos - readPos <= received /\ received <= Offset[Len(sent)]
    /\ \A i \in 0 .. (writePos - readPos) - 1 : buffer[readPos + i] = Consumed + i
    /\ busy => processLen <= writePos - readPos
    /\ ~busy /\ readPos = writePos => writePos = 0
    /\ IsClient => readPos = 0

(* The packets handled reach as far as the bytes looked at, and the next   *)
(* receive is posted when no whole packet is left.  What stands first in   *)
(* the server's buffer begins a packet, the next one or an earlier one.    *)
HandledInv ==
    /\ handled \in Seq(IF IsServer THEN [packet : Nat, extra : Int] ELSE Nat)
    /\ Len(handled) <= Len(sent) /\ Offset[Len(handled)] = Upto
    /\ ~busy => \A k \in 1 .. Len(sent) : Offset[k] <= received => k <= Len(handled)
    /\ IsServer => /\ \E j \in 0 .. Len(handled) : Offset[j] = Consumed
                   /\ \A i \in 1 .. Len(handled) :
                          /\ handled[i].packet <= i
                          /\ handled[i].extra = 0 => handled[i].packet = i
    /\ IsClient => \A i \in 1 .. Len(handled) : handled[i] = i

(* A connection that neither side has closed was full, and partly read. *)
ConnectedInv ==
    /\ ~isConnected => ~busy
    /\ ~isConnected /\ ~hangup =>
           IsServer /\ writePos = Cap /\ readPos < writePos

StreamInv == OffsetInv /\ StreamTypes /\ BufferInv /\ HandledInv /\ ConnectedInv
-----------------------------------------------------------------------------
(* Every step of the peer and of the worker, on either side, keeps the     *)
(* invariant.                                                              *)
LEMMA StreamInvariant == Spec => []StreamInv
<1>offset. /\ Offset = CHOOSE f : SumsOf(sent, f)
           /\ Offset' = CHOOSE f : SumsOf(sent', f)
  BY DEF Offset, SumsOf
<1>init. InitSide => StreamInv
  <2> SUFFICES ASSUME InitSide PROVE StreamInv
    OBVIOUS
  <2>1. /\ side \in {"server", "client"}
        /\ sent = <<>> /\ hangup = FALSE /\ received = 0
        /\ readPos = 0 /\ writePos = 0 /\ isConnected = TRUE
        /\ busy = FALSE /\ processLen = 0 /\ handled = <<>>
        /\ buffer = [i \in 0 .. Cap - 1 |-> 0]
    BY DEF InitSide, IsServer, IsClient, Server!Init, Client!Init, Cap
  <2>2. Len(sent) = 0 /\ Len(handled) = 0
    BY <2>1
  <2> DEFINE g == [k \in 0 .. 0 |-> 0]
  <2>3. SumsOf(sent, g)
    BY <2>2 DEF SumsOf
  <2>4. \A f : SumsOf(sent, f) => f = g
    BY <2>2 DEF SumsOf
  <2>5. Offset = g
    BY ONLY <1>offset, <2>3, <2>4
  <2> HIDE DEF g
  <2>6. \A k \in 0 .. 0 : g[k] = 0
    BY DEF g
  <2>7. OffsetInv
    BY <2>2, <2>3, <2>4, <2>5, <2>6 DEF OffsetInv
  <2>8. StreamTypes
    <3>1. Cap \in Nat \ {0}
      BY BufferAssumption, ClientStreamAssumption DEF Cap
    <3>2. sent \in Seq(SideSizes)
      BY <2>1, EmptySeq
    <3>3. buffer \in [0 .. Cap - 1 -> Nat]
      BY <2>1
    <3>4. hangup \in BOOLEAN /\ isConnected \in BOOLEAN /\ busy \in BOOLEAN
      BY <2>1
    <3>5. /\ received \in Nat /\ readPos \in Nat /\ writePos \in Nat /\ processLen \in Nat
          /\ readPos <= writePos /\ writePos <= Cap
      BY <2>1, <3>1
    <3>6. QED BY <2>1, <3>2, <3>3, <3>4, <3>5 DEF StreamTypes
  <2>9. BufferInv
    BY <2>1, <2>2, <2>5, <2>6 DEF BufferInv, Consumed
  <2>10. HandledInv
    BY <2>1, <2>2, <2>5, <2>6, EmptySeq DEF HandledInv, Consumed, Upto
  <2>11. ConnectedInv
    BY <2>1 DEF ConnectedInv
  <2>12. QED BY <2>7, <2>8, <2>9, <2>10, <2>11 DEF StreamInv
<1>types. ASSUME StreamInv
          PROVE  /\ Cap \in Nat \ {0} /\ HeaderSize \in Nat \ {0}
                 /\ SideSizes \subseteq HeaderSize .. Cap
                 /\ Len(sent) \in Nat /\ Len(handled) \in Nat
                 /\ \A k \in 1 .. Len(sent) : sent[k] \in HeaderSize .. Cap
  <2>1. /\ Cap \in Nat \ {0} /\ HeaderSize \in Nat \ {0}
        /\ SideSizes \subseteq HeaderSize .. Cap
    BY BufferAssumption, ClientStreamAssumption DEF Cap, SideSizes
  <2>2. sent \in Seq(SideSizes) /\ Len(sent) \in Nat /\ Len(handled) \in Nat
    BY <1>types, LenProperties DEF StreamInv, StreamTypes, HandledInv
  <2>3. \A k \in 1 .. Len(sent) : sent[k] \in SideSizes
    BY <2>2, ElementOfSeq
  <2>4. QED BY <2>1, <2>2, <2>3
<1>offsets. ASSUME StreamInv
            PROVE  /\ \A k \in 0 .. Len(sent) : Offset[k] \in Nat
                   /\ \A k \in 1 .. Len(sent) : Offset[k] = Offset[k - 1] + sent[k]
                   /\ \A j, k \in 0 .. Len(sent) : Offset[j] < Offset[k] <=> j < k
                   /\ Streamed = Offset[Len(sent)]
  <2>1. /\ \A k \in 0 .. Len(sent) : Offset[k] \in Nat
        /\ \A j, k \in 0 .. Len(sent) : j < k => Offset[j] + HeaderSize <= Offset[k]
        /\ SumsOf(sent, Offset)
    BY <1>offsets DEF StreamInv, OffsetInv
  <2>2. \A k \in 1 .. Len(sent) : Offset[k] = Offset[k - 1] + sent[k]
    <3>1. \A k \in 0 .. Len(sent) :
              Offset[k] = IF k = 0 THEN 0 ELSE Offset[k - 1] + sent[k]
      BY <2>1 DEF SumsOf
    <3>2. QED BY <1>offsets, <1>types, <3>1
  <2>3. \A j, k \in 0 .. Len(sent) : Offset[j] < Offset[k] <=> j < k
    <3>1. ASSUME NEW j \in 0 .. Len(sent), NEW k \in 0 .. Len(sent)
          PROVE  Offset[j] < Offset[k] <=> j < k
      <4>1. /\ Offset[j] \in Nat /\ Offset[k] \in Nat /\ HeaderSize \in Nat \ {0}
            /\ j \in Nat /\ k \in Nat
        BY <1>offsets, <1>types, <2>1
      <4>2. (j < k => Offset[j] + HeaderSize <= Offset[k])
            /\ (k < j => Offset[k] + HeaderSize <= Offset[j])
        BY <2>1
      <4>3. j = k => Offset[j] = Offset[k]
        OBVIOUS
      <4>4. QED BY ONLY <4>1, <4>2, <4>3
    <3>2. QED BY <3>1
  <2>4. QED BY <2>1, <2>2, <2>3 DEF Streamed
(* The header at the start of a packet is that packet's.                   *)
<1>header. ASSUME StreamInv, NEW j \in 0 .. Len(sent) - 1
           PROVE  PacketAt(Offset[j]) = j + 1 /\ SizeAt(Offset[j]) = sent[j + 1]
  <2>1. j + 1 \in 1 .. Len(sent) /\ (j + 1) - 1 = j
    BY <1>header, <1>types
  <2>2. \A k \in 1 .. Len(sent) : Offset[k - 1] = Offset[j] => k = j + 1
    <3>1. ASSUME NEW k \in 1 .. Len(sent), Offset[k - 1] = Offset[j]
          PROVE  k = j + 1
      <4>1. k - 1 \in 0 .. Len(sent) /\ j \in 0 .. Len(sent)
        BY <1>header, <1>types
      <4>2. ~(k - 1 < j) /\ ~(j < k - 1)
        <5>1. Offset[j] \in Nat
          BY <1>header, <1>offsets, <4>1
        <5>2. QED BY <1>header, <1>offsets, <3>1, <4>1, <5>1
      <4>3. QED BY <1>types, <1>header, <4>1, <4>2
    <3>2. QED BY <3>1
  <2>3. PacketAt(Offset[j]) = j + 1
    BY <2>1, <2>2 DEF PacketAt
  <2>4. Offset[j] \in Starts
    BY <2>1 DEF Starts
  <2>5. QED BY <2>3, <2>4 DEF SizeAt
(* What OnRecv finds behind the packets it has handled.                    *)
<1>whole. ASSUME StreamInv, busy
          PROVE  LET h == Len(handled) IN
                 /\ Offset[h] = received - (writePos - readPos) + processLen
                 /\ WholePacket <=> h < Len(sent) /\ Offset[h + 1] <= received
                 /\ h < Len(sent) /\ Offset[h + 1] <= received =>
                        /\ buffer[readPos + processLen] = Offset[h]
                        /\ SizeAt(buffer[readPos + processLen]) = sent[h + 1]
  <2> DEFINE h == Len(handled)
             data == writePos - readPos
  <2>1. /\ received \in Nat /\ readPos \in Nat /\ writePos \in Nat /\ processLen \in Nat
        /\ readPos <= writePos /\ data <= received /\ received <= Offset[Len(sent)]
        /\ processLen <= data /\ data \in Nat
    BY <1>whole DEF StreamInv, StreamTypes, BufferInv
  <2>2. h \in Nat /\ h <= Len(sent) /\ Offset[h] = (received - data) + processLen
    BY <1>whole, <1>types DEF StreamInv, HandledInv, Upto, Consumed
  <2>3. \A i \in 0 .. data - 1 : buffer[readPos + i] = (received - data) + i
    BY <1>whole DEF StreamInv, BufferInv, Consumed
  <2>4. /\ HeaderSize \in Nat \ {0} /\ Len(sent) \in Nat
        /\ \A k \in 1 .. Len(sent) : sent[k] \in Nat /\ HeaderSize <= sent[k]
    BY <1>whole, <1>types
  <2> HIDE DEF h, data
  <2>5. ASSUME h < Len(sent)
        PROVE  h + 1 \in 1 .. Len(sent) /\ Offset[h + 1] = Offset[h] + sent[h + 1]
    BY <1>whole, <1>offsets, <2>2, <2>4, <2>5
  <2>6. ASSUME h < Len(sent), processLen < data
        PROVE  /\ buffer[readPos + processLen] = Offset[h]
               /\ SizeAt(buffer[readPos + processLen]) = sent[h + 1]
    <3>1. processLen \in 0 .. data - 1 /\ h \in 0 .. Len(sent) - 1
      BY <2>1, <2>2, <2>4, <2>6
    <3>2. buffer[readPos + processLen] = Offset[h]
      BY <2>2, <2>3, <3>1
    <3>3. QED BY <1>whole, <1>header, <3>1, <3>2
  <2>7. WholePacket <=> /\ data - processLen >= HeaderSize
                        /\ data - processLen >= SizeAt(buffer[readPos + processLen])
    BY DEF WholePacket, DataSize, data
  <2>8. ASSUME data - processLen >= HeaderSize
        PROVE  h < Len(sent) /\ processLen < data
    <3>1. processLen < data /\ Offset[h] < received
      BY <2>1, <2>2, <2>4, <2>8
    <3>2. h # Len(sent)
      BY <2>1, <2>2, <2>4, <3>1
    <3>3. QED BY <2>2, <2>4, <3>1, <3>2
  <2>9. ASSUME h < Len(sent), Offset[h + 1] <= received
        PROVE  data - processLen >= HeaderSize
    <3>1. sent[h + 1] \in Nat /\ HeaderSize <= sent[h + 1] /\ Offset[h + 1] = Offset[h] + sent[h + 1]
      BY <2>4, <2>5, <2>9
    <3>2. QED BY <2>1, <2>2, <2>4, <2>9, <3>1
  <2>10. WholePacket => h < Len(sent) /\ Offset[h + 1] <= received
    <3> SUFFICES ASSUME WholePacket PROVE h < Len(sent) /\ Offset[h + 1] <= received
      OBVIOUS
    <3>1. h < Len(sent) /\ data - processLen >= sent[h + 1] /\ sent[h + 1] \in Nat
      BY <2>4, <2>5, <2>6, <2>7, <2>8
    <3>2. Offset[h + 1] = Offset[h] + sent[h + 1]
      BY <2>5, <3>1
    <3>3. QED BY <2>1, <2>2, <3>1, <3>2
  <2>11. ASSUME h < Len(sent), Offset[h + 1] <= received
         PROVE  WholePacket
    <3>1. sent[h + 1] \in Nat /\ Offset[h + 1] = Offset[h] + sent[h + 1]
      BY <2>4, <2>5, <2>11
    <3>2. data - processLen >= HeaderSize /\ processLen < data
      BY <2>8, <2>9, <2>11
    <3>3. SizeAt(buffer[readPos + processLen]) = sent[h + 1]
      BY <2>6, <2>11, <3>2
    <3>4. data - processLen >= sent[h + 1]
      BY <2>1, <2>2, <2>11, <3>1
    <3>5. QED BY <2>7, <3>2, <3>3, <3>4
  <2>12. QED BY <2>2, <2>6, <2>8, <2>9, <2>10, <2>11 DEF h, data
(* The offsets of a stream that has not grown.                             *)
<1>same. ASSUME StreamInv, sent' = sent, side' = side
         PROVE  OffsetInv' /\ Offset' = Offset /\ Cap' = Cap /\ SideSizes' = SideSizes
                /\ (IsServer' <=> IsServer) /\ (IsClient' <=> IsClient)
  <2>1. Offset' = Offset
    BY <1>same DEF Offset
  <2>2. QED BY <1>same, <2>1
            DEF StreamInv, OffsetInv, SumsOf, Cap, SideSizes, IsServer, IsClient
<1>send. ASSUME StreamInv, NEW size \in SideSizes, SendPacket(size), side' = side
         PROVE  StreamInv'
  <2> DEFINE n == Len(sent)
             g == [k \in 0 .. n + 1 |-> IF k = n + 1 THEN Offset[n] + size ELSE Offset[k]]
  <2>1. /\ sent' = Append(sent, size) /\ hangup' = hangup /\ ~hangup
        /\ UNCHANGED <<received, buffer, readPos, writePos, isConnected, busy, processLen,
                       handled>>
    BY <1>send DEF SendPacket, bufferVars
  <2>2. /\ Cap' = Cap /\ SideSizes' = SideSizes
        /\ (IsServer' <=> IsServer) /\ (IsClient' <=> IsClient)
    BY <1>send DEF Cap, SideSizes, IsServer, IsClient
  <2>3. /\ sent' \in Seq(SideSizes) /\ Len(sent') = n + 1 /\ n \in Nat
        /\ sent'[n + 1] = size
        /\ \A k \in 1 .. n : sent'[k] = sent[k]
    <3>1. sent \in Seq(SideSizes) /\ n \in Nat
      BY <1>send, <1>types DEF StreamInv, StreamTypes
    <3>2. QED BY <1>send, <2>1, <3>1, AppendProperties
  <2>4. size \in Nat /\ HeaderSize <= size /\ HeaderSize \in Nat \ {0}
    BY <1>send, <1>types
  <2>5. /\ SumsOf(sent, Offset)
        /\ \A f : SumsOf(sent, f) => f = Offset
        /\ \A k \in 0 .. n : Offset[k] \in Nat
        /\ \A j, k \in 0 .. n : j < k => Offset[j] + HeaderSize <= Offset[k]
    BY <1>send DEF StreamInv, OffsetInv
  <2>6. \A k \in 0 .. n : Offset[k] = IF k = 0 THEN 0 ELSE Offset[k - 1] + sent[k]
    BY <2>5 DEF SumsOf
  <2> HIDE DEF n
  <2>7. /\ \A k \in 0 .. n : g[k] = Offset[k]
        /\ g[n + 1] = Offset[n] + size
        /\ DOMAIN g = 0 .. n + 1
    BY <2>3
  <2>8. SumsOf(sent', g)
    <3>1. ASSUME NEW k \in 0 .. n + 1
          PROVE  g[k] = IF k = 0 THEN 0 ELSE g[k - 1] + sent'[k]
      <4>1. CASE k = 0
        BY <2>3, <2>6, <2>7, <4>1
      <4>2. CASE k \in 1 .. n
        BY <2>3, <2>6, <2>7, <4>2
      <4>3. CASE k = n + 1
        BY <2>3, <2>7, <4>3
      <4>4. QED BY <2>3, <4>1, <4>2, <4>3
    <3>2. g = [k \in 0 .. n + 1 |-> g[k]]
      BY <2>7
    <3> HIDE DEF g
    <3>3. QED BY <2>3, <3>1, <3>2 DEF SumsOf
  <2>9. ASSUME NEW f, SumsOf(sent', f)
        PROVE  f = g
    <3> DEFINE r == [k \in 0 .. n |-> f[k]]
    <3>1. f = [k \in 0 .. n + 1 |-> IF k = 0 THEN 0 ELSE f[k - 1] + sent'[k]]
      BY <2>3, <2>9 DEF SumsOf
    <3>2. \A k \in 0 .. n + 1 : f[k] = IF k = 0 THEN 0 ELSE f[k - 1] + sent'[k]
      BY <3>1
    <3>3. \A k \in 0 .. n : r[k] = IF k = 0 THEN 0 ELSE r[k - 1] + sent[k]
      <4>1. ASSUME NEW k \in 1 .. n
            PROVE  r[k] = r[k - 1] + sent[k]
        <5>1. k \in 0 .. n + 1 /\ k - 1 \in 0 .. n /\ k \in 0 .. n /\ k # 0
          BY <2>3
        <5>2. f[k] = f[k - 1] + sent'[k]
          BY <3>2, <5>1
        <5>3. QED BY <2>3, <5>1, <5>2
      <4>2. r[0] = 0
        BY <2>3, <3>2
      <4>3. \A k \in 0 .. n : k = 0 \/ k \in 1 .. n
        BY <2>3
      <4> HIDE DEF r
      <4>4. QED BY <4>1, <4>2, <4>3
    <3>4. r = [k \in 0 .. n |-> r[k]]
      OBVIOUS
    <3>5. SumsOf(sent, r)
      <4> HIDE DEF r
      <4>1. QED BY <3>3, <3>4 DEF SumsOf, n
    <3>6. \A k \in 0 .. n : f[k] = Offset[k]
      <4>1. \A k \in 0 .. n : f[k] = r[k]
        OBVIOUS
      <4> HIDE DEF r
      <4>2. QED BY <2>5, <3>5, <4>1
    <3>7. f[n + 1] = Offset[n] + size
      <4>1. n + 1 \in 0 .. n + 1 /\ n + 1 # 0 /\ (n + 1) - 1 = n /\ n \in 0 .. n
        BY <2>3
      <4>2. QED BY <2>3, <3>2, <3>6, <4>1
    <3>8. ASSUME NEW k \in 0 .. n + 1
          PROVE  f[k] = g[k]
      <4>1. k = n + 1 \/ k \in 0 .. n
        BY <2>3
      <4>2. QED BY <2>7, <3>6, <3>7, <4>1
    <3>9. f = [k \in 0 .. n + 1 |-> f[k]] /\ g = [k \in 0 .. n + 1 |-> g[k]]
      BY <2>7, <3>1
    <3> HIDE DEF g
    <3>10. QED BY <3>8, <3>9
  <2> HIDE DEF g
  <2>10. Offset' = g
    BY ONLY <1>offset, <2>8, <2>9
  <2>11. \A k \in 0 .. n + 1 : k \in 0 .. n \/ k = n + 1
    BY <2>3
  <2>12. OffsetInv'
    <3>1. \A k \in 0 .. n + 1 : g[k] \in Nat
      BY <2>3, <2>4, <2>5, <2>7, <2>11
    <3>2. ASSUME NEW j \in 0 .. n + 1, NEW k \in 0 .. n + 1, j < k
          PROVE  g[j] + HeaderSize <= g[k]
      <4>1. j \in 0 .. n
        BY <2>3, <3>2
      <4>2. CASE k \in 0 .. n
        BY <2>5, <2>7, <3>2, <4>1, <4>2
      <4>3. CASE k = n + 1
        <5>1. Offset[j] <= Offset[n]
          BY <2>3, <2>4, <2>5, <4>1
        <5>2. QED BY <2>3, <2>4, <2>5, <2>7, <4>1, <4>3, <5>1
      <4>4. QED BY <2>11, <4>2, <4>3
    <3>3. QED BY <2>3, <2>8, <2>9, <2>10, <3>1, <3>2 DEF OffsetInv
  <2>13. /\ \A k \in 0 .. n : Offset'[k] = Offset[k]
         /\ Offset'[n + 1] = Offset[n] + size
    BY <2>7, <2>10
  <2>14. StreamTypes'
    BY <1>send, <2>1, <2>2, <2>3 DEF StreamInv, StreamTypes
  <2>15. BufferInv'
    <3>1. Offset[n] \in Nat /\ received \in Nat /\ received <= Offset[n]
      BY <1>send, <2>3, <2>5 DEF StreamInv, StreamTypes, BufferInv, n
    <3>2. received <= Offset'[n + 1]
      BY <2>4, <2>13, <3>1
    <3>3. QED BY <1>send, <2>1, <2>2, <2>3, <3>2 DEF StreamInv, BufferInv, Consumed
  <2>16. HandledInv'
    <3>1. /\ Len(handled) \in Nat /\ Len(handled) <= n /\ received \in Nat
          /\ received <= Offset[n] /\ Offset[n] \in Nat
      BY <1>send, <1>types, <2>3, <2>5
         DEF StreamInv, StreamTypes, BufferInv, HandledInv, n
    <3>2. Len(handled') <= Len(sent') /\ Offset'[Len(handled')] = Upto'
      <4>1. Offset[Len(handled)] = Upto
        BY <1>send DEF StreamInv, HandledInv
      <4>2. QED BY <2>1, <2>3, <2>13, <3>1, <4>1 DEF Upto, Consumed
    <3>3. ASSUME ~busy, NEW k \in 1 .. n + 1, Offset'[k] <= received
          PROVE  k <= Len(handled)
      <4>1. CASE k \in 1 .. n
        <5>1. Offset'[k] = Offset[k]
          BY <2>3, <2>13, <4>1
        <5>2. QED BY <1>send, <3>3, <4>1, <5>1 DEF StreamInv, HandledInv, n
      <4>2. CASE k = n + 1
        BY <2>3, <2>4, <2>13, <3>1, <3>3, <4>2
      <4>3. QED BY <2>3, <4>1, <4>2
    <3>4. IsServer => \E j \in 0 .. Len(handled) : Offset'[j] = Consumed
      <4>1. \A j \in 0 .. Len(handled) : j \in 0 .. n
        BY <2>3, <3>1
      <4>2. QED BY <1>send, <2>13, <4>1 DEF StreamInv, HandledInv
    <3>5. Consumed' = Consumed
      BY <2>1 DEF Consumed
    <3>6. /\ handled' \in Seq(IF IsServer' THEN [packet : Nat, extra : Int] ELSE Nat)
          /\ IsServer => \A i \in 1 .. Len(handled) :
                             /\ handled[i].packet <= i
                             /\ handled[i].extra = 0 => handled[i].packet = i
          /\ IsClient => \A i \in 1 .. Len(handled) : handled[i] = i
      BY <1>send, <2>1, <2>2 DEF StreamInv, HandledInv
    <3>7. handled' = handled /\ busy' = busy /\ received' = received /\ Len(sent') = n + 1
      BY <2>1, <2>3
    <3>8. QED BY <2>2, <3>2, <3>3, <3>4, <3>5, <3>6, <3>7 DEF HandledInv
  <2>17. ConnectedInv'
    BY <1>send, <2>1, <2>2 DEF StreamInv, ConnectedInv
  <2>18. QED BY <2>12, <2>14, <2>15, <2>16, <2>17 DEF StreamInv
<1>hangup. ASSUME StreamInv, Hangup, side' = side
           PROVE  StreamInv'
  <2>1. /\ sent' = sent /\ hangup' = TRUE
        /\ UNCHANGED <<received, buffer, readPos, writePos, isConnected, busy, processLen,
                       handled>>
    BY <1>hangup DEF Hangup, bufferVars
  <2>2. OffsetInv' /\ Offset' = Offset /\ Cap' = Cap /\ SideSizes' = SideSizes
        /\ (IsServer' <=> IsServer) /\ (IsClient' <=> IsClient)
    BY <1>hangup, <1>same, <2>1
  <2>3. StreamTypes'
    BY <1>hangup, <2>1, <2>2 DEF StreamInv, StreamTypes
  <2>4. BufferInv'
    BY <1>hangup, <2>1, <2>2 DEF StreamInv, BufferInv, Consumed
  <2>5. HandledInv'
    BY <1>hangup, <2>1, <2>2 DEF StreamInv, HandledInv, Upto, Consumed
  <2>6. ConnectedInv'
    BY <1>hangup, <2>1, <2>2 DEF StreamInv, ConnectedInv
  <2>7. QED BY <2>2, <2>3, <2>4, <2>5, <2>6 DEF StreamInv
(* The stream is the same for both sides.                                  *)
<1>alias. /\ Server!Offset = Offset /\ Client!Offset = Offset
          /\ Server!Streamed = Streamed /\ Client!Streamed = Streamed
          /\ Server!Starts = Starts /\ Client!Starts = Starts
          /\ \A n : Server!PacketAt(n) = PacketAt(n) /\ Client!PacketAt(n) = PacketAt(n)
          /\ \A n : Server!SizeAt(n) = SizeAt(n) /\ Client!SizeAt(n) = SizeAt(n)
          /\ Server!WholePacket = WholePacket /\ Client!WholePacket = WholePacket
  <2>1. Server!Offset = Offset /\ Client!Offset = Offset
    BY DEF Server!Offset, Client!Offset, Offset
  <2>2. /\ Server!Streamed = Streamed /\ Client!Streamed = Streamed
        /\ Server!Starts = Starts /\ Client!Starts = Starts
    BY <2>1 DEF Server!Streamed, Client!Streamed, Streamed, Server!Starts, Client!Starts, Starts
  <2>3. \A n : Server!PacketAt(n) = PacketAt(n) /\ Client!PacketAt(n) = PacketAt(n)
    BY <2>1 DEF Server!PacketAt, Client!PacketAt, PacketAt
  <2>4. \A n : Server!SizeAt(n) = SizeAt(n) /\ Client!SizeAt(n) = SizeAt(n)
    BY <2>2, <2>3 DEF Server!SizeAt, Client!SizeAt, SizeAt
  <2>5. Server!WholePacket = WholePacket /\ Client!WholePacket = WholePacket
    BY <2>4 DEF Server!WholePacket, Client!WholePacket, WholePacket, Server!DataSize,
                Client!DataSize, DataSize
  <2> QED BY <2>1, <2>2, <2>3, <2>4, <2>5
<1>receive. ASSUME StreamInv, NEW n \in Nat \ {0}, side' = side,
                   \/ IsServer /\ Server!Receive(n)
                   \/ IsClient /\ Client!Receive(n)
            PROVE  StreamInv'
  <2> DEFINE data == writePos - readPos
  <2>1. /\ isConnected /\ ~busy /\ n <= Cap - writePos /\ received + n <= Streamed
        /\ buffer' = [i \in DOMAIN buffer |->
                          IF i \in writePos .. (writePos + n - 1)
                          THEN received + (i - writePos) ELSE buffer[i]]
        /\ writePos' = writePos + n /\ received' = received + n
        /\ busy' = TRUE /\ processLen' = 0
        /\ UNCHANGED <<sent, hangup, readPos, isConnected, handled>>
    <3>1. CASE IsServer /\ Server!Receive(n)
      BY <1>alias, <3>1 DEF Server!Receive, Cap, Server!FreeSize, Server!peerVars
    <3>2. CASE IsClient /\ Client!Receive(n)
      <4>1. ~IsServer
        BY <3>2 DEF IsServer, IsClient
      <4>2. QED BY <1>alias, <3>2, <4>1 DEF Client!Receive, Cap, Client!FreeSize, Client!peerVars
    <3>3. QED BY <1>receive, <3>1, <3>2
  <2>2. OffsetInv' /\ Offset' = Offset /\ Cap' = Cap /\ SideSizes' = SideSizes
        /\ (IsServer' <=> IsServer) /\ (IsClient' <=> IsClient)
    BY <1>receive, <1>same, <2>1
  <2>3. /\ received \in Nat /\ readPos \in Nat /\ writePos \in Nat
        /\ readPos <= writePos /\ writePos <= Cap /\ Cap \in Nat \ {0}
        /\ data <= received /\ data \in Nat
        /\ buffer \in [0 .. Cap - 1 -> Nat]
        /\ \A i \in 0 .. data - 1 : buffer[readPos + i] = (received - data) + i
        /\ IsClient => readPos = 0
    BY <1>receive, <1>types DEF StreamInv, StreamTypes, BufferInv, Consumed
  <2>4. Streamed = Offset[Len(sent)]
    BY <1>receive, <1>offsets
  <2>5. Consumed' = Consumed /\ Upto' = Upto
    BY <2>1, <2>3 DEF Consumed, Upto
  <2>6. buffer' \in [0 .. Cap - 1 -> Nat]
    BY <2>1, <2>3
  <2>7. ASSUME NEW i \in 0 .. (data + n) - 1
        PROVE  buffer'[readPos + i] = (received - data) + i
    <3>1. readPos + i \in 0 .. Cap - 1
      BY <2>1, <2>3
    <3>2. buffer'[readPos + i] = IF readPos + i \in writePos .. (writePos + n - 1)
                                 THEN received + ((readPos + i) - writePos)
                                 ELSE buffer[readPos + i]
      BY <2>1, <2>3, <3>1
    <3>3. CASE i \in 0 .. data - 1
      BY <2>3, <3>2, <3>3
    <3>4. CASE i >= data
      BY <2>3, <3>2, <3>4
    <3>5. QED BY <2>3, <3>3, <3>4
  <2>8. StreamTypes'
    <3>1. /\ side' \in {"server", "client"} /\ sent' \in Seq(SideSizes')
          /\ hangup' \in BOOLEAN /\ isConnected' \in BOOLEAN /\ busy' \in BOOLEAN
      BY <1>receive, <2>1, <2>2 DEF StreamInv, StreamTypes
    <3>2. /\ received' \in Nat /\ readPos' \in Nat /\ writePos' \in Nat /\ processLen' \in Nat
          /\ readPos' <= writePos' /\ writePos' <= Cap'
      BY <2>1, <2>2, <2>3
    <3>3. QED BY <2>2, <2>6, <3>1, <3>2 DEF StreamTypes
  <2>9. BufferInv'
    <3>1. writePos' - readPos' = data + n /\ writePos' - readPos' <= received'
          /\ received' <= Offset'[Len(sent')]
      BY <2>1, <2>2, <2>3, <2>4
    <3>2. processLen' <= writePos' - readPos'
      BY <2>1, <2>3, <3>1
    <3>3. Consumed' = received - data
      BY <2>5 DEF Consumed
    <3>4. readPos' = readPos /\ busy'
      BY <2>1
    <3> HIDE DEF data
    <3>5. QED BY <2>2, <2>3, <2>7, <3>1, <3>2, <3>3, <3>4 DEF BufferInv
  <2>10. HandledInv'
    BY <1>receive, <2>1, <2>2, <2>5 DEF StreamInv, HandledInv
  <2>11. ConnectedInv'
    BY <2>1 DEF ConnectedInv
  <2>12. QED BY <2>2, <2>8, <2>9, <2>10, <2>11 DEF StreamInv
(* A receive without room comes when what is left fills the buffer, on the *)
(* client never: no packet is longer than its buffer.                      *)
<1>nothing. ASSUME StreamInv, side' = side,
                   \/ IsServer /\ Server!ReceiveNothing
                   \/ IsClient /\ Client!ReceiveNothing
            PROVE  StreamInv'
  <2>1. /\ ~busy
        /\ hangup \/ (Cap - writePos = 0 /\ received < Streamed)
        /\ isConnected' = FALSE
        /\ UNCHANGED <<sent, hangup, received, buffer, readPos, writePos, busy, processLen,
                       handled>>
    <3>1. CASE IsServer /\ Server!ReceiveNothing
      BY <1>alias, <3>1
         DEF Server!ReceiveNothing, Cap, Server!FreeSize, Server!peerVars, Server!bufferVars
    <3>2. CASE IsClient /\ Client!ReceiveNothing
      <4>1. ~IsServer
        BY <3>2 DEF IsServer, IsClient
      <4>2. QED BY <1>alias, <3>2, <4>1
                DEF Client!ReceiveNothing, Cap, Client!FreeSize, Client!peerVars,
                    Client!bufferVars
    <3>3. QED BY <1>nothing, <3>1, <3>2
  <2>2. OffsetInv' /\ Offset' = Offset /\ Cap' = Cap /\ SideSizes' = SideSizes
        /\ (IsServer' <=> IsServer) /\ (IsClient' <=> IsClient)
    BY <1>nothing, <1>same, <2>1
  <2>3. StreamTypes'
    BY <1>nothing, <2>1, <2>2 DEF StreamInv, StreamTypes
  <2>4. BufferInv'
    BY <1>nothing, <2>1, <2>2 DEF StreamInv, BufferInv, Consumed
  <2>5. HandledInv'
    BY <1>nothing, <2>1, <2>2 DEF StreamInv, HandledInv, Upto, Consumed
  <2>6. ASSUME ~hangup
        PROVE  IsServer /\ writePos = Cap /\ readPos < writePos
    <3>1. /\ writePos = Cap /\ received < Offset[Len(sent)]
          /\ received \in Nat /\ readPos \in Nat /\ writePos \in Nat /\ Cap \in Nat \ {0}
          /\ readPos <= writePos
          /\ readPos = writePos => writePos = 0
          /\ IsClient => readPos = 0
          /\ Len(sent) \in Nat /\ Len(handled) \in Nat /\ Len(handled) <= Len(sent)
          /\ Offset[Len(handled)] = received - (writePos - readPos)
      <4>1. /\ received \in Nat /\ readPos \in Nat /\ writePos \in Nat
            /\ readPos <= writePos /\ writePos <= Cap /\ Cap \in Nat \ {0}
            /\ Len(sent) \in Nat /\ Len(handled) \in Nat
        BY <1>nothing, <1>types DEF StreamInv, StreamTypes
      <4>2. /\ readPos = writePos => writePos = 0
            /\ IsClient => readPos = 0
        BY <1>nothing, <2>1 DEF StreamInv, BufferInv
      <4>3. /\ Len(handled) <= Len(sent)
            /\ Offset[Len(handled)] = (received - (writePos - readPos)) + 0
        BY <1>nothing, <2>1 DEF StreamInv, HandledInv, Upto, Consumed
      <4>4. Cap - writePos = 0 /\ received < Offset[Len(sent)]
        BY <1>nothing, <1>offsets, <2>1, <2>6
      <4>5. QED BY <4>1, <4>2, <4>3, <4>4
    <3>2. readPos < writePos
      BY <3>1
    <3>3. ASSUME IsClient PROVE FALSE
      <4>1. Len(handled) # Len(sent)
        BY <3>1, <3>3
      <4>2. Len(handled) + 1 \in 1 .. Len(sent)
        BY <3>1, <4>1
      <4>3. /\ Offset[Len(handled) + 1] = Offset[Len(handled)] + sent[Len(handled) + 1]
            /\ sent[Len(handled) + 1] \in Nat /\ sent[Len(handled) + 1] <= Cap
        <5>1. (Len(handled) + 1) - 1 = Len(handled)
          BY <3>1
        <5>2. QED BY <1>nothing, <1>types, <1>offsets, <3>1, <4>2, <5>1
      <4>4. Offset[Len(handled) + 1] <= received
        BY <3>1, <3>3, <4>3
      <4>5. Len(handled) + 1 <= Len(handled)
        BY <1>nothing, <2>1, <4>2, <4>4 DEF StreamInv, HandledInv
      <4>6. QED BY <3>1, <4>5
    <3>4. IsServer
      BY <1>nothing, <3>3 DEF IsServer, IsClient
    <3>5. QED BY <3>1, <3>2, <3>4
  <2>7. ConnectedInv'
    BY <2>1, <2>2, <2>6 DEF ConnectedInv
  <2>8. QED BY <2>2, <2>3, <2>4, <2>5, <2>7 DEF StreamInv
(* One more handler called, with what is right for the side.               *)
<1>called. ASSUME StreamInv, side' = side, busy, WholePacket,
                  NEW e \in IF IsServer THEN [packet : Nat, extra : Int] ELSE Nat,
                  IsServer => /\ e.packet <= Len(handled) + 1
                              /\ e.extra = 0 => e.packet = Len(handled) + 1,
                  IsClient => e = Len(handled) + 1,
                  handled' = Append(handled, e),
                  processLen' = processLen + SizeAt(buffer[readPos + processLen]),
                  UNCHANGED <<sent, hangup, received, buffer, readPos, writePos, isConnected,
                              busy>>
           PROVE  StreamInv'
  <2> DEFINE h == Len(handled)
             E == IF IsServer THEN [packet : Nat, extra : Int] ELSE Nat
  <2>1. OffsetInv' /\ Offset' = Offset /\ Cap' = Cap /\ SideSizes' = SideSizes
        /\ (IsServer' <=> IsServer) /\ (IsClient' <=> IsClient)
    BY <1>called, <1>same
  <2>2. /\ Offset[h] = (received - (writePos - readPos)) + processLen
        /\ h < Len(sent) /\ Offset[h + 1] <= received
        /\ SizeAt(buffer[readPos + processLen]) = sent[h + 1]
    BY <1>called, <1>whole
  <2>3. /\ received \in Nat /\ readPos \in Nat /\ writePos \in Nat /\ processLen \in Nat
        /\ readPos <= writePos /\ processLen <= writePos - readPos
    BY <1>called DEF StreamInv, StreamTypes, BufferInv
  <2>4. /\ h \in Nat /\ Len(sent) \in Nat
        /\ \A k \in 1 .. Len(sent) : sent[k] \in Nat
    BY <1>called, <1>types
  <2>5. handled \in Seq(E)
    BY <1>called DEF StreamInv, HandledInv
  <2>6. /\ handled' \in Seq(E) /\ Len(handled') = h + 1
        /\ \A i \in 1 .. h : handled'[i] = handled[i]
        /\ handled'[h + 1] = e
    BY <1>called, <2>5, AppendProperties
  <2> HIDE DEF h, E
  <2>7. sent[h + 1] \in Nat /\ Offset[h + 1] = Offset[h] + sent[h + 1]
    <3>1. h + 1 \in 1 .. Len(sent) /\ (h + 1) - 1 = h
      BY <2>2, <2>4
    <3>2. QED BY <1>called, <1>offsets, <2>4, <3>1
  <2>8. processLen' = processLen + sent[h + 1] /\ processLen' \in Nat
        /\ processLen' <= writePos - readPos
    <3>1. processLen' = processLen + sent[h + 1]
      BY <1>called, <2>2
    <3>2. Offset[h] + sent[h + 1] <= received
      BY <2>2, <2>7
    <3>3. QED BY <2>2, <2>3, <2>7, <3>1, <3>2
  <2>9. Consumed' = Consumed /\ Upto' = Offset[h + 1]
    <3>1. Consumed' = Consumed
      BY <1>called DEF Consumed
    <3>2. Upto' = (received - (writePos - readPos)) + processLen'
      BY <1>called DEF Upto, Consumed
    <3>3. QED BY <2>2, <2>3, <2>7, <2>8, <3>1, <3>2
  <2>10. StreamTypes'
    BY <1>called, <2>1, <2>8 DEF StreamInv, StreamTypes
  <2>11. BufferInv'
    <3>1. processLen' <= writePos' - readPos'
      BY <1>called, <2>8
    <3>2. QED BY <1>called, <2>1, <2>9, <3>1 DEF StreamInv, BufferInv
  <2>12. HandledInv'
    <3>1. \A i \in 1 .. h + 1 : i \in 1 .. h \/ i = h + 1
      BY <2>4
    <3>2. IsServer' => \E j \in 0 .. Len(handled') : Offset'[j] = Consumed'
      <4>1. \A j \in 0 .. h : j \in 0 .. Len(handled')
        BY <2>4, <2>6
      <4>2. IsServer => \E j \in 0 .. h : Offset[j] = Consumed
        BY <1>called DEF StreamInv, HandledInv, h
      <4>3. QED BY <2>1, <2>9, <4>1, <4>2
    <3>3. IsServer' => \A i \in 1 .. Len(handled') :
                           /\ handled'[i].packet <= i
                           /\ handled'[i].extra = 0 => handled'[i].packet = i
      <4>1. IsServer => \A i \in 1 .. h :
                            /\ handled[i].packet <= i
                            /\ handled[i].extra = 0 => handled[i].packet = i
        BY <1>called DEF StreamInv, HandledInv, h
      <4>2. IsServer => e.packet <= h + 1 /\ (e.extra = 0 => e.packet = h + 1)
        BY <1>called DEF h
      <4>3. QED BY <2>1, <2>6, <3>1, <4>1, <4>2
    <3>4. IsClient' => \A i \in 1 .. Len(handled') : handled'[i] = i
      <4>1. IsClient => \A i \in 1 .. h : handled[i] = i
        BY <1>called DEF StreamInv, HandledInv, h
      <4>2. IsClient => e = h + 1
        BY <1>called DEF h
      <4>3. QED BY <2>1, <2>6, <3>1, <4>1, <4>2
    <3>5. handled' \in Seq(IF IsServer' THEN [packet : Nat, extra : Int] ELSE Nat)
      BY <2>1, <2>6 DEF E
    <3>6. Len(handled') <= Len(sent') /\ Offset'[Len(handled')] = Upto'
      BY <1>called, <2>1, <2>2, <2>4, <2>6, <2>9
    <3>7. busy'
      BY <1>called
    <3>8. QED BY <3>2, <3>3, <3>4, <3>5, <3>6, <3>7 DEF HandledInv
  <2>13. ConnectedInv'
    BY <1>called, <2>1 DEF StreamInv, ConnectedInv
  <2>14. QED BY <2>1, <2>10, <2>11, <2>12, <2>13 DEF StreamInv
(* HandlePacket is given what stands first in the buffer, which is the     *)
(* header of the packet when nothing has been handled before it.           *)
<1>serverhandles. ASSUME StreamInv, side' = side, IsServer, Server!HandlePacket
                  PROVE  StreamInv'
  <2> DEFINE h == Len(handled)
             data == writePos - readPos
             first == buffer[readPos]
             e == [packet |-> PacketAt(first), extra |-> data - SizeAt(first)]
  <2>1. /\ busy /\ WholePacket
        /\ handled' = Append(handled, e)
        /\ processLen' = processLen + SizeAt(buffer[readPos + processLen])
        /\ UNCHANGED <<sent, hangup, received, buffer, readPos, writePos, isConnected, busy>>
    BY <1>serverhandles, <1>alias
       DEF Server!HandlePacket, Server!DataSize, Server!peerVars, Server!bufferVars
  <2>2. /\ Offset[h] = (received - data) + processLen
        /\ h < Len(sent) /\ Offset[h + 1] <= received
    BY <1>serverhandles, <1>whole, <2>1
  <2>3. /\ received \in Nat /\ readPos \in Nat /\ writePos \in Nat /\ processLen \in Nat
        /\ readPos <= writePos /\ processLen <= data
        /\ \A i \in 0 .. data - 1 : buffer[readPos + i] = Consumed + i
    BY <1>serverhandles, <2>1 DEF StreamInv, StreamTypes, BufferInv
  <2>4. /\ h \in Nat /\ Len(sent) \in Nat /\ HeaderSize \in Nat \ {0}
        /\ \A k \in 1 .. Len(sent) : sent[k] \in Nat /\ HeaderSize <= sent[k]
    BY <1>serverhandles, <1>types
  <2>5. PICK j \in 0 .. h : Offset[j] = Consumed
    BY <1>serverhandles DEF StreamInv, HandledInv
  <2>6. Consumed = received - data /\ Consumed \in Int
    BY <2>3 DEF Consumed
  <2>7. Offset[h + 1] = Offset[h] + sent[h + 1] /\ sent[h + 1] \in Nat /\ 0 < sent[h + 1]
    <3>1. h + 1 \in 1 .. Len(sent) /\ (h + 1) - 1 = h
      BY <2>2, <2>4
    <3>2. QED BY <1>serverhandles, <1>offsets, <2>4, <3>1
  <2>8. first = Offset[j]
    <3> HIDE DEF h
    <3>1. 0 < data /\ data \in Nat
      BY <2>2, <2>3, <2>7
    <3>2. buffer[readPos + 0] = Consumed + 0
      BY <2>3, <3>1
    <3>3. QED BY <2>3, <2>5, <2>6, <3>2
  <2>9. j \in 0 .. Len(sent) - 1 /\ j + 1 \in 1 .. Len(sent) /\ j <= h
    BY <2>2, <2>4, <2>5
  <2>10. PacketAt(first) = j + 1 /\ SizeAt(first) = sent[j + 1]
    BY <1>serverhandles, <1>header, <2>8, <2>9
  <2> HIDE DEF h, data, first
  <2>11. e \in [packet : Nat, extra : Int]
    BY <2>3, <2>4, <2>9, <2>10 DEF data
  <2>12. e.packet = j + 1 /\ e.extra = data - sent[j + 1]
    BY <2>10
  <2>13. e.packet <= h + 1
    BY <2>4, <2>9, <2>12
  <2>14. ASSUME e.extra = 0
         PROVE  e.packet = h + 1
    <3>1. Offset[j + 1] = Offset[j] + sent[j + 1] /\ sent[j + 1] \in Nat
      <4>1. (j + 1) - 1 = j
        BY <2>9
      <4>2. QED BY <1>serverhandles, <1>offsets, <2>4, <2>9, <4>1
    <3>2. data \in Int
      BY <2>3 DEF data
    <3>3. Offset[j + 1] = received
      BY <2>3, <2>5, <2>6, <2>12, <2>14, <3>1, <3>2
    <3>4. ~(Offset[j + 1] < Offset[h + 1])
      <4>1. h + 1 \in 0 .. Len(sent) /\ Offset[h + 1] \in Nat
        BY <1>serverhandles, <1>offsets, <2>2, <2>4
      <4>2. QED BY <2>2, <2>3, <3>3, <4>1
    <3>5. ~(j + 1 < h + 1)
      <4>1. j + 1 \in 0 .. Len(sent) /\ h + 1 \in 0 .. Len(sent)
        BY <2>2, <2>4, <2>9
      <4>2. QED BY <1>serverhandles, <1>offsets, <3>4, <4>1
    <3>6. j = h
      BY <2>4, <2>9, <3>5
    <3>7. QED BY <2>12, <3>6
  <2> HIDE DEF e
  <2>15. ~IsClient
    BY <1>serverhandles DEF IsServer, IsClient
  <2>16. QED BY <1>serverhandles, <1>called, <2>1, <2>11, <2>13, <2>14, <2>15 DEF h
<1>clienthandles. ASSUME StreamInv, side' = side, IsClient, Client!OnRecvPacket
                  PROVE  StreamInv'
  <2> DEFINE h == Len(handled)
             e == PacketAt(buffer[readPos + processLen])
  <2>1. /\ busy /\ WholePacket
        /\ handled' = Append(handled, e)
        /\ processLen' = processLen + SizeAt(buffer[readPos + processLen])
        /\ UNCHANGED <<sent, hangup, received, buffer, readPos, writePos, isConnected, busy>>
    BY <1>clienthandles, <1>alias
       DEF Client!OnRecvPacket, Client!peerVars, Client!bufferVars
  <2>2. buffer[readPos + processLen] = Offset[h] /\ h < Len(sent)
    BY <1>clienthandles, <1>whole, <2>1
  <2>3. h \in Nat /\ Len(sent) \in Nat
    BY <1>clienthandles, <1>types
  <2>4. e = h + 1
    <3>1. h \in 0 .. Len(sent) - 1
      BY <2>2, <2>3
    <3>2. QED BY <1>clienthandles, <1>header, <2>2, <3>1
  <2>5. ~IsServer
    BY <1>clienthandles DEF IsServer, IsClient
  <2> HIDE DEF e
  <2>6. e \in Nat /\ e = Len(handled) + 1
    BY <2>3, <2>4
  <2>7. QED BY <1>clienthandles, <1>called, <2>1, <2>5, <2>6
(* Clean when OnRecv finds no more: what is left begins where the next     *)
(* packet does.  With bufferSize 0 the server never moves it.              *)
<1>ends. ASSUME StreamInv, side' = side,
                \/ IsServer /\ Server!EndRecv
                \/ IsClient /\ Client!EndRecv
         PROVE  StreamInv'
  <2> DEFINE h == Len(handled)
             data == writePos - readPos
             left == data - processLen
  <2>1. /\ busy /\ ~WholePacket
        /\ UNCHANGED <<sent, hangup, received, isConnected, processLen, handled>>
    BY <1>ends, <1>alias
       DEF Server!EndRecv, Client!EndRecv, Server!peerVars, Client!peerVars
  <2>2. busy' = FALSE
    BY <1>ends DEF Server!EndRecv, Client!EndRecv
  <2>3. /\ received \in Nat /\ readPos \in Nat /\ writePos \in Nat /\ processLen \in Nat
        /\ readPos <= writePos /\ writePos <= Cap /\ processLen <= data
        /\ data <= received /\ received <= Offset[Len(sent)]
        /\ buffer \in [0 .. Cap - 1 -> Nat]
        /\ \A i \in 0 .. data - 1 : buffer[readPos + i] = Consumed + i
        /\ IsClient => readPos = 0
    BY <1>ends, <2>1 DEF StreamInv, StreamTypes, BufferInv
  <2>4. /\ Cap \in Nat \ {0} /\ h \in Nat /\ h <= Len(sent) /\ Len(sent) \in Nat
        /\ Consumed = received - data
    BY <1>ends, <1>types DEF StreamInv, HandledInv, Consumed
  <2>5. Offset[h] = Consumed + processLen
    BY <2>1, <2>4, <1>whole, <1>ends
  <2>6. OffsetInv' /\ Offset' = Offset /\ Cap' = Cap /\ SideSizes' = SideSizes
        /\ (IsServer' <=> IsServer) /\ (IsClient' <=> IsClient)
    BY <1>ends, <1>same, <2>1
  <2>7. ASSUME NEW k \in 1 .. Len(sent), Offset[k] <= received
        PROVE  k <= h
    <3> SUFFICES ASSUME h < k PROVE FALSE
      BY <2>4
    <3>1. ~(h < Len(sent) /\ Offset[h + 1] <= received)
      BY <1>ends, <1>whole, <2>1
    <3>2. h < Len(sent) /\ h + 1 <= k /\ h + 1 \in 0 .. Len(sent) /\ k \in 0 .. Len(sent)
      BY <2>4
    <3>3. h + 1 = k \/ Offset[h + 1] < Offset[k]
      BY <1>ends, <1>offsets, <2>4, <3>2
    <3>4. Offset[h + 1] \in Nat /\ Offset[k] \in Nat
      BY <1>ends, <1>offsets, <3>2
    <3>5. QED BY <2>3, <2>7, <3>1, <3>2, <3>3, <3>4
  <2> HIDE DEF h, data, left
  <2>8. left \in Nat /\ left <= Cap /\ left <= received /\ data \in Nat
    BY <2>3, <2>4 DEF left, data
  (* What either Clean leaves. *)
  <2>9. /\ buffer' \in [0 .. Cap - 1 -> Nat]
        /\ readPos' \in Nat /\ writePos' \in Nat /\ readPos' <= writePos' /\ writePos' <= Cap
        /\ writePos' - readPos' = left
        /\ \A i \in 0 .. left - 1 : buffer'[readPos' + i] = Offset[h] + i
        /\ readPos' = writePos' => writePos' = 0
        /\ IsClient => readPos' = 0
    <3>1. ASSUME NEW i \in 0 .. left - 1
          PROVE  /\ processLen + i \in 0 .. data - 1
                 /\ buffer[readPos + (processLen + i)] = Offset[h] + i
      <4>1. processLen + i \in 0 .. data - 1
        BY <2>3, <2>8 DEF left
      <4>2. buffer[readPos + (processLen + i)] = Consumed + (processLen + i)
        BY <2>3, <4>1 DEF data
      <4>3. Consumed \in Int
        BY <2>3, <2>4, <2>8
      <4>4. QED BY <2>3, <2>5, <4>1, <4>2, <4>3
    <3>2. ASSUME IsServer, Server!EndRecv, left = 0
          PROVE  readPos' = 0 /\ writePos' = 0 /\ buffer' = buffer
      BY <3>2 DEF Server!EndRecv, Server!Clean, Server!DataSize, left, data
    <3>3. ASSUME IsServer, Server!EndRecv, left # 0
          PROVE  readPos' = readPos + processLen /\ writePos' = writePos /\ buffer' = buffer
      <4>1. ~(Server!FreeSize < Server!bufferSize)
        BY <2>3, <2>4, <3>3 DEF Server!FreeSize, Server!bufferSize, Cap
      <4>2. QED BY <3>3, <4>1 DEF Server!EndRecv, Server!Clean, Server!DataSize, left, data
    <3>4. ASSUME IsClient, Client!EndRecv
          PROVE  /\ readPos' = 0 /\ writePos' = left
                 /\ buffer' = [i \in DOMAIN buffer |->
                                  IF i < left THEN buffer[(writePos - left) + i] ELSE buffer[i]]
      BY <3>4 DEF Client!EndRecv, Client!Clean, Client!MoveToFront, Client!DataSize, left, data
    <3>5. CASE IsServer /\ Server!EndRecv /\ left = 0
      BY <2>3, <2>4, <2>8, <3>2, <3>5 DEF IsServer, IsClient
    <3>6. CASE IsServer /\ Server!EndRecv /\ left # 0
      <4>1. readPos' = readPos + processLen /\ writePos' = writePos /\ buffer' = buffer
        BY <3>3, <3>6
      <4>2. writePos' - readPos' = left /\ readPos' <= writePos' /\ readPos' # writePos'
        BY <2>3, <2>8, <3>6, <4>1 DEF left, data
      <4>3. \A i \in 0 .. left - 1 : readPos' + i = readPos + (processLen + i)
        BY <2>3, <2>8, <4>1
      <4>4. \A i \in 0 .. left - 1 : buffer'[readPos' + i] = Offset[h] + i
        BY <3>1, <4>1, <4>3
      <4>5. ~IsClient
        BY <3>6 DEF IsServer, IsClient
      <4>6. QED BY <2>3, <4>1, <4>2, <4>4, <4>5
    <3>7. CASE IsClient /\ Client!EndRecv
      <4>1. /\ readPos' = 0 /\ writePos' = left
            /\ buffer' = [i \in 0 .. Cap - 1 |->
                             IF i < left THEN buffer[(writePos - left) + i] ELSE buffer[i]]
        BY <2>3, <3>4, <3>7
      <4>2. \A i \in 0 .. left - 1 : /\ (writePos - left) + i = readPos + (processLen + i)
                                     /\ i \in 0 .. Cap - 1
        BY <2>3, <2>4, <2>8 DEF left, data
      <4>3. \A i \in 0 .. left - 1 : buffer'[i] = Offset[h] + i
        <5>1. ASSUME NEW i \in 0 .. left - 1
              PROVE  buffer'[i] = Offset[h] + i
          <6>1. i < left
            BY <2>8
          <6>2. buffer'[i] = buffer[(writePos - left) + i]
            BY <4>1, <4>2, <6>1
          <6>3. (writePos - left) + i = readPos + (processLen + i)
            BY <4>2
          <6>4. QED BY <3>1, <6>2, <6>3
        <5>2. QED BY <5>1
      <4>4. buffer' \in [0 .. Cap - 1 -> Nat]
        <5>1. \A i \in 0 .. Cap - 1 : i < left => buffer[(writePos - left) + i] \in Nat
          <6>1. ASSUME NEW i \in 0 .. Cap - 1, i < left
                PROVE  (writePos - left) + i \in 0 .. Cap - 1
            BY <2>3, <2>4, <2>8, <6>1 DEF left, data
          <6>2. QED BY <2>3, <6>1
        <5>2. QED BY <2>3, <4>1, <5>1
      <4>5. writePos' - readPos' = left /\ readPos' <= writePos'
        BY <2>8, <4>1
      <4>6. \A i \in 0 .. left - 1 : buffer'[readPos' + i] = Offset[h] + i
        BY <2>8, <4>1, <4>3
      <4>7. QED BY <2>8, <4>1, <4>4, <4>5, <4>6
    <3>8. QED BY <1>ends, <3>5, <3>6, <3>7
  <2>10. Consumed' = Offset[h] /\ Upto' = Offset[h]
    <3>1. Offset[h] \in Nat
      BY <1>ends, <1>offsets, <2>4 DEF h
    <3>2. received - left = Offset[h]
      BY <2>3, <2>4, <2>5, <2>8, <3>1 DEF left
    <3>3. Consumed' = received - left
      BY <2>1, <2>9 DEF Consumed
    <3>4. QED BY <2>2, <3>1, <3>2, <3>3 DEF Upto
  <2>11. StreamTypes'
    <3>1. /\ side' \in {"server", "client"} /\ sent' \in Seq(SideSizes')
          /\ hangup' \in BOOLEAN /\ isConnected' \in BOOLEAN
      BY <1>ends, <2>1, <2>6 DEF StreamInv, StreamTypes
    <3>2. received' \in Nat /\ processLen' \in Nat
      BY <2>1, <2>3
    <3>3. busy' \in BOOLEAN
      BY <2>2
    <3>4. QED BY <2>6, <2>9, <3>1, <3>2, <3>3 DEF StreamTypes
  <2>12. BufferInv'
    <3>1. writePos' - readPos' <= received' /\ received' <= Offset'[Len(sent')]
      BY <2>1, <2>3, <2>6, <2>8, <2>9
    <3>2. \A i \in 0 .. (writePos' - readPos') - 1 : buffer'[readPos' + i] = Consumed' + i
      BY <2>9, <2>10
    <3>3. QED BY <2>2, <2>6, <2>9, <3>1, <3>2 DEF BufferInv
  <2>13. HandledInv'
    <3>1. /\ handled \in Seq(IF IsServer THEN [packet : Nat, extra : Int] ELSE Nat)
          /\ IsServer => \A i \in 1 .. Len(handled) :
                             /\ handled[i].packet <= i
                             /\ handled[i].extra = 0 => handled[i].packet = i
          /\ IsClient => \A i \in 1 .. Len(handled) : handled[i] = i
      BY <1>ends DEF StreamInv, HandledInv
    <3>2. \A k \in 1 .. Len(sent) : Offset[k] <= received => k <= Len(handled)
      BY <2>7 DEF h
    <3>3. \E j \in 0 .. Len(handled) : Offset[j] = Consumed'
      <4>1. h \in 0 .. Len(handled)
        BY <2>4 DEF h
      <4>2. QED BY <2>10, <4>1
    <3>4. Len(handled) <= Len(sent) /\ Offset[Len(handled)] = Upto'
      BY <2>4, <2>10 DEF h
    <3>5. /\ handled' = handled /\ sent' = sent /\ received' = received
      BY <2>1
    <3>6. QED BY <2>6, <3>1, <3>2, <3>3, <3>4, <3>5 DEF HandledInv
  <2>14. ConnectedInv'
    <3>1. isConnected'
      BY <1>ends, <2>1 DEF StreamInv, ConnectedInv
    <3>2. QED BY <3>1 DEF ConnectedInv
  <2>15. QED BY <2>6, <2>11, <2>12, <2>13, <2>14 DEF StreamInv
<1>stutter. ASSUME StreamInv, UNCHANGED <<vars, side>>
            PROVE  StreamInv'
  <2>1. UNCHANGED <<sent, hangup, received, buffer, readPos, writePos, isConnected, busy,
                    processLen, handled, side>>
    BY <1>stutter DEF vars, peerVars, bufferVars
  <2>2. OffsetInv' /\ Offset' = Offset /\ Cap' = Cap /\ SideSizes' = SideSizes
        /\ (IsServer' <=> IsServer) /\ (IsClient' <=> IsClient)
    BY <1>stutter, <1>same, <2>1
  <2>3. StreamTypes' /\ BufferInv' /\ HandledInv' /\ ConnectedInv'
    BY <1>stutter, <2>1, <2>2
       DEF StreamInv, StreamTypes, BufferInv, HandledInv, ConnectedInv, Upto, Consumed
  <2>4. QED BY <2>2, <2>3 DEF StreamInv
<1>step. StreamInv /\ [Step]_<<vars, side>> => StreamInv'
  <2> SUFFICES ASSUME StreamInv, Step PROVE StreamInv'
    BY <1>stutter
  <2>1. side' = side
    BY DEF Step
  <2>2. CASE IsServer /\ Server!Next
    <3>1. ASSUME NEW size \in Sizes, Server!SendPacket(size)
          PROVE  StreamInv'
      <4>1. SendPacket(size)
        BY <3>1 DEF Server!SendPacket, SendPacket, Server!bufferVars, bufferVars
      <4>2. size \in SideSizes
        BY <2>2 DEF SideSizes
      <4>3. QED BY <1>send, <2>1, <4>1, <4>2
    <3>2. ASSUME Server!Hangup PROVE StreamInv'
      <4>1. Hangup
        BY <3>2 DEF Server!Hangup, Hangup, Server!bufferVars, bufferVars
      <4>2. QED BY <1>hangup, <2>1, <4>1
    <3>3. ASSUME NEW n \in 1 .. Capacity, Server!Receive(n)
          PROVE  StreamInv'
      <4>1. n \in Nat \ {0}
        BY BufferAssumption
      <4>2. QED BY <1>receive, <2>1, <2>2, <3>3, <4>1
    <3>4. QED BY <1>nothing, <1>serverhandles, <1>ends, <2>1, <2>2, <3>1, <3>2, <3>3
              DEF Server!Next, Server!Peer, Server!Worker
  <2>3. CASE IsClient /\ Client!Next
    <3>1. ASSUME NEW size \in ClientSizes, Client!SendPacket(size)
          PROVE  StreamInv'
      <4>1. SendPacket(size)
        BY <3>1 DEF Client!SendPacket, SendPacket, Client!bufferVars, bufferVars
      <4>2. size \in SideSizes
        BY <2>3 DEF SideSizes, IsServer, IsClient
      <4>3. QED BY <1>send, <2>1, <4>1, <4>2
    <3>2. ASSUME Client!Hangup PROVE StreamInv'
      <4>1. Hangup
        BY <3>2 DEF Client!Hangup, Hangup, Client!bufferVars, bufferVars
      <4>2. QED BY <1>hangup, <2>1, <4>1
    <3>3. ASSUME NEW n \in 1 .. ClientCapacity, Client!Receive(n)
          PROVE  StreamInv'
      <4>1. n \in Nat \ {0}
        BY ClientStreamAssumption
      <4>2. QED BY <1>receive, <2>1, <2>3, <3>3, <4>1
    <3>4. QED BY <1>nothing, <1>clienthandles, <1>ends, <2>1, <2>3, <3>1, <3>2, <3>3
              DEF Client!Next, Client!Peer, Client!Worker
  <2>4. QED BY <2>2, <2>3 DEF Step
<1>qed. QED BY <1>init, <1>step, PTL DEF Spec
-----------------------------------------------------------------------------
(* Whatever the sizes of the packets and the cuts of the stream, either     *)
(* buffer holds the bytes received and not yet read, one by one, from where *)
(* a packet begins (CircularBuffer.cpp:23-59, RecvBuffer.cs:33-62).         *)
THEOREM StreamsStayFramed == Spec => []StaysFramed
<1>1. StreamInv => StaysFramed
  <2> SUFFICES ASSUME StreamInv PROVE StaysFramed
    OBVIOUS
  <2>1. /\ writePos <= Cap
        /\ \A i \in 0 .. (writePos - readPos) - 1 : buffer[readPos + i] = Consumed + i
    BY DEF StreamInv, StreamTypes, BufferInv
  <2>2. Offset[Len(handled)] = Upto /\ Len(handled) <= Len(sent)
        /\ Len(handled) \in Nat /\ Len(sent) \in Nat
    <3>1. sent \in Seq(SideSizes)
          /\ handled \in Seq(IF IsServer THEN [packet : Nat, extra : Int] ELSE Nat)
      BY DEF StreamInv, StreamTypes, HandledInv
    <3>2. Len(handled) \in Nat /\ Len(sent) \in Nat
      BY <3>1
    <3>3. QED BY <3>2 DEF StreamInv, HandledInv
  <2>3. Upto \in {Offset[k - 1] : k \in 1 .. Len(sent)} \cup {Offset[Len(sent)]}
    <3>1. CASE Len(handled) = Len(sent)
      BY <2>2, <3>1
    <3>2. CASE Len(handled) < Len(sent)
      <4>1. Len(handled) + 1 \in 1 .. Len(sent) /\ (Len(handled) + 1) - 1 = Len(handled)
        BY <2>2, <3>2
      <4>2. QED BY <2>2, <4>1
    <3>3. QED BY <2>2, <3>1, <3>2
  <2>4. IsServer => Server!Framed
    <3>1. Server!Offset = Offset
      BY DEF Server!Offset, Offset
    <3>2. QED BY <2>1, <2>3, <3>1
              DEF Server!Framed, Server!DataSize, Server!Starts, Server!Streamed, Cap, Consumed,
                  Upto
  <2>5. IsClient => Client!Framed
    <3>1. Client!Offset = Offset
      BY DEF Client!Offset, Offset
    <3>2. IsClient => writePos <= ClientCapacity
      BY <2>1 DEF Cap, IsServer, IsClient
    <3>3. QED BY <2>1, <2>3, <3>1, <3>2
              DEF Client!Framed, Client!DataSize, Client!Starts, Client!Streamed, Consumed, Upto
  <2>6. QED BY <2>4, <2>5 DEF StaysFramed
<1>2. QED BY <1>1, StreamInvariant, PTL
-----------------------------------------------------------------------------
(* However the stream is cut, the server calls as many handlers as there   *)
(* are packets, and what a handler is given is its own packet when nothing *)
(* is behind it, and never a later one (ClientSession.cpp:33, 43).          *)
THEOREM ServerCallsOncePerPacket == Spec => []ServerCountsPackets
<1>1. StreamInv => ServerCountsPackets
  <2>1. Server!Offset = Offset
    BY DEF Server!Offset, Offset
  <2>2. StreamInv /\ IsServer => Server!OncePerPacket
    BY <2>1 DEF StreamInv, HandledInv, Upto, Consumed, Server!OncePerPacket, Server!DataSize
  <2>3. StreamInv /\ IsServer => Server!LonePacketIntact
    BY DEF StreamInv, HandledInv, Server!LonePacketIntact
  <2>4. QED BY <2>2, <2>3 DEF ServerCountsPackets
<1>2. QED BY <1>1, StreamInvariant, PTL
-----------------------------------------------------------------------------
(* The server ends a connection itself only with its buffer full to the    *)
(* last byte and a part of a packet in it, and the client never does        *)
(* (Session.cpp:221, RecvBuffer.cs:33).                                     *)
THEOREM DropsAreForced == Spec => []DropsOnlyWhenFull
<1>1. StreamInv => DropsOnlyWhenFull
  <2> SUFFICES ASSUME StreamInv PROVE DropsOnlyWhenFull
    OBVIOUS
  <2>1. /\ ~isConnected /\ ~hangup => IsServer /\ writePos = Cap /\ readPos < writePos
        /\ readPos \in Nat /\ writePos \in Nat
    BY DEF StreamInv, StreamTypes, ConnectedInv
  <2>2. Capacity \in Nat
    BY BufferAssumption
  <2>3. IsServer => Server!DropsOnlyWhenFull
    BY <2>1, <2>2 DEF Server!DropsOnlyWhenFull, Server!FreeSize, Server!DataSize, Cap
  <2>4. IsClient => isConnected \/ hangup
    BY <2>1 DEF IsServer, IsClient
  <2>5. QED BY <2>3, <2>4 DEF DropsOnlyWhenFull
<1>2. QED BY <1>1, StreamInvariant, PTL
-----------------------------------------------------------------------------
(* The client's receive buffer and loop implement the channel: every step  *)
(* hands on the next packet of the stream, whole, or nothing at all         *)
(* (ServerSession.cs:40-59).                                                *)
THEOREM ClientIsAChannel == Spec => Channel!Spec
<1>1. InitSide => Channel!Init
  BY DEF InitSide, IsServer, IsClient, Server!Init, Client!Init, Channel!Init
<1>2. ASSUME StreamInv, StreamInv', [Step]_<<vars, side>>
      PROVE  [Channel!Next]_<<IF IsClient THEN sent ELSE <<>>,
                              IF IsClient THEN handled ELSE <<>>>>
  <2>1. CASE UNCHANGED <<vars, side>>
    BY <2>1 DEF vars, peerVars, IsClient
  <2>2. CASE Step /\ ~IsClient
    BY <2>2 DEF Step, IsClient
  <2>3. CASE Step /\ IsClient
    <3>1. side' = side /\ (IsClient' <=> IsClient) /\ Client!Next
      BY <2>3 DEF Step, IsServer, IsClient
    <3>2. ASSUME NEW size \in ClientSizes, Client!SendPacket(size)
          PROVE  Channel!Next
      BY <2>3, <3>1, <3>2 DEF Client!SendPacket, Channel!Next, Channel!Send
    <3>3. ASSUME Client!OnRecvPacket
          PROVE  Channel!Next
      <4>1. sent' = sent
            /\ handled' = Append(handled, Client!PacketAt(buffer[readPos + processLen]))
        BY <3>3 DEF Client!OnRecvPacket, Client!peerVars
      <4>2. /\ handled \in Seq(Nat) /\ handled' \in Seq(Nat) /\ sent \in Seq(SideSizes)
            /\ Len(handled') <= Len(sent)
            /\ \A i \in 1 .. Len(handled') : handled'[i] = i
        BY <1>2, <2>3, <3>1, <4>1 DEF StreamInv, StreamTypes, HandledInv, IsServer, IsClient
      <4> DEFINE n == Client!PacketAt(buffer[readPos + processLen])
      <4> HIDE DEF n
      <4>3. Len(handled') = Len(handled) + 1 /\ handled'[Len(handled) + 1] = n
        BY <4>1, <4>2 DEF n
      <4>4. n = Len(handled) + 1 /\ Len(handled) < Len(sent)
        BY <4>2, <4>3
      <4>5. QED BY <2>3, <3>1, <4>1, <4>4 DEF Channel!Next, Channel!Deliver, n
    <3>4. Client!Hangup \/ Client!ReceiveNothing \/ Client!EndRecv
            \/ (\E n \in 1 .. ClientCapacity : Client!Receive(n))
          => sent' = sent /\ handled' = handled
      BY DEF Client!Hangup, Client!ReceiveNothing, Client!EndRecv, Client!Receive,
             Client!peerVars
    <3>5. QED BY <2>3, <3>1, <3>2, <3>3, <3>4 DEF Client!Next, Client!Peer, Client!Worker
  <2>4. QED BY <1>2, <2>1, <2>2, <2>3
<1>3. QED BY <1>1, <1>2, StreamInvariant, PTL DEF Spec, Channel!Spec
=============================================================================
