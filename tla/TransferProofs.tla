---------------------------- MODULE TransferProofs ----------------------------
(***************************************************************************)
(* What a transfer keeps for any files, names and lengths, whatever fails. *)
(***************************************************************************)
EXTENDS Transfer, SequenceTheorems, TLAPS

\* A queue grows at its end and shrinks at its head.
LEMMA AppendRange ==
  ASSUME NEW S, NEW q \in Seq(S), NEW x
  PROVE  /\ DOMAIN Append(q, x) = DOMAIN q \cup {Len(q) + 1}
         /\ Append(q, x)[Len(q) + 1] = x
         /\ \A i \in DOMAIN q : Append(q, x)[i] = q[i]
OBVIOUS

LEMMA TailRange ==
  ASSUME NEW S, NEW q \in Seq(S), q # <<>>
  PROVE  /\ Tail(q) \in Seq(S) /\ Head(q) \in S /\ 1 \in DOMAIN q /\ Head(q) = q[1]
         /\ \A i \in DOMAIN Tail(q) : i + 1 \in DOMAIN q /\ Tail(q)[i] = q[i + 1]
OBVIOUS

LEMMA InitInv == Init => TransferInv
<1>1. SUFFICES ASSUME Init PROVE TransferInv
  OBVIOUS
<1>2. TypeOK
  <2>1. /\ pc \in [Peer -> Sending \cup Receiving \cup {"receipt", "linger"} \cup Ending]
        /\ pc["send"] \in Sending \cup {"receipt", "linger"} \cup Ending
        /\ pc["recv"] \in Receiving \cup {"receipt", "linger"} \cup Ending
    BY <1>1 DEF Init, Peer, Sending, Receiving
  <2>2. read \in Seq(Chunk) /\ stream \in Seq(Frame) /\ ctl \in [Peer -> Seq(Receipt)]
    BY <1>1 DEF Init
  <2>3. dir \in [Path -> Data \cup {Absent, Foreign}]
    BY <1>1 DEF Init
  <2>4. /\ step \in [Peer -> 0 .. 4] /\ outcome \in [Peer -> {"none", "ok", "failed"}]
        /\ report \in [Peer -> {"none", "ok", "failed"}]
        /\ lease \in [Peer -> {"waiting", "refreshing", "ended"}]
    BY <1>1 DEF Init
  <2>5. /\ disk \in File /\ size \in Nat /\ path \in Path \cup {NoPath} /\ want \in Nat
        /\ keep \in BOOLEAN /\ gone \subseteq Peer /\ lost \in BOOLEAN /\ quiet \in BOOLEAN
    BY <1>1 DEF Init
  <2>6. QED
    BY <2>1, <2>2, <2>3, <2>4, <2>5 DEF TypeOK
<1>3. StreamOK /\ PhaseOK /\ StepOK
  BY <1>1 DEF Init, StreamOK, PhaseOK, StepOK, Peer, At, Receiving
<1>4. FileOK
  BY <1>1 DEF Init, FileOK
<1>5. CompleteOK
  BY <1>1 DEF Init, CompleteOK, Peer, At
<1>6. ReceiptOK
  BY <1>1 DEF Init, ReceiptOK, Peer
<1>7. QED
  BY <1>2, <1>3, <1>4, <1>5, <1>6 DEF TransferInv

-----------------------------------------------------------------------------
\* The sender

LEMMA StatStep ==
  ASSUME TransferInv, Stat PROVE TransferInv'
<1> USE DEF TransferInv, Stat
<1>1. pc["send"] = "stat" /\ pc' = [pc EXCEPT !["send"] = "header"] /\ size' = Len(disk)
  BY DEF At, Goto
<1>2. disk \in Seq(Chunk)
  BY TransferAssumption DEF TypeOK, TransferAssumption
<1>3. TypeOK'
  BY <1>1, <1>2 DEF TypeOK, source, target, receipt, wire, Sending, Peer, Receiving, Ending
<1>4. ~keep /\ pc["recv"] # "eof"
  BY <1>1 DEF CompleteOK, Complete, Sending, At
<1>5. pc'["recv"] = pc["recv"] /\ pc'["send"] = "header"
  BY <1>1 DEF TypeOK, Peer
<1>6. StreamOK'
  BY <1>1, <1>5 DEF StreamOK, Sending
<1>7. FileOK' /\ PhaseOK'
  BY <1>5 DEF FileOK, PhaseOK, target, Got
<1>8. CompleteOK'
  BY <1>4, <1>5 DEF CompleteOK, target, At
<1>9. ReceiptOK'
  BY DEF ReceiptOK, target, receipt
<1>10. StepOK'
  BY <1>1, <1>5 DEF StepOK, Peer, receipt, At, Working, Sending
<1>11. QED
  BY <1>3, <1>6, <1>7, <1>8, <1>9, <1>10

\* A frame appended to the stream that is no trailer.
LEMMA StreamGrows ==
  ASSUME StreamOK, stream \in Seq(Frame), NEW f \in Frame, stream' = Append(stream, f),
         f.kind # "trailer", pc["send"] \notin Sending => pc'["send"] \notin Sending,
         size' = size, pc["send"] \notin Sending => read' = read
  PROVE  StreamOK' /\ stream' \in Seq(Frame)
<1>1. stream' \in Seq(Frame)
  OBVIOUS
<1>2. ASSUME NEW i \in DOMAIN stream', stream'[i].kind = "trailer"
      PROVE  /\ pc'["send"] \notin Sending /\ stream'[i].size = size'
             /\ stream'[i].digest = read'
  <2>1. i \in DOMAIN stream /\ stream'[i] = stream[i]
    BY <1>2, AppendRange
  <2>2. QED
    BY <1>2, <2>1 DEF StreamOK
<1>3. QED
  BY <1>1, <1>2 DEF StreamOK

LEMMA FrameKinds ==
  /\ Fin \in Frame /\ Reset \in Frame /\ Fin.kind = "fin" /\ Reset.kind = "reset"
  /\ \A n \in Nat : [kind |-> "header", size |-> n] \in Frame
  /\ \A c \in Chunk : [kind |-> "data", chunk |-> c] \in Frame
  /\ \A n \in Nat, d \in Seq(Chunk) : [kind |-> "trailer", size |-> n, digest |-> d] \in Frame
BY DEF Frame, Fin, Reset

LEMMA SendHeaderStep ==
  ASSUME TransferInv, SendHeader PROVE TransferInv'
<1> USE DEF TransferInv, SendHeader
<1>1. pc["send"] = "header" /\ pc' = [pc EXCEPT !["send"] = "chunks"]
  BY DEF At, Goto
<1>2. StreamOK' /\ stream' \in Seq(Frame)
  <2>1. [kind |-> "header", size |-> size] \in Frame
    BY FrameKinds DEF TypeOK
  <2>2. QED
    BY <1>1, <2>1, StreamGrows DEF TypeOK, source, Sending
<1>3. TypeOK'
  BY <1>1, <1>2 DEF TypeOK, source, target, receipt, wire, Sending, Peer, Receiving, Ending
<1>4. ~keep /\ pc["recv"] # "eof"
  BY <1>1 DEF CompleteOK, Complete, Sending, At
<1>5. pc'["recv"] = pc["recv"] /\ pc'["send"] = "chunks"
  BY <1>1 DEF TypeOK, Peer
<1>7. FileOK' /\ PhaseOK'
  BY <1>5 DEF FileOK, PhaseOK, target, Got
<1>8. CompleteOK'
  BY <1>4, <1>5 DEF CompleteOK, target, At
<1>9. ReceiptOK'
  BY DEF ReceiptOK, target, receipt
<1>10. StepOK'
  BY <1>1, <1>5 DEF StepOK, Peer, receipt, At, Working, Sending
<1>11. QED
  BY <1>2, <1>3, <1>7, <1>8, <1>9, <1>10

LEMMA SendChunkStep ==
  ASSUME TransferInv, SendChunk PROVE TransferInv'
<1> USE DEF TransferInv, SendChunk
<1>1. pc["send"] = "chunks" /\ pc' = pc /\ disk' = disk /\ size' = size
  BY DEF At
<1>2. PICK chunk : chunk = disk[Len(read) + 1]
  OBVIOUS
<1>3. /\ read' = Append(read, chunk)
      /\ stream' = Append(stream, [kind |-> "data", chunk |-> chunk])
  BY <1>2
<1>4. chunk \in Chunk
  <2>1. disk \in Seq(Chunk) /\ read \in Seq(Chunk) /\ Len(read) < Len(disk)
    BY TransferAssumption DEF TypeOK, TransferAssumption
  <2>2. QED
    BY <1>2, <2>1
<1>5. StreamOK' /\ stream' \in Seq(Frame)
  <2>1. [kind |-> "data", chunk |-> chunk] \in Frame
    BY <1>4, FrameKinds
  <2>2. QED
    BY <1>1, <1>3, <2>1, StreamGrows DEF TypeOK, Sending
<1>6. read' \in Seq(Chunk)
  BY <1>3, <1>4 DEF TypeOK
<1>7. TypeOK'
  BY <1>1, <1>5, <1>6 DEF TypeOK, target, receipt, wire, Peer
<1>8. ~keep /\ pc["recv"] # "eof"
  BY <1>1 DEF CompleteOK, Complete, Sending, At
<1>9. FileOK' /\ PhaseOK'
  BY <1>1 DEF FileOK, PhaseOK, target, Got
<1>10. CompleteOK'
  BY <1>1, <1>8 DEF CompleteOK, target, At
<1>11. ReceiptOK' /\ StepOK'
  BY <1>1 DEF ReceiptOK, StepOK, target, receipt, At, Working
<1>12. QED
  BY <1>5, <1>7, <1>9, <1>10, <1>11

LEMMA SendTrailerStep ==
  ASSUME TransferInv, SendTrailer PROVE TransferInv'
<1> USE DEF TransferInv, SendTrailer
<1>1. /\ pc["send"] = "chunks" /\ pc' = [pc EXCEPT !["send"] = "receipt"]
      /\ outcome' = [outcome EXCEPT !["send"] = outcome["send"]] /\ size' = size /\ read' = read
  BY DEF At, Goto, AfterTrailer, source
<1>2. PICK f : f = [kind |-> "trailer", size |-> size, digest |-> read]
  OBVIOUS
<1>3. stream' = Append(Append(stream, f), Fin)
  <2>1. stream' = stream \o <<f, Fin>>
    BY <1>2
  <2>2. QED
    BY <2>1 DEF TypeOK
<1>4. f \in Frame /\ f.kind = "trailer" /\ f.size = size /\ f.digest = read
  BY <1>2, FrameKinds DEF TypeOK
<1>5. pc'["recv"] = pc["recv"] /\ pc'["send"] = "receipt" /\ outcome' = outcome
  BY <1>1 DEF TypeOK, Peer
<1>6. \A i \in DOMAIN stream : stream[i].kind # "trailer"
  BY <1>1 DEF StreamOK, Sending
<1>7. PICK s : s = Append(stream, f)
  OBVIOUS
<1>8. s \in Seq(Frame) /\ stream' = Append(s, Fin) /\ stream' \in Seq(Frame)
  BY <1>3, <1>4, <1>7, FrameKinds DEF TypeOK
<1>9. StreamOK'
  <2>1. ASSUME NEW i \in DOMAIN stream', stream'[i].kind = "trailer" PROVE stream'[i] = f
    <3>1. i \in DOMAIN s /\ stream'[i] = s[i]
      BY <1>8, <2>1, AppendRange, FrameKinds
    <3>2. QED
      BY <1>6, <1>7, <2>1, <3>1, AppendRange DEF TypeOK
  <2>2. pc'["send"] \notin Sending
    BY <1>5 DEF Sending
  <2>3. QED
    BY <1>1, <1>4, <2>1, <2>2 DEF StreamOK
<1>10. TypeOK'
  BY <1>1, <1>5, <1>8 DEF TypeOK, source, target, receipt, wire, Sending, Peer, Receiving, Ending
<1>11. ~keep /\ pc["recv"] # "eof"
  BY <1>1 DEF CompleteOK, Complete, Sending, At
<1>12. FileOK' /\ PhaseOK'
  BY <1>5 DEF FileOK, PhaseOK, target, Got
<1>13. CompleteOK'
  BY <1>5, <1>11 DEF CompleteOK, target, At
<1>14. ReceiptOK'
  BY <1>5 DEF ReceiptOK, target, receipt
<1>15. StepOK'
  <2>1. step["send"] = 0
    BY <1>11 DEF ReceiptOK, TypeOK, Peer
  <2>2. outcome["send"] # "ok"
    BY <1>1 DEF StepOK, Peer, Working, Sending
  <2>3. QED
    BY <1>5, <2>1, <2>2 DEF StepOK, Peer, receipt, At, Working
<1>16. QED
  BY <1>9, <1>10, <1>12, <1>13, <1>14, <1>15

-----------------------------------------------------------------------------
\* The receiver

\* A frame read from the stream.
LEMMA StreamShrinks ==
  ASSUME StreamOK, stream \in Seq(Frame), stream # <<>>, stream' = Tail(stream),
         pc'["send"] = pc["send"], size' = size, read' = read
  PROVE  StreamOK' /\ stream' \in Seq(Frame)
<1>1. stream' \in Seq(Frame)
  BY TailRange
<1>2. ASSUME NEW i \in DOMAIN stream' PROVE \E j \in DOMAIN stream : stream'[i] = stream[j]
  BY TailRange
<1>3. QED
  BY <1>1, <1>2 DEF StreamOK

LEMMA ReceiveHeaderStep ==
  ASSUME TransferInv, ReceiveHeader PROVE TransferInv'
<1> USE DEF TransferInv, ReceiveHeader
<1>1. /\ pc["recv"] = "header" /\ pc' = [pc EXCEPT !["recv"] = "reserve"]
      /\ size' = size /\ read' = read /\ disk' = disk
  BY DEF At, Goto, source, Takes
<1>2. pc'["send"] = pc["send"] /\ pc'["recv"] = "reserve"
  BY <1>1 DEF TypeOK, Peer
<1>3. stream # <<>> /\ stream' = Tail(stream) /\ Head(stream).kind = "header"
  BY DEF Takes
<1>4. StreamOK' /\ stream' \in Seq(Frame)
  BY <1>1, <1>2, <1>3, StreamShrinks DEF TypeOK
<1>5. want' \in Nat
  <2>1. Head(stream) \in Frame
    BY <1>3, TailRange DEF TypeOK
  <2>2. QED
    BY <1>3, <2>1 DEF Frame, Fin, Reset
<1>6. TypeOK'
  BY <1>1, <1>4, <1>5 DEF TypeOK, receipt, wire, Sending, Peer, Receiving, Ending
<1>7. ~keep /\ path = NoPath
  BY <1>1 DEF PhaseOK, Receiving
<1>8. FileOK' /\ PhaseOK'
  BY <1>1, <1>2, <1>7 DEF FileOK, PhaseOK, Receiving, Got
<1>9. CompleteOK'
  BY <1>2, <1>7 DEF CompleteOK, At
<1>10. ReceiptOK'
  BY DEF ReceiptOK, receipt
<1>11. StepOK'
  BY <1>1, <1>2 DEF StepOK, Peer, receipt, At, Working, Receiving
<1>12. QED
  BY <1>4, <1>6, <1>8, <1>9, <1>10, <1>11

LEMMA ReserveStep ==
  ASSUME TransferInv, Reserve PROVE TransferInv'
<1> USE DEF TransferInv, Reserve
<1>1. PICK n \in Path : Free(n) /\ path' = n /\ dir' = [dir EXCEPT ![n] = <<>>]
  OBVIOUS
<1>2. PICK l : l = FirstPhase
  OBVIOUS
<1>3. l \in {"trailer", "data"} /\ (l = "trailer" => want = 0)
  BY <1>2 DEF FirstPhase
<1>4. /\ pc["recv"] = "reserve" /\ pc' = [pc EXCEPT !["recv"] = l]
      /\ size' = size /\ read' = read /\ disk' = disk
  BY <1>2 DEF At, Goto, source
<1>5. pc'["send"] = pc["send"] /\ pc'["recv"] = l
  BY <1>4 DEF TypeOK, Peer
<1>6. ~keep /\ path = NoPath /\ n # NoPath
  BY <1>4, TransferAssumption DEF PhaseOK, Receiving, TransferAssumption
<1>7. dir'[n] = <<>> /\ <<>> \in Data /\ \A m \in Path \ {n} : dir'[m] = dir[m]
  BY <1>1 DEF TypeOK, Data
<1>8. dir' \in [Path -> Data \cup {Absent, Foreign}]
  BY <1>1, <1>7 DEF TypeOK
<1>9. TypeOK'
  BY <1>1, <1>3, <1>4, <1>8 DEF TypeOK, receipt, wire, Sending, Peer, Receiving, Ending
<1>10. StreamOK'
  BY <1>4, <1>5 DEF StreamOK
<1>11. FileOK'
  BY <1>1, <1>3, <1>4, <1>5, <1>6, <1>7, TransferAssumption DEF FileOK, Got, Receiving, TransferAssumption
<1>12. PhaseOK'
  BY <1>1, <1>3, <1>5, <1>6, <1>7 DEF PhaseOK, Got, Receiving
<1>13. CompleteOK'
  BY <1>3, <1>5, <1>6 DEF CompleteOK, At
<1>14. ReceiptOK'
  BY DEF ReceiptOK, receipt
<1>15. StepOK'
  BY <1>3, <1>4, <1>5 DEF StepOK, Peer, receipt, At, Working, Receiving
<1>16. QED
  BY <1>9, <1>10, <1>11, <1>12, <1>13, <1>14, <1>15

\* What a frame adds to the file.
LEMMA BlocksType ==
  ASSUME NEW f \in Frame, f.kind \in {"data", "trailer"}
  PROVE  Blocks(f) \in Data /\ Len(Blocks(f)) \in Nat
<1>1. CASE f.kind = "data"
  <2>1. f.chunk \in Chunk
    BY <1>1 DEF Frame, Fin, Reset
  <2>2. QED
    BY <1>1, <2>1 DEF Blocks, Data
<1>2. CASE f.kind = "trailer"
  <2>1. Blocks(f) = [i \in 1 .. TrailerLength |-> Trailer] /\ TrailerLength \in Nat
    BY <1>2, TransferAssumption DEF Blocks, TransferAssumption
  <2>2. QED
    BY <2>1 DEF Data
<1>3. QED
  BY <1>1, <1>2

LEMMA ReceiveDataStep ==
  ASSUME TransferInv, ReceiveData PROVE TransferInv'
<1> USE DEF TransferInv, ReceiveData
<1>1. /\ pc["recv"] = "data" /\ stream # <<>> /\ stream' = Tail(stream)
      /\ Head(stream).kind \in {"data", "trailer"}
  BY DEF Takes, At
<1>2. PICK b : b = Blocks(Head(stream))
  OBVIOUS
<1>3. PICK g : g = Got
  OBVIOUS
<1>4. PICK l : l = IF Len(g \o b) < want THEN "data" ELSE "trailer"
  OBVIOUS
<1>5. /\ pc' = [pc EXCEPT !["recv"] = l] /\ dir' = [dir EXCEPT ![path] = g \o b]
      /\ size' = size /\ read' = read /\ disk' = disk
  BY <1>2, <1>3, <1>4 DEF Goto, source
<1>6. pc'["send"] = pc["send"] /\ pc'["recv"] = l
  BY <1>5 DEF TypeOK, Peer
<1>7. ~keep /\ path # NoPath /\ path \in Path
  BY <1>1 DEF PhaseOK, Receiving, TypeOK
<1>8. g \in Data /\ b \in Data /\ Len(g) + Len(b) <= want
  <2>1. Head(stream) \in Frame
    BY <1>1, TailRange DEF TypeOK
  <2>2. QED
    BY <1>1, <1>2, <1>3, <1>7, <2>1, BlocksType DEF FileOK, Receiving, Fits
<1>9. g \o b \in Data /\ Len(g \o b) = Len(g) + Len(b)
  BY <1>8 DEF Data
<1>10. /\ dir'[path] = g \o b /\ \A m \in Path \ {path} : dir'[m] = dir[m]
       /\ dir' \in [Path -> Data \cup {Absent, Foreign}]
  BY <1>5, <1>7, <1>9 DEF TypeOK
<1>11. l \in {"data", "trailer"} /\ (l = "trailer" => Len(g \o b) = want)
  <2>1. Len(g \o b) \in Nat /\ want \in Nat
    BY <1>9 DEF TypeOK, Data
  <2>2. QED
    BY <1>4, <1>8, <1>9, <2>1
<1>12. StreamOK' /\ stream' \in Seq(Frame)
  BY <1>1, <1>5, <1>6, StreamShrinks DEF TypeOK
<1>13. TypeOK'
  BY <1>5, <1>10, <1>11, <1>12 DEF TypeOK, receipt, wire, Sending, Peer, Receiving, Ending
<1>14. FileOK'
  BY <1>1, <1>6, <1>7, <1>9, <1>10, <1>11 DEF FileOK, Got, Receiving
<1>15. PhaseOK'
  BY <1>6, <1>7, <1>10, <1>11 DEF PhaseOK, Got, Receiving
<1>16. CompleteOK'
  BY <1>6, <1>7, <1>11 DEF CompleteOK, At
<1>17. ReceiptOK'
  BY DEF ReceiptOK, receipt
<1>18. StepOK'
  BY <1>1, <1>6, <1>11 DEF StepOK, Peer, receipt, At, Working, Receiving
<1>19. QED
  BY <1>12, <1>13, <1>14, <1>15, <1>16, <1>17, <1>18

LEMMA ReceiveTrailerStep ==
  ASSUME TransferInv, ReceiveTrailer PROVE TransferInv'
<1> USE DEF TransferInv, ReceiveTrailer
<1>1. /\ pc["recv"] = "trailer" /\ pc' = [pc EXCEPT !["recv"] = "eof"]
      /\ size' = size /\ read' = read /\ disk' = disk
      /\ dir' = dir /\ path' = path /\ want' = want /\ keep' = keep
  BY DEF At, Goto, source, target, Takes
<1>2. pc'["send"] = pc["send"] /\ pc'["recv"] = "eof"
  BY <1>1 DEF TypeOK, Peer
<1>3. stream # <<>> /\ stream' = Tail(stream) /\ Head(stream).kind = "trailer"
  BY DEF Takes
<1>4. StreamOK' /\ stream' \in Seq(Frame)
  BY <1>1, <1>2, <1>3, StreamShrinks DEF TypeOK
<1>5. Head(stream) = stream[1] /\ 1 \in DOMAIN stream
  BY <1>3, TailRange DEF TypeOK
<1>6. Complete
  <2>1. /\ pc["send"] \notin Sending /\ Head(stream).size = size
        /\ Head(stream).digest = read
    BY <1>3, <1>5 DEF StreamOK
  <2>2. path # NoPath /\ Len(Got) = want
    BY <1>1 DEF PhaseOK
  <2>3. QED
    BY <2>1, <2>2 DEF Complete, Verified
<1>7. TypeOK'
  BY <1>1, <1>4 DEF TypeOK, receipt, wire, Sending, Peer, Receiving, Ending
<1>8. FileOK'
  BY <1>1, <1>2 DEF FileOK, Got, Receiving
<1>9. PhaseOK'
  BY <1>1, <1>2 DEF PhaseOK, Got, Receiving
<1>10. CompleteOK'
  BY <1>1, <1>2, <1>6 DEF CompleteOK, Complete, Got
<1>11. ReceiptOK'
  BY <1>1 DEF ReceiptOK, receipt
<1>12. StepOK'
  BY <1>1, <1>2 DEF StepOK, Peer, receipt, At, Working, Receiving
<1>13. QED
  BY <1>4, <1>7, <1>8, <1>9, <1>10, <1>11, <1>12

LEMMA ReceiveEOFStep ==
  ASSUME TransferInv, ReceiveEOF PROVE TransferInv'
<1> USE DEF TransferInv, ReceiveEOF
<1>1. /\ pc["recv"] = "eof" /\ pc' = [pc EXCEPT !["recv"] = "receipt"]
      /\ size' = size /\ read' = read /\ disk' = disk
  BY DEF At, Goto, source, Takes
<1>2. pc'["send"] = pc["send"] /\ pc'["recv"] = "receipt"
  BY <1>1 DEF TypeOK, Peer
<1>3. stream # <<>> /\ stream' = Tail(stream)
  BY DEF Takes
<1>4. StreamOK' /\ stream' \in Seq(Frame)
  BY <1>1, <1>2, <1>3, StreamShrinks DEF TypeOK
<1>5. Complete
  BY <1>1 DEF CompleteOK, At
<1>6. TypeOK'
  BY <1>1, <1>4 DEF TypeOK, receipt, wire, Sending, Peer, Receiving, Ending
<1>7. FileOK'
  BY <1>1, <1>2 DEF FileOK, Got, Receiving
<1>8. PhaseOK'
  BY <1>2 DEF PhaseOK, Receiving
<1>9. CompleteOK'
  BY <1>1, <1>2, <1>5 DEF CompleteOK, Complete, Got
<1>10. ReceiptOK'
  BY DEF ReceiptOK, receipt
<1>11. StepOK'
  <2>1. step["recv"] < 4
    <3>1. step["recv"] # 4
      <4>1. ASSUME step["recv"] = 4 PROVE FALSE
        BY <1>1, <4>1, <1>5 DEF ReceiptOK, StepOK, Peer, PhaseOK, Receiving
      <4>2. QED
        BY <4>1
    <3>2. QED
      BY <3>1 DEF TypeOK, Peer
  <2>2. QED
    BY <1>1, <1>2, <2>1 DEF StepOK, Peer, receipt, At, Working, Receiving
<1>12. QED
  BY <1>4, <1>6, <1>7, <1>8, <1>9, <1>10, <1>11

-----------------------------------------------------------------------------
\* Failures

LEMMA FailStep ==
  ASSUME TransferInv, NEW p \in Peer, Working(p), Fail(p), quiet' \in BOOLEAN
  PROVE  TransferInv'
<1> USE DEF TransferInv, Fail
<1>1. /\ pc' = [pc EXCEPT ![p] = "unlease"] /\ outcome' = [outcome EXCEPT ![p] = "failed"]
      /\ size' = size /\ read' = read /\ disk' = disk
  BY DEF Goto, source
<1>2. /\ pc'[p] = "unlease" /\ \A q \in Peer \ {p} : pc'[q] = pc[q]
      /\ outcome'[p] = "failed" /\ \A q \in Peer \ {p} : outcome'[q] = outcome[q]
  BY <1>1 DEF TypeOK
<1>3. stream' = stream \/ \E last \in {Fin, Reset} : stream' = Append(stream, last)
  OBVIOUS
<1>4. pc["send"] \notin Sending => pc'["send"] \notin Sending
  BY <1>2 DEF Sending, Peer
<1>5. StreamOK' /\ stream' \in Seq(Frame)
  <2>1. CASE stream' = stream
    BY <1>1, <1>4, <2>1 DEF StreamOK, TypeOK
  <2>2. CASE \E last \in {Fin, Reset} : stream' = Append(stream, last)
    BY <1>1, <1>4, <2>2, StreamGrows, FrameKinds DEF TypeOK
  <2>3. QED
    BY <1>3, <2>1, <2>2
<1>6. \A n \in Path : dir'[n] = IF Removes(p) /\ n = path THEN Absent ELSE dir[n]
  BY DEF TypeOK
<1>7. Removes(p) => p = "recv" /\ path \in Path /\ ~keep
  BY DEF Removes, TypeOK
<1>8. dir' \in [Path -> Data \cup {Absent, Foreign}]
  BY <1>7 DEF TypeOK
<1>9. TypeOK'
  <2>1. gone' \subseteq Peer
    BY DEF TypeOK
  <2>2. QED
    BY <1>1, <1>5, <1>8, <2>1 DEF TypeOK, receipt, Sending, Peer, Receiving, Ending
<1>10. FileOK'
  <2>1. CASE p = "send"
    BY <1>2, <1>6, <1>7, <2>1 DEF FileOK, Got, Peer, TypeOK
  <2>2. CASE p = "recv"
    <3>1. pc'["recv"] \notin Receiving
      BY <1>2, <2>2 DEF Receiving
    <3>2. ASSUME ~keep, NEW n \in Path, dir[n] \notin {Absent, Foreign}
          PROVE  dir'[n] = Absent
      <4>1. n = path /\ path # NoPath
        BY <3>2, TransferAssumption DEF FileOK, TransferAssumption
      <4>2. QED
        BY <1>6, <2>2, <3>2, <4>1 DEF Removes
    <3>3. CASE keep
      BY <1>6, <1>7, <3>1, <3>3 DEF FileOK, Got, TypeOK
    <3>4. CASE ~keep
      BY <1>6, <3>1, <3>2, <3>4 DEF FileOK
    <3>5. QED
      BY <3>3, <3>4
  <2>3. QED
    BY <2>1, <2>2 DEF Peer
<1>11. p = "send" => Got' = Got
  BY <1>7 DEF Got
<1>12. PhaseOK'
  <2>1. CASE p = "send"
    BY <1>2, <1>11, <2>1 DEF PhaseOK, Peer
  <2>2. CASE p = "recv"
    BY <1>2, <2>2 DEF PhaseOK, Receiving
  <2>3. QED
    BY <2>1, <2>2 DEF Peer
<1>13. CompleteOK'
  <2>1. CASE p = "send"
    BY <1>1, <1>2, <1>4, <1>11, <2>1 DEF CompleteOK, Complete, Peer, At
  <2>2. CASE p = "recv"
    <3>1. keep => Got' = Got
      BY <1>7 DEF Got
    <3>2. QED
      BY <1>1, <1>2, <1>4, <2>2, <3>1 DEF CompleteOK, Complete, Peer, At
  <2>3. QED
    BY <2>1, <2>2 DEF Peer
<1>14. outcome["send"] = "ok" => outcome'["send"] = "ok"
  BY <1>2 DEF StepOK, Peer
<1>15. ReceiptOK'
  BY <1>14 DEF ReceiptOK, receipt
<1>16. StepOK'
  BY <1>2 DEF StepOK, receipt, At, Working
<1>17. QED
  BY <1>5, <1>9, <1>10, <1>12, <1>13, <1>15, <1>16

-----------------------------------------------------------------------------
\* The receipts

LEMMA OtherPeer == Other("send") = "recv" /\ Other("recv") = "send"
BY DEF Other

\* The peer that speaks at each of the four steps.
LEMMA Speakers ==
  /\ Speaker(1) = "recv" /\ Speaker(2) = "send"
  /\ Speaker(3) = "recv" /\ Speaker(4) = "send"
<1>1. 1 % 2 = 1 /\ 2 % 2 = 0 /\ 3 % 2 = 1 /\ 4 % 2 = 0
  OBVIOUS
<1>2. QED
  BY <1>1 DEF Speaker

LEMMA AdvanceStep ==
  ASSUME TransferInv, NEW p \in Peer, NEW q \in [Peer -> Seq(Receipt)],
         At(p, "receipt"), Advance(p, q),
         UNCHANGED <<source, stream, target, report, lease, wire, quiet>>,
         \A i \in DOMAIN q["send"] : q["send"][i].kind = "receipt" => keep,
         \A i \in DOMAIN q["recv"] :
           q["recv"][i].kind = "receipt" /\ q["recv"][i].role = 4 => outcome'["send"] = "ok",
         p = "send" => keep,
         p = "recv" /\ step["recv"] + 1 = 4 => outcome["send"] = "ok"
  PROVE  TransferInv'
<1> USE DEF TransferInv, Advance
<1>1. step[p] \in 0 .. 3 /\ outcome[p] # "ok" /\ p \in {"send", "recv"} /\ pc[p] = "receipt"
  BY DEF TypeOK, StepOK, Working, At, Peer
<1>2. step'[p] = step[p] + 1 /\ \A r \in Peer \ {p} : step'[r] = step[r]
  BY DEF TypeOK
<1>3. \/ /\ step[p] + 1 = 4 /\ pc' = [pc EXCEPT ![p] = "linger"]
         /\ outcome' = [outcome EXCEPT ![p] = "ok"]
         /\ ctl' = [q EXCEPT ![Other(p)] = Append(q[Other(p)], Fin)]
      \/ step[p] + 1 # 4 /\ pc' = pc /\ outcome' = outcome /\ ctl' = q
  BY DEF LastStep, AfterReceipt, Goto
<1>4. \/ step[p] + 1 = 4 /\ pc'[p] = "linger" /\ outcome'[p] = "ok"
      \/ step[p] + 1 # 4 /\ pc'[p] = pc[p] /\ outcome'[p] = outcome[p]
  BY <1>3 DEF TypeOK
<1>5. \A r \in Peer \ {p} : pc'[r] = pc[r] /\ outcome'[r] = outcome[r]
  BY <1>3 DEF TypeOK
<1>6. \A r \in Peer : ctl'[r] = q[r] \/ ctl'[r] = Append(q[r], Fin)
  BY <1>3
<1>7. Fin \in Receipt /\ Fin.kind = "fin"
  BY DEF Receipt, Fin
<1>8. ctl' \in [Peer -> Seq(Receipt)]
  <2>1. Other(p) \in Peer
    BY <1>1, OtherPeer DEF Peer
  <2>2. Append(q[Other(p)], Fin) \in Seq(Receipt)
    BY <1>7, <2>1
  <2>3. QED
    BY <1>3, <2>1, <2>2
<1>9. ASSUME NEW r \in Peer, NEW i \in DOMAIN ctl'[r], ctl'[r][i].kind = "receipt"
      PROVE  i \in DOMAIN q[r] /\ ctl'[r][i] = q[r][i]
  <2>1. CASE ctl'[r] = q[r]
    BY <1>9, <2>1
  <2>2. CASE ctl'[r] = Append(q[r], Fin)
    <3>1. q[r] \in Seq(Receipt) /\ i \in DOMAIN Append(q[r], Fin)
      BY <1>9, <2>2
    <3>2. PICK s : s = q[r]
      OBVIOUS
    <3>3. s \in Seq(Receipt) /\ i \in DOMAIN Append(s, Fin) /\ ctl'[r] = Append(s, Fin)
      BY <2>2, <3>1, <3>2
    <3>4. i \in DOMAIN s \/ i = Len(s) + 1
      BY <3>3, AppendRange
    <3>5. i # Len(s) + 1
      BY <1>7, <1>9, <3>3, AppendRange
    <3>6. QED
      BY <3>2, <3>3, <3>4, <3>5, AppendRange
  <2>3. QED
    BY <1>6, <2>1, <2>2
<1>10. step' \in [Peer -> 0 .. 4]
  BY <1>1, <1>2 DEF TypeOK
<1>11. TypeOK'
  <2>1. pc' \in [Peer -> Sending \cup Receiving \cup {"receipt", "linger"} \cup Ending]
    BY <1>3 DEF TypeOK
  <2>2. /\ pc'["send"] \in Sending \cup {"receipt", "linger"} \cup Ending
        /\ pc'["recv"] \in Receiving \cup {"receipt", "linger"} \cup Ending
    BY <1>4, <1>5 DEF TypeOK, Peer
  <2>3. outcome' \in [Peer -> {"none", "ok", "failed"}]
    BY <1>3 DEF TypeOK
  <2>4. QED
    BY <1>8, <1>10, <2>1, <2>2, <2>3 DEF TypeOK, source, target, wire
<1>12. /\ pc["send"] \notin Sending => pc'["send"] \notin Sending
       /\ (pc'["recv"] \in Receiving) = (pc["recv"] \in Receiving)
       /\ pc'["recv"] = pc["recv"] \/ (pc["recv"] = "receipt" /\ pc'["recv"] = "linger")
  <2>1. /\ pc["send"] = pc'["send"] \/ pc'["send"] = "linger"
        /\ pc["recv"] = pc'["recv"] \/ (pc["recv"] = "receipt" /\ pc'["recv"] = "linger")
    BY <1>1, <1>4, <1>5 DEF Peer
  <2>2. QED
    BY <2>1 DEF Sending, Receiving
<1>13. StreamOK'
  BY <1>12 DEF StreamOK, source
<1>14. FileOK'
  BY <1>12 DEF FileOK, target, Got
<1>15. PhaseOK'
  BY <1>12 DEF PhaseOK, target, Got
<1>16. CompleteOK'
  BY <1>12 DEF CompleteOK, Complete, target, source, Got, At
<1>17. ReceiptOK'
  <2>1. \A i \in DOMAIN ctl'["send"] : ctl'["send"][i].kind = "receipt" => keep'
    BY <1>9 DEF target, Peer
  <2>2. \A i \in DOMAIN ctl'["recv"] :
          ctl'["recv"][i].kind = "receipt" /\ ctl'["recv"][i].role = 4
            => outcome'["send"] = "ok"
    BY <1>9 DEF Peer
  <2>3. step'["send"] >= 1 => keep'
    BY <1>1, <1>2 DEF ReceiptOK, target, Peer
  <2>4. step'["recv"] = 4 => outcome'["send"] = "ok"
    BY <1>1, <1>2, <1>4, <1>5 DEF ReceiptOK, Peer
  <2>5. QED
    BY <2>1, <2>2, <2>3, <2>4 DEF ReceiptOK
<1>18. StepOK'
  <2>1. At(p, "receipt")' => step'[p] < 4
    BY <1>1, <1>2, <1>4 DEF At
  <2>2. outcome'[p] = "ok" => step'[p] = 4 /\ ~Working(p)'
    BY <1>1, <1>2, <1>4 DEF Working, Sending, Receiving
  <2>3. QED
    BY <1>2, <1>5, <2>1, <2>2 DEF StepOK, At, Working
<1>19. QED
  BY <1>11, <1>13, <1>14, <1>15, <1>16, <1>17, <1>18

\* The messages of a peer are receipts.
LEMMA MessageType ==
  ASSUME TransferInv, NEW p \in Peer, At(p, "receipt"), NEW i \in 1 .. 4
  PROVE  /\ Message(p, i) \in Receipt
         /\ Message(p, i).kind = "receipt" /\ Message(p, i).role = i
<1>1. p = "recv" => Got \in Data
  <2>1. p = "recv" => keep
    BY DEF TransferInv, PhaseOK, At
  <2>2. QED
    BY <2>1 DEF TransferInv, CompleteOK, Complete, FileOK
<1>2. size \in Nat /\ want \in Nat /\ read \in Data
  BY DEF TransferInv, TypeOK, Data
<1>3. PICK n, d : n = (IF p = "send" THEN size ELSE want) /\ d = (IF p = "send" THEN read ELSE Got)
  OBVIOUS
<1>4. Message(p, i) = [kind |-> "receipt", role |-> i, size |-> n, digest |-> d]
  BY <1>3 DEF Message
<1>5. n \in Nat /\ d \in Data
  BY <1>1, <1>2, <1>3 DEF Peer
<1>6. QED
  BY <1>4, <1>5 DEF Receipt

LEMMA NextStep ==
  ASSUME TransferInv, NEW p \in Peer, At(p, "receipt") PROVE step[p] + 1 \in 1 .. 4
<1>1. step[p] \in 0 .. 4
  BY DEF TransferInv, TypeOK
<1>2. step[p] < 4
  BY DEF TransferInv, StepOK
<1>3. QED
  BY <1>1, <1>2

LEMMA SayStep ==
  ASSUME TransferInv, NEW p \in Peer, Say(p) PROVE TransferInv'
<1>1. step[p] + 1 \in 1 .. 4
  BY NextStep DEF Say
<1>2. PICK m : m = Message(p, step[p] + 1)
  OBVIOUS
<1>3. m \in Receipt /\ m.kind = "receipt" /\ m.role = step[p] + 1
  BY <1>1, <1>2, MessageType DEF Say
<1>4. PICK q : q = [ctl EXCEPT ![Other(p)] = Append(ctl[Other(p)], m)]
  OBVIOUS
<1>5. /\ At(p, "receipt") /\ Speaker(step[p] + 1) = p /\ Advance(p, q)
      /\ UNCHANGED <<source, stream, target, report, lease, wire, quiet>>
  BY <1>2, <1>4 DEF Say
<1>6. Other(p) \in Peer /\ ctl \in [Peer -> Seq(Receipt)]
  BY OtherPeer DEF Peer, TransferInv, TypeOK
<1>7. /\ q \in [Peer -> Seq(Receipt)] /\ q[Other(p)] = Append(ctl[Other(p)], m)
      /\ \A r \in Peer \ {Other(p)} : q[r] = ctl[r]
  BY <1>3, <1>4, <1>6
<1>8. CASE p = "send"
  <2>1. step[p] + 1 \in {2, 4}
    BY <1>1, <1>5, <1>8, Speakers
  <2>2. keep
    BY <1>8, <2>1 DEF TransferInv, ReceiptOK, TypeOK, Peer
  <2>3. q["recv"] = Append(ctl["recv"], m) /\ ctl["recv"] \in Seq(Receipt)
    BY <1>6, <1>7, <1>8, OtherPeer DEF Peer
  <2>4. outcome["send"] = "ok" => outcome'["send"] = "ok"
    BY <1>5, <1>8 DEF TransferInv, StepOK, At, Working, Peer
  <2>5. step[p] + 1 = 4 => outcome'["send"] = "ok"
    BY <1>5, <1>8 DEF Advance, LastStep, TransferInv, TypeOK, Peer
  <2>6. ASSUME NEW i \in DOMAIN q["recv"],
               q["recv"][i].kind = "receipt", q["recv"][i].role = 4
        PROVE  outcome'["send"] = "ok"
    <3>1. CASE i \in DOMAIN ctl["recv"]
      BY <2>3, <2>4, <2>6, <3>1, AppendRange DEF TransferInv, ReceiptOK
    <3>2. CASE i = Len(ctl["recv"]) + 1
      BY <1>3, <2>3, <2>5, <2>6, <3>2, AppendRange
    <3>3. QED
      BY <2>3, <2>6, <3>1, <3>2, AppendRange
  <2>7. QED
    BY <1>5, <1>7, <1>8, <2>2, <2>6, AdvanceStep
<1>9. CASE p = "recv"
  <2>1. step[p] + 1 \in {1, 3}
    BY <1>1, <1>5, <1>9, Speakers
  <2>2. keep
    BY <1>5, <1>9 DEF TransferInv, PhaseOK, At
  <2>3. \A i \in DOMAIN q["recv"] :
          q["recv"][i].kind = "receipt" /\ q["recv"][i].role = 4 => outcome["send"] = "ok"
    BY <1>7, <1>9, OtherPeer DEF Peer, TransferInv, ReceiptOK
  <2>4. outcome'["send"] = outcome["send"]
    BY <1>5, <1>9 DEF Advance, TransferInv, TypeOK, Peer
  <2>5. QED
    BY <1>5, <1>7, <1>9, <2>1, <2>2, <2>3, <2>4, AdvanceStep
<1>10. QED
  BY <1>8, <1>9 DEF Peer

LEMMA HearStep ==
  ASSUME TransferInv, NEW p \in Peer, Hear(p) PROVE TransferInv'
<1>1. CASE Expected(p)
  <2>1. step[p] + 1 \in 1 .. 4
    BY NextStep DEF Hear
  <2>2. PICK m : m = Message(p, step[p] + 1)
    OBVIOUS
  <2>3. m \in Receipt /\ m.kind = "receipt" /\ m.role = step[p] + 1
    BY <2>1, <2>2, MessageType DEF Hear
  <2>4. PICK q : q = [ctl EXCEPT ![p] = Tail(ctl[p])]
    OBVIOUS
  <2>5. /\ At(p, "receipt") /\ Speaker(step[p] + 1) # p /\ Advance(p, q) /\ ctl[p] # <<>>
        /\ UNCHANGED <<source, stream, target, report, lease, wire, quiet>>
    BY <1>1, <2>4 DEF Hear
  <2>6. ctl[p] \in Seq(Receipt) /\ ctl \in [Peer -> Seq(Receipt)]
    BY DEF TransferInv, TypeOK
  <2>7. /\ q[p] = Tail(ctl[p]) /\ q \in [Peer -> Seq(Receipt)]
        /\ \A r \in Peer \ {p} : q[r] = ctl[r]
    BY <2>4, <2>5, <2>6, TailRange
  <2>8. 1 \in DOMAIN ctl[p] /\ ctl[p][1] = m
    BY <1>1, <2>2, <2>5, <2>6, TailRange DEF Expected
  <2>9. \A r \in Peer : \A i \in DOMAIN q[r] : \E j \in DOMAIN ctl[r] : q[r][i] = ctl[r][j]
    <3>1. \A i \in DOMAIN q[p] : \E j \in DOMAIN ctl[p] : q[p][i] = ctl[p][j]
      BY <2>5, <2>6, <2>7, TailRange
    <3>2. QED
      BY <2>7, <3>1
  <2>10. \A i \in DOMAIN q["send"] : q["send"][i].kind = "receipt" => keep
    BY <2>9 DEF TransferInv, ReceiptOK, Peer
  <2>11. \A i \in DOMAIN q["recv"] :
           q["recv"][i].kind = "receipt" /\ q["recv"][i].role = 4 => outcome["send"] = "ok"
    BY <2>9 DEF TransferInv, ReceiptOK, Peer
  <2>12. outcome["send"] = "ok" => outcome'["send"] = "ok"
    BY <2>5 DEF Advance, TransferInv, TypeOK, Peer
  <2>13. p = "send" => keep
    BY <2>3, <2>8 DEF TransferInv, ReceiptOK
  <2>14. p = "recv" /\ step["recv"] + 1 = 4 => outcome["send"] = "ok"
    BY <2>3, <2>8 DEF TransferInv, ReceiptOK
  <2>15. QED
    BY <2>5, <2>7, <2>10, <2>11, <2>12, <2>13, <2>14, AdvanceStep
<1>2. CASE ~Expected(p)
  <2>1. Fail(p) /\ Working(p) /\ quiet' \in BOOLEAN
    BY <1>2 DEF Hear, Working, At, TransferInv, TypeOK
  <2>2. QED
    BY <2>1, FailStep
<1>3. QED
  BY <1>1, <1>2

-----------------------------------------------------------------------------
\* The end of Run, and the environment

\* A step of a peer beyond the receipts.
LEMMA LaterStep ==
  ASSUME TransferInv, NEW p \in Peer, NEW l \in Ending, Goto(p, l),
         pc[p] \in {"linger"} \cup Ending,
         UNCHANGED <<source, stream, target, receipt, outcome, lease, lost>>,
         report' \in [Peer -> {"none", "ok", "failed"}], gone' \subseteq Peer,
         quiet' \in BOOLEAN
  PROVE  TransferInv'
<1> USE DEF TransferInv
<1>1. pc' = [pc EXCEPT ![p] = l]
  BY DEF Goto
<1>2. pc'[p] = l /\ \A r \in Peer \ {p} : pc'[r] = pc[r]
  BY <1>1 DEF TypeOK
<1>3. TypeOK'
  <2>1. pc' \in [Peer -> Sending \cup Receiving \cup {"receipt", "linger"} \cup Ending]
    BY <1>1 DEF TypeOK
  <2>2. /\ pc'["send"] \in Sending \cup {"receipt", "linger"} \cup Ending
        /\ pc'["recv"] \in Receiving \cup {"receipt", "linger"} \cup Ending
    BY <1>2 DEF TypeOK, Peer
  <2>3. QED
    BY <2>1, <2>2 DEF TypeOK, source, target, receipt
<1>4. /\ pc["send"] \notin Sending => pc'["send"] \notin Sending
      /\ (pc'["recv"] \in Receiving) = (pc["recv"] \in Receiving)
      /\ pc'["recv"] = pc["recv"] \/ pc'["recv"] \in Ending
  BY <1>2 DEF Sending, Receiving, Ending, Peer
<1>5. StreamOK'
  BY <1>4 DEF StreamOK, source
<1>6. FileOK'
  BY <1>4 DEF FileOK, target, Got
<1>7. PhaseOK'
  BY <1>4 DEF PhaseOK, target, Got, Ending
<1>8. CompleteOK'
  BY <1>4 DEF CompleteOK, Complete, target, source, Got, At, Ending
<1>9. ReceiptOK'
  BY DEF ReceiptOK, target, receipt
<1>10. StepOK'
  BY <1>2 DEF StepOK, receipt, At, Working, Ending, Sending, Receiving
<1>11. QED
  BY <1>3, <1>5, <1>6, <1>7, <1>8, <1>9, <1>10

LEMMA EndLingerStep ==
  ASSUME TransferInv, NEW p \in Peer, EndLinger(p), quiet' \in BOOLEAN PROVE TransferInv'
<1>1. "unlease" \in Ending /\ report' \in [Peer -> {"none", "ok", "failed"}] /\ gone' \subseteq Peer
  BY DEF Ending, EndLinger, TransferInv, TypeOK, wire
<1>2. QED
  BY <1>1, LaterStep DEF EndLinger, At, wire

LEMMA FinishStep ==
  ASSUME TransferInv, NEW p \in Peer, Finish(p) PROVE TransferInv'
<1>1. AfterLease \in Ending /\ AfterReport \in Ending /\ AfterCleanup \in Ending
  BY DEF AfterLease, AfterReport, AfterCleanup, Ending
<1>2. /\ report \in [Peer -> {"none", "ok", "failed"}] /\ gone \subseteq Peer /\ quiet \in BOOLEAN
      /\ outcome[p] \in {"none", "ok", "failed"}
  BY DEF TransferInv, TypeOK
<1>3. CASE StopLease(p)
  BY <1>1, <1>2, <1>3, LaterStep DEF StopLease, At, wire, Ending
<1>4. CASE Report(p)
  <2>1. report' \in [Peer -> {"none", "ok", "failed"}]
    BY <1>2, <1>4 DEF Report
  <2>2. QED
    BY <1>1, <1>2, <1>4, <2>1, LaterStep DEF Report, At, wire, Ending
<1>5. CASE Cleanup(p)
  <2>1. gone' \subseteq Peer
    BY <1>2, <1>5 DEF Cleanup, Closing
  <2>2. QED
    BY <1>1, <1>2, <1>5, <2>1, LaterStep DEF Cleanup, At, Ending
<1>6. QED
  BY <1>3, <1>4, <1>5 DEF Finish

\* What leaves the transfer alone.
LEMMA BesideStep ==
  ASSUME TransferInv, UNCHANGED <<pc, size, read, stream, target, receipt, outcome>>, TypeOK'
  PROVE  TransferInv'
<1> USE DEF TransferInv
<1>1. StreamOK' /\ PhaseOK' /\ StepOK'
  BY DEF StreamOK, PhaseOK, StepOK, target, receipt, Got, At, Working
<1>2. FileOK' /\ CompleteOK'
  BY DEF FileOK, CompleteOK, Complete, target, Got, At
<1>3. ReceiptOK'
  BY DEF ReceiptOK, target, receipt
<1>4. QED
  BY <1>1, <1>2, <1>3

LEMMA AsideStep ==
  ASSUME TransferInv,
         \/ LoseLink \/ Rewrite \/ UNCHANGED vars
         \/ \E p \in Peer : LeaseTick(p) \/ LeaseRefreshed(p) \/ LeaseEnd(p)
  PROVE  TransferInv'
<1>1. CASE LoseLink
  BY <1>1, BesideStep DEF LoseLink, TransferInv, TypeOK, source, target, receipt
<1>2. CASE Rewrite
  BY <1>2, BesideStep DEF Rewrite, TransferInv, TypeOK, target, receipt, wire
<1>3. CASE UNCHANGED vars
  BY <1>3, BesideStep DEF vars, TransferInv, TypeOK, source, target, receipt, wire
<1>4. CASE \E p \in Peer : LeaseTick(p) \/ LeaseRefreshed(p) \/ LeaseEnd(p)
  <2>1. PICK p \in Peer : LeaseTick(p) \/ LeaseRefreshed(p) \/ LeaseEnd(p)
    BY <1>4
  <2>2. \E l \in {"waiting", "refreshing", "ended"} : lease' = [lease EXCEPT ![p] = l]
    BY <2>1 DEF LeaseTick, LeaseRefreshed, LeaseEnd
  <2>3. UNCHANGED <<pc, source, stream, target, receipt, outcome, report, wire, quiet>>
    BY <2>1 DEF LeaseTick, LeaseRefreshed, LeaseEnd
  <2>4. TypeOK'
    BY <2>2, <2>3 DEF TransferInv, TypeOK, source, target, receipt, wire
  <2>5. QED
    BY <2>3, <2>4, BesideStep DEF source
<1>5. QED
  BY <1>1, <1>2, <1>3, <1>4

LEMMA IntrudeStep ==
  ASSUME TransferInv, NEW n \in Path, Intrude(n) PROVE TransferInv'
<1> USE DEF TransferInv, Intrude
<1>1. dir'[n] = Foreign /\ dir[n] = Absent /\ \A m \in Path \ {n} : dir'[m] = dir[m]
  BY DEF TypeOK
<1>2. TypeOK'
  BY DEF TypeOK, source, receipt, wire
<1>3. Absent \notin Data
  BY TransferAssumption DEF TransferAssumption, Data
<1>4. path # NoPath /\ (keep \/ pc["recv"] \in Receiving) => Got' = Got
  BY <1>1, <1>3 DEF FileOK, Got, TypeOK
<1>5. FileOK'
  BY <1>1, <1>4 DEF FileOK
<1>6. PhaseOK'
  BY <1>4 DEF PhaseOK, Receiving
<1>7. CompleteOK'
  BY <1>4 DEF CompleteOK, Complete, At, source, Receiving
<1>8. StreamOK' /\ ReceiptOK' /\ StepOK'
  BY DEF StreamOK, ReceiptOK, StepOK, receipt, source, At, Working
<1>9. QED
  BY <1>2, <1>5, <1>6, <1>7, <1>8

-----------------------------------------------------------------------------
LEMMA NextInv == TransferInv /\ [Next]_vars => TransferInv'
<1>1. SUFFICES ASSUME TransferInv, [Next]_vars PROVE TransferInv'
  OBVIOUS
<1>2. quiet \in BOOLEAN
  BY <1>1 DEF TransferInv, TypeOK
<1>3. CASE Send
  BY <1>1, <1>3, StatStep, SendHeaderStep, SendChunkStep, SendTrailerStep DEF Send
<1>4. CASE Receive
  <2>1. CASE NoDestination \/ RejectFrame
    <3>1. Working("recv") /\ Fail("recv") /\ quiet' \in BOOLEAN
      BY <1>2, <2>1 DEF NoDestination, RejectFrame, Working, At, Receiving
    <3>2. QED
      BY <1>1, <3>1, FailStep DEF Peer
  <2>2. QED
    BY <1>1, <1>4, <2>1, ReceiveHeaderStep, ReserveStep, ReceiveDataStep,
       ReceiveTrailerStep, ReceiveEOFStep DEF Receive
<1>5. ASSUME NEW p \in Peer, NoticeLoss(p) \/ Interrupted(p) PROVE TransferInv'
  BY <1>1, <1>2, <1>5, FailStep DEF NoticeLoss, Interrupted
<1>6. ASSUME NEW p \in Peer, SeeFin(p) \/ LoseLinger(p) \/ LingerTimeout(p) PROVE TransferInv'
  BY <1>1, <1>2, <1>6, EndLingerStep DEF SeeFin, LoseLinger, LingerTimeout
<1>7. QED
  BY <1>1, <1>3, <1>4, <1>5, <1>6, SayStep, HearStep, FinishStep, AsideStep, IntrudeStep
  DEF Next, Confirm, Timers

\* Whatever is lost, cut off or changed during a transfer, the streams, the
\* receipts, the steps of the two peers and the file on disk tell the same story
\* (sendFile, receiveFile and the exchange of receipts in transfer_completion.go).
THEOREM TransferInvariant == Spec => []TransferInv
BY InitInv, NextInv, PTL DEF Spec

\* What a transfer's state may be: every frame and receipt in flight, every file
\* and every outcome has its type.
THEOREM TransferTypes == Spec => []TypeOK
<1>1. TransferInv => TypeOK
  BY DEF TransferInv
<1>2. QED
  BY <1>1, TransferInvariant, PTL

\* A sender that reports success has a receiver with the complete verified file,
\* which holds the blocks it read, also when its own file changed meanwhile.
THEOREM SuccessMeansKept == Spec => []SentIsKept
<1>1. TransferInv => SentIsKept
  BY DEF TransferInv, StepOK, ReceiptOK, CompleteOK, Complete, SentIsKept, Kept, Peer
<1>2. QED
  BY <1>1, TransferInvariant, PTL

\* A receiver that reports success has a sender that does.
THEOREM ReceiverLast == Spec => []ReceiverKnowsLast
<1>1. TransferInv => ReceiverKnowsLast
  BY DEF TransferInv, StepOK, ReceiptOK, ReceiverKnowsLast, Peer
<1>2. QED
  BY <1>1, TransferInvariant, PTL

\* Whatever fails, and when, the receiver leaves no file but a verified one.
THEOREM NoDebrisLeft == Spec => []NoDebris
<1>1. TransferInv => NoDebris
  BY DEF TransferInv, FileOK, CompleteOK, Complete, NoDebris, Got
<1>2. QED
  BY <1>1, TransferInvariant, PTL

\* No step of the receiver overwrites or removes a file of somebody else.
THEOREM ForeignSpared == Spec => NoClobber
<1>1. TransferInv /\ [Next]_vars => [SparesForeign]_vars
  <2>1. SUFFICES ASSUME TransferInv, Next, NEW n \in Path, dir[n] = Foreign
                 PROVE  dir'[n] = Foreign
    BY DEF SparesForeign
  <2>2. dir \in [Path -> Data \cup {Absent, Foreign}] /\ Foreign \notin Data /\ Absent # Foreign
    BY <2>1, TransferAssumption DEF TransferInv, TypeOK, TransferAssumption, Data
  <2>3. ASSUME NEW m \in Path, Free(m), dir' = [dir EXCEPT ![m] = <<>>] PROVE dir'[n] = Foreign
    BY <2>1, <2>2, <2>3 DEF Free
  <2>4. ASSUME ReceiveData PROVE dir'[n] = Foreign
    <3>1. Got \in Data
      BY <2>1, <2>4 DEF ReceiveData, Takes, At, TransferInv, FileOK, PhaseOK, Receiving
    <3>2. QED
      BY <2>1, <2>2, <2>4, <3>1 DEF ReceiveData, Got
  <2>5. ASSUME NEW p \in Peer, Working(p), Fail(p) PROVE dir'[n] = Foreign
    <3>1. CASE Removes(p)
      <4>1. /\ p = "recv" /\ path # NoPath /\ ~keep
            /\ pc["recv"] \in Sending \cup Receiving \cup {"receipt"}
        BY <2>5, <3>1 DEF Removes, Working
      <4>2. pc["recv"] \in Receiving
        BY <2>1, <4>1 DEF TransferInv, TypeOK, PhaseOK, Sending, Receiving, Ending
      <4>3. Got \in Data
        BY <2>1, <4>1, <4>2 DEF TransferInv, FileOK
      <4>4. QED
        BY <2>1, <2>2, <2>5, <4>3 DEF Fail, Got
    <3>2. CASE ~Removes(p)
      BY <2>1, <2>5, <3>2 DEF Fail
    <3>3. QED
      BY <3>1, <3>2
  <2>6. CASE Receive
    BY <2>1, <2>3, <2>4, <2>5, <2>6 DEF Receive, ReceiveHeader, Reserve, NoDestination, RejectFrame,
       ReceiveTrailer, ReceiveEOF, Peer, Working, At, Receiving, target
  <2>7. CASE Send
    BY <2>1, <2>7 DEF Send, Stat, SendHeader, SendChunk, SendTrailer, target
  <2>8. ASSUME NEW p \in Peer, Confirm(p) PROVE dir'[n] = Foreign
    <3>1. ASSUME Hear(p), ~Expected(p) PROVE dir'[n] = Foreign
      BY <2>5, <3>1 DEF Hear, Working, At
    <3>2. QED
      BY <2>1, <2>8, <3>1 DEF Confirm, Say, Hear, SeeFin, LoseLinger, EndLinger, target
  <2>9. ASSUME NEW p \in Peer, NoticeLoss(p) \/ Timers(p) PROVE dir'[n] = Foreign
    BY <2>1, <2>5, <2>9 DEF NoticeLoss, Timers, Interrupted, LingerTimeout, EndLinger, target
  <2>10. ASSUME NEW p \in Peer, Finish(p) \/ LeaseTick(p) \/ LeaseRefreshed(p) \/ LeaseEnd(p)
         PROVE  dir'[n] = Foreign
    BY <2>1, <2>10 DEF Finish, StopLease, Report, Cleanup, LeaseTick, LeaseRefreshed, LeaseEnd,
       target
  <2>11. CASE LoseLink \/ Rewrite \/ \E m \in Path : Intrude(m)
    BY <2>1, <2>2, <2>11 DEF LoseLink, Rewrite, Intrude, target
  <2>12. QED
    BY <2>1, <2>6, <2>7, <2>8, <2>9, <2>10, <2>11 DEF Next
<1>2. QED
  BY <1>1, TransferInvariant, PTL DEF Spec, NoClobber
=============================================================================
