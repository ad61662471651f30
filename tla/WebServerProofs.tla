-------------------------- MODULE WebServerProofs --------------------------
(***************************************************************************)
(* Proofs about WebServer, for any sizes of request, file, buffer and      *)
(* pieces, any URLs and any number of connections.                         *)
(***************************************************************************)
EXTENDS WebServer, Counting, FiniteSetTheorems, SequenceTheorems, TLAPS

(***************************************************************************)
(* The inductive invariant.                                                *)
(***************************************************************************)
Unanswered == {"recv", "parse", "tell"} \cup StatusLines

\* Where the handler is says which status lines it has sent.
Answered ==
  /\ stage \in Unanswered => answers = <<>>
  /\ stage \in {"read", "send"} => answers = <<"send_200">>
  /\ stage = "return" => Len(answers) = 1

\* recv does not return more than the client has sent.
ReadWithin == stage = "recv" => out_request <= stream.len

\* Nothing of the body is sent before the 200 line.
NoBodyYet == stage \in Unanswered => sent = 0 /\ left = 0 /\ file.pos = 0

\* Of a file that nobody changes, the bytes read are those sent and those that send_all
\* still holds, and the end of the file is only met there.
BodyFollowsFile ==
  ~changed =>
    /\ stage \in {"send_200", "read", "send"} =>
         /\ fsize = file.len /\ sent + left = file.pos /\ file.pos <= file.len
         /\ file.eof => file.pos = file.len
    /\ stage = "read" => left = 0

IInv == TypeOK /\ Answered /\ ReadWithin /\ NoBodyYet /\ BodyFollowsFile /\ Framed

-----------------------------------------------------------------------------
\* The server starts with no connection and nothing sent.
LEMMA InitIInv == Init => IInv
<1> SUFFICES ASSUME Init PROVE IInv
  OBVIOUS
<1>1. TypeOK
  <2>1. stage \in Stages BY DEF Init, Stages
  <2>2. stream \in [len : Nat, head : Nat] BY DEF Init, NoStream
  <2>3. file \in [len : Nat, pos : Nat, eof : BOOLEAN] BY DEF Init, NoFile
  <2>4. out_request \in 0..(MAX_REQUEST_SIZE + RecvSize - 1) /\ left \in 0..SEND_BUF_SIZE
    BY WebAssumption DEF Init
  <2>5. answers \in Seq(StatusLines) BY DEF Init
  <2> QED BY <2>1, <2>2, <2>3, <2>4, <2>5 DEF Init, TypeOK
<1>2. stage = "init" BY DEF Init
<1>3. Answered /\ ReadWithin /\ NoBodyYet /\ BodyFollowsFile
  BY <1>2 DEF Answered, ReadWithin, NoBodyYet, BodyFollowsFile, Unanswered, StatusLines
<1>4. Framed BY <1>2 DEF Framed, Init
<1> QED BY <1>1, <1>3, <1>4 DEF IInv

\* Steps of run and of the client that leave the request and the body alone, and do not
\* enter the handler.
LEMMA Outside ==
  ASSUME IInv, UNCHANGED <<open, request, answers, body, changed, failed>>,
         client' \in {"here", "idle", "gone"},
         stage' \in {"accept", "unbound", "ended", "killed"} \/ UNCHANGED stage
  PROVE  IInv'
<1> USE DEF IInv
<1>1. UNCHANGED <<open, stream, out_request, answers, fsize, file, left, sent, changed, failed>>
  BY DEF request, body
<1>2. stage' \in Stages BY DEF TypeOK, Stages
<1>3. TypeOK' BY <1>1, <1>2 DEF TypeOK
<1>4. Answered' /\ ReadWithin' /\ NoBodyYet' /\ BodyFollowsFile'
  BY <1>1 DEF Answered, ReadWithin, NoBodyYet, BodyFollowsFile, Unanswered, StatusLines
<1>5. Framed' BY <1>1 DEF Framed
<1> QED BY <1>3, <1>4, <1>5

\* A new connection starts with an empty request buffer and nothing sent.
LEMMA AcceptIInv ==
  ASSUME IInv, Accept
  PROVE  IInv'
<1> USE DEF IInv
<1>1. PICK n \in 0..MaxStream, h \in 0..MaxStream : stream' = [len |-> n, head |-> h]
  BY DEF Accept
<1>2. /\ stage' = "recv" /\ open' = open + 1 /\ out_request' = 0 /\ answers' = <<>>
      /\ fsize' = 0 /\ file' = NoFile /\ left' = 0 /\ sent' = 0
      /\ client' = "here" /\ changed' = FALSE /\ failed' = FALSE
  BY DEF Accept
<1>3. n \in Nat /\ h \in Nat BY <1>1, WebAssumption
<1>4. TypeOK'
  <2>1. stage' \in Stages BY <1>2 DEF Stages
  <2>2. stream' \in [len : Nat, head : Nat] BY <1>1, <1>3
  <2>3. file' \in [len : Nat, pos : Nat, eof : BOOLEAN] BY <1>2 DEF NoFile
  <2>4. out_request' \in 0..(MAX_REQUEST_SIZE + RecvSize - 1) /\ left' \in 0..SEND_BUF_SIZE
    BY <1>2, WebAssumption
  <2>5. answers' \in Seq(StatusLines) BY <1>2
  <2>6. open' \in Nat BY <1>2 DEF TypeOK
  <2> QED BY <1>2, <2>1, <2>2, <2>3, <2>4, <2>5, <2>6 DEF TypeOK
<1>5. ReadWithin' BY <1>1, <1>2, <1>3 DEF ReadWithin
<1>6. Answered' BY <1>2 DEF Answered
<1>7. NoBodyYet' BY <1>2 DEF NoBodyYet, NoFile
<1>8. BodyFollowsFile' /\ Framed' BY <1>2 DEF BodyFollowsFile, Framed
<1> QED BY <1>4, <1>5, <1>6, <1>7, <1>8

-----------------------------------------------------------------------------
(***************************************************************************)
(* read_request and the request line.                                      *)
(***************************************************************************)
\* recv: below the limit, so that one more piece stays within the buffer's bound.
LEMMA RecvIInv ==
  ASSUME IInv, Recv
  PROVE  IInv'
<1> USE DEF IInv
<1>1. PICK n \in 1..RecvSize : out_request + n <= stream.len /\ out_request' = out_request + n
  BY DEF Recv
<1>2. /\ stage = "recv" /\ out_request < MAX_REQUEST_SIZE
      /\ UNCHANGED <<stage, open, stream, answers, fsize, file, left, sent, client, changed, failed>>
  BY DEF Recv, ReadOn, body
<1>3. out_request \in Nat BY WebAssumption DEF TypeOK
<1>4. out_request' \in 0..(MAX_REQUEST_SIZE + RecvSize - 1) BY <1>1, <1>2, <1>3, WebAssumption
<1>5. TypeOK' BY <1>2, <1>4 DEF TypeOK
<1>6. ReadWithin' BY <1>1, <1>2 DEF ReadWithin
<1>7. Answered' /\ NoBodyYet' /\ BodyFollowsFile' /\ Framed'
  BY <1>2 DEF Answered, NoBodyYet, BodyFollowsFile, Framed
<1> QED BY <1>5, <1>6, <1>7

\* Steps of the handler before the first send.
LEMMA BeforeAnswer ==
  ASSUME IInv, stage \in Unanswered, UNCHANGED <<open, answers, body, client, changed, failed>>,
         stage' \in {"parse", "tell", "send_400", "send_404", "send_501"},
         stream' \in [len : Nat, head : Nat],
         out_request' \in 0..(MAX_REQUEST_SIZE + RecvSize - 1)
  PROVE  IInv'
<1> USE DEF IInv
<1>1. UNCHANGED <<open, answers, fsize, file, left, sent, client, changed, failed>> BY DEF body
<1>2. stage' \in Stages /\ stage' \in Unanswered BY DEF Stages, Unanswered, StatusLines
<1>3. TypeOK' BY <1>1, <1>2 DEF TypeOK
<1>4. Answered' /\ NoBodyYet' BY <1>1, <1>2 DEF Answered, NoBodyYet, Unanswered, StatusLines
<1>5. ReadWithin' /\ BodyFollowsFile' BY DEF ReadWithin, BodyFollowsFile
<1>6. Framed' BY <1>1 DEF Framed
<1> QED BY <1>3, <1>4, <1>5, <1>6

\* The end of read_request, and the request line.
LEMMA ParseIInv ==
  ASSUME IInv, RecvEnd \/ RecvFails \/ RecvDone \/ OtherMethod \/ \E u \in Urls : Get(u)
  PROVE  IInv'
<1>0. 0 \in 0..(MAX_REQUEST_SIZE + RecvSize - 1) BY WebAssumption
<1>1. NoStream \in [len : Nat, head : Nat] BY DEF NoStream
<1>2. "recv" \in Unanswered /\ "parse" \in Unanswered BY DEF Unanswered
<1>3. CASE RecvEnd \/ RecvFails \/ RecvDone
  <2>1. /\ stage = "recv" /\ stage' \in {"parse", "send_400"}
        /\ stream' = NoStream /\ out_request' = 0
        /\ UNCHANGED <<open, answers, body, client, changed, failed>>
    BY <1>3 DEF RecvEnd, RecvFails, RecvDone, ReadEnds
  <2> QED BY <1>0, <1>1, <1>2, <2>1, BeforeAnswer
<1>4. CASE OtherMethod \/ \E u \in Urls : Get(u)
  <2>1. /\ stage = "parse" /\ stage' \in {"tell", "send_400", "send_404", "send_501"}
        /\ UNCHANGED <<open, stream, out_request, answers, body, client, changed, failed>>
    BY <1>4 DEF OtherMethod, Get, request
  <2> QED BY <1>2, <2>1, BeforeAnswer DEF IInv, TypeOK
<1> QED BY <1>3, <1>4

-----------------------------------------------------------------------------
(***************************************************************************)
(* The answer.                                                             *)
(***************************************************************************)
\* The length of the file becomes the Content-Length.
LEMMA TellIInv ==
  ASSUME IInv, Tell
  PROVE  IInv'
<1> USE DEF IInv
<1>1. PICK n \in 0..MaxFile : file' = [len |-> n, pos |-> 0, eof |-> FALSE] /\ fsize' = n
  BY DEF Tell
<1>2. /\ stage = "tell" /\ stage' = "send_200"
      /\ UNCHANGED <<open, stream, out_request, answers, left, sent, client, changed, failed>>
  BY DEF Tell, request
<1>3. n \in Nat BY <1>1, WebAssumption
<1>4. stage \in Unanswered /\ stage' \in Unanswered /\ stage' \in Stages
  BY <1>2 DEF Unanswered, StatusLines, Stages
<1>5. sent = 0 /\ left = 0 /\ answers = <<>> BY <1>4 DEF NoBodyYet, Answered
<1>6. /\ file' \in [len : Nat, pos : Nat, eof : BOOLEAN] /\ file'.pos = 0 /\ file'.len = n
      /\ file'.eof = FALSE
  BY <1>1, <1>3
<1>7. TypeOK' BY <1>1, <1>2, <1>3, <1>4, <1>6 DEF TypeOK
<1>8. Answered' /\ ReadWithin' BY <1>2, <1>5 DEF Answered, ReadWithin
<1>9. NoBodyYet' BY <1>2, <1>5, <1>6 DEF NoBodyYet
<1>10. BodyFollowsFile' BY <1>1, <1>2, <1>3, <1>5, <1>6 DEF BodyFollowsFile
<1>11. Framed' BY <1>1, <1>2, <1>3, <1>5 DEF Framed
<1> QED BY <1>7, <1>8, <1>9, <1>10, <1>11

\* The status line is the first; only a 200 line is followed by a body.
LEMMA SendStatusIInv ==
  ASSUME IInv, SendStatus
  PROVE  IInv'
<1> USE DEF IInv
<1>1. /\ stage \in StatusLines /\ answers' = Append(answers, stage)
      /\ stage' = (IF stage = "send_200" THEN "read" ELSE "return")
      /\ UNCHANGED <<open, stream, out_request, fsize, file, left, sent, client, changed>>
  BY DEF SendStatus, AfterStatus, request, body
<1>2. failed' \in BOOLEAN BY DEF SendStatus, TypeOK
<1>3. stage \in Unanswered /\ answers = <<>> /\ sent = 0 /\ left = 0
  BY <1>1 DEF Unanswered, Answered, NoBodyYet
<1>4. answers' = <<stage>> /\ answers' \in Seq(StatusLines) /\ Len(answers') = 1
  BY <1>1, <1>3
<1>5. stage' \in Stages /\ stage' \in {"read", "return"} BY <1>1 DEF Stages
<1>6. TypeOK' BY <1>1, <1>2, <1>4, <1>5 DEF TypeOK
<1>7. Answered' BY <1>1, <1>4, <1>5 DEF Answered, Unanswered, StatusLines
<1>8. ReadWithin' /\ NoBodyYet'
  BY <1>5 DEF ReadWithin, NoBodyYet, Unanswered, StatusLines
<1>9. BodyFollowsFile' BY <1>1, <1>3, <1>5 DEF BodyFollowsFile
<1>10. Framed'
  <2>1. ~changed' => sent' <= fsize' BY <1>1 DEF Framed
  <2>2. ASSUME stage' = "return" PROVE answers' # <<"send_200">>
    <3>1. stage # "send_200" BY <1>1, <2>2
    <3>2. answers'[1] = stage BY <1>4
    <3> QED BY <3>1, <3>2
  <2> QED BY <2>1, <2>2 DEF Framed
<1> QED BY <1>6, <1>7, <1>8, <1>9, <1>10

\* A block is read: what is left of the file, at most a buffer of it.  An empty block
\* ends the body, and then the file has been read up to its end.
LEMMA ReadBlockIInv ==
  ASSUME IInv, ReadBlock
  PROVE  IInv'
<1> USE DEF IInv
<1> DEFINE rest == IF file.len > file.pos THEN file.len - file.pos ELSE 0
           r == IF rest < SEND_BUF_SIZE THEN rest ELSE SEND_BUF_SIZE
<1>1. /\ stage = "read" /\ left' = r
      /\ file' = [file EXCEPT !.pos = file.pos + r, !.eof = r < SEND_BUF_SIZE]
      /\ stage' = (IF r > 0 THEN "send" ELSE "return")
      /\ UNCHANGED <<open, stream, out_request, answers, fsize, sent, client, changed, failed>>
  BY DEF ReadBlock, request
<1>2. /\ file \in [len : Nat, pos : Nat, eof : BOOLEAN] /\ file.len \in Nat /\ file.pos \in Nat
      /\ SEND_BUF_SIZE \in Nat \ {0}
  BY WebAssumption DEF TypeOK
<1>3. rest \in Nat BY <1>2
<1>4. /\ r \in 0..SEND_BUF_SIZE /\ r \in Nat
      /\ file.pos <= file.len => file.pos + r <= file.len
      /\ file.pos <= file.len /\ r < SEND_BUF_SIZE => file.pos + r = file.len
  BY <1>2, <1>3
<1> HIDE DEF r, rest
<1>5. /\ file' \in [len : Nat, pos : Nat, eof : BOOLEAN]
      /\ file'.len = file.len /\ file'.pos = file.pos + r /\ file'.eof = (r < SEND_BUF_SIZE)
  <2> DEFINE p == file.pos + r
             e == r < SEND_BUF_SIZE
  <2>1. p \in Nat /\ e \in BOOLEAN BY <1>2, <1>4
  <2>2. file' = [file EXCEPT !.pos = p, !.eof = e] BY <1>1
  <2> HIDE DEF p, e
  <2>3. /\ file' \in [len : Nat, pos : Nat, eof : BOOLEAN]
        /\ file'.len = file.len /\ file'.pos = p /\ file'.eof = e
    BY <1>2, <2>1, <2>2
  <2> QED BY <2>3 DEF p, e
<1>6. stage' \in Stages /\ stage' \in {"send", "return"} BY <1>1 DEF Stages
<1>7. TypeOK' BY <1>1, <1>4, <1>5, <1>6 DEF TypeOK
<1>8. answers = <<"send_200">> BY <1>1 DEF Answered
<1>9. Answered' BY <1>1, <1>6, <1>8 DEF Answered, Unanswered, StatusLines
<1>10. ReadWithin' /\ NoBodyYet' BY <1>6 DEF ReadWithin, NoBodyYet, Unanswered, StatusLines
<1>11. ASSUME ~changed
       PROVE  fsize = file.len /\ sent = file.pos /\ file.pos <= file.len /\ sent \in Nat
  BY <1>1, <1>11 DEF BodyFollowsFile, TypeOK
<1>12. BodyFollowsFile'
  <2> SUFFICES ASSUME ~changed
               PROVE  /\ fsize' = file'.len /\ sent' + left' = file'.pos /\ file'.pos <= file'.len
                      /\ file'.eof => file'.pos = file'.len
    BY <1>1, <1>6 DEF BodyFollowsFile
  <2> QED BY <1>1, <1>2, <1>4, <1>5, <1>11
<1>13. Framed'
  <2> SUFFICES ASSUME ~changed, stage' = "return" PROVE sent = fsize
    BY <1>1 DEF Framed
  <2>1. r = 0 BY <1>1, <1>4
  <2>2. r < SEND_BUF_SIZE BY <1>2, <2>1
  <2> QED BY <1>2, <1>4, <1>11, <2>1, <2>2
<1> QED BY <1>7, <1>9, <1>10, <1>12, <1>13

\* One send moves bytes from the block to those sent; the handler returns after the block
\* that met the end of the file.
LEMMA SendIInv ==
  ASSUME IInv, Send
  PROVE  IInv'
<1> USE DEF IInv
<1>1. PICK n \in 1..left : sent' = sent + n /\ left' = left - n BY DEF Send
<1>2. /\ stage = "send"
      /\ stage' = (IF left' > 0 THEN "send" ELSE IF file.eof THEN "return" ELSE "read")
      /\ UNCHANGED <<open, stream, out_request, answers, fsize, file, client, changed, failed>>
  BY DEF Send, request
<1>3. left \in Nat /\ sent \in Nat /\ left <= SEND_BUF_SIZE /\ file.pos \in Nat /\ file.len \in Nat
  BY WebAssumption DEF TypeOK
<1>4. /\ sent' \in Nat /\ left' \in Nat /\ left' \in 0..SEND_BUF_SIZE
      /\ sent' + left' = sent + left /\ sent' <= sent + left
  BY <1>1, <1>3, WebAssumption
<1>5. stage' \in Stages /\ stage' \in {"send", "read", "return"} BY <1>2 DEF Stages
<1>6. TypeOK' BY <1>2, <1>4, <1>5 DEF TypeOK
<1>7. answers = <<"send_200">> BY <1>2 DEF Answered
<1>8. Answered' BY <1>2, <1>5, <1>7 DEF Answered, Unanswered, StatusLines
<1>9. ReadWithin' /\ NoBodyYet' BY <1>5 DEF ReadWithin, NoBodyYet, Unanswered, StatusLines
<1>10. ASSUME ~changed
       PROVE  /\ fsize = file.len /\ sent + left = file.pos /\ file.pos <= file.len
              /\ file.eof => file.pos = file.len
  BY <1>2, <1>10 DEF BodyFollowsFile
<1>11. stage' # "send" => left' = 0 BY <1>2, <1>4
<1>12. BodyFollowsFile'
  <2>1. ~changed' => (stage' = "read" => left' = 0) BY <1>11
  <2> QED BY <1>2, <1>4, <1>10, <2>1 DEF BodyFollowsFile
<1>13. Framed'
  <2> SUFFICES ASSUME ~changed PROVE sent' <= fsize /\ (stage' = "return" => sent' = fsize)
    BY <1>2 DEF Framed
  <2>1. sent' <= fsize BY <1>3, <1>4, <1>10
  <2>2. ASSUME stage' = "return" PROVE sent' = fsize
    <3>1. left' = 0 BY <1>11, <2>2
    <3>2. file.eof BY <1>2, <2>2
    <3>3. sent' = sent + left
      <4>1. n = left BY <1>1, <1>3, <3>1
      <4> QED BY <1>1, <4>1
    <3> QED BY <1>10, <3>2, <3>3
  <2> QED BY <2>1, <2>2
<1> QED BY <1>6, <1>8, <1>9, <1>12, <1>13

\* A send fails: the handler returns in the middle of the body, and knows it.
LEMMA SendFailsIInv ==
  ASSUME IInv, SendFails
  PROVE  IInv'
<1> USE DEF IInv
<1>1. /\ stage = "send" /\ failed' = TRUE /\ stage' = "return"
      /\ UNCHANGED <<open, stream, out_request, answers, fsize, file, left, sent, client, changed>>
  BY DEF SendFails, request, body
<1>2. TypeOK' BY <1>1 DEF TypeOK, Stages
<1>3. answers = <<"send_200">> BY <1>1 DEF Answered
<1>4. Answered' BY <1>1, <1>3 DEF Answered, Unanswered, StatusLines
<1>5. ReadWithin' /\ NoBodyYet' /\ BodyFollowsFile'
  BY <1>1 DEF ReadWithin, NoBodyYet, BodyFollowsFile, Unanswered, StatusLines
<1>6. Framed' BY <1>1 DEF Framed
<1> QED BY <1>2, <1>4, <1>5, <1>6

\* Once the file has been changed the Content-Length promises nothing.
LEMMA FileChangesIInv ==
  ASSUME IInv, FileChanges
  PROVE  IInv'
<1> USE DEF IInv
<1>1. PICK n \in 0..MaxFile : file' = [file EXCEPT !.len = n] BY DEF FileChanges
<1>2. /\ changed' = TRUE
      /\ UNCHANGED <<stage, open, stream, out_request, answers, fsize, left, sent, client, failed>>
  BY DEF FileChanges, request
<1>3. n \in Nat BY <1>1, WebAssumption
<1>4. file' \in [len : Nat, pos : Nat, eof : BOOLEAN] /\ file'.pos = file.pos
  BY <1>1, <1>3 DEF TypeOK
<1>5. TypeOK' BY <1>2, <1>4 DEF TypeOK
<1>6. Answered' /\ ReadWithin' /\ NoBodyYet' BY <1>2, <1>4 DEF Answered, ReadWithin, NoBodyYet
<1>7. BodyFollowsFile' /\ Framed' BY <1>2 DEF BodyFollowsFile, Framed
<1> QED BY <1>5, <1>6, <1>7

-----------------------------------------------------------------------------
\* Every step preserves the invariant.
LEMMA NextIInv == IInv /\ [Next]_vars => IInv'
<1> SUFFICES ASSUME IInv, [Next]_vars PROVE IInv'
  OBVIOUS
<1>0. client \in {"here", "idle", "gone"} BY DEF IInv, TypeOK
<1>1. CASE InitServer \/ AcceptFails \/ HandlerReturns \/ Killed
  BY <1>0, <1>1, Outside DEF InitServer, AcceptFails, HandlerReturns, Killed
<1>2. CASE ClientChanges BY <1>2, Outside DEF ClientChanges
<1>3. CASE UNCHANGED vars BY <1>0, <1>3, Outside DEF vars
<1>4. CASE Accept BY <1>4, AcceptIInv
<1>5. CASE Recv BY <1>5, RecvIInv
<1>6. CASE RecvEnd \/ RecvFails \/ RecvDone \/ OtherMethod \/ \E u \in Urls : Get(u)
  BY <1>6, ParseIInv
<1>7. CASE SendStatus BY <1>7, SendStatusIInv
<1>8. CASE Tell BY <1>8, TellIInv
<1>9. CASE ReadBlock BY <1>9, ReadBlockIInv
<1>10. CASE Send BY <1>10, SendIInv
<1>11. CASE SendFails BY <1>11, SendFailsIInv
<1>12. CASE FileChanges BY <1>12, FileChangesIInv
<1> QED BY <1>1, <1>2, <1>3, <1>4, <1>5, <1>6, <1>7, <1>8, <1>9, <1>10, <1>11, <1>12
        DEF Next, ServerStep

\* The invariant holds in every state.
LEMMA Invariance == Spec => []IInv
  BY InitIInv, NextIInv, PTL DEF Spec

\* The handler's variables keep their types; in particular the request never grows a
\* whole recv beyond MAX_REQUEST_SIZE.
THEOREM TypeCorrect == Spec => []TypeOK
<1>1. IInv => TypeOK BY DEF IInv
<1> QED BY <1>1, Invariance, PTL

\* handler returns from every connection with exactly one status line sent.
THEOREM AnswersOnce == Spec => []OneAnswer
<1>1. IInv => OneAnswer BY DEF IInv, Answered, OneAnswer
<1> QED BY <1>1, Invariance, PTL

\* The body of a 200 answer has the length that the Content-Length announces, however
\* the file divides into blocks and the blocks into sends, unless the file is changed
\* meanwhile or a send fails.
THEOREM BodyIsFramed == Spec => []Framed
<1>1. IInv => Framed BY DEF IInv
<1> QED BY <1>1, Invariance, PTL

\* read_request refuses a request only for its size or for a client that left, and
\* takes for a request only a whole head, all that was sent, or as much as the limit.
THEOREM RequestSizes == Spec => SizeDecides
<1> DEFINE Step ==
      stage = "recv" =>
        /\ stage' = "send_400" => client = "gone" \/ stream.len \notin 1..MAX_REQUEST_SIZE
        /\ stage' = "parse" => HeadComplete \/ out_request \in {stream.len, MAX_REQUEST_SIZE}
<1>1. ASSUME IInv, [Next]_vars PROVE [Step]_vars
  <2> SUFFICES ASSUME stage = "recv", stage' \in {"send_400", "parse"} PROVE Step
    OBVIOUS
  <2>0. out_request \in Nat /\ stream.len \in Nat /\ out_request <= stream.len
    BY <1>1, WebAssumption DEF IInv, TypeOK, ReadWithin
  <2>1. RecvEnd \/ RecvFails \/ RecvDone
    BY <1>1 DEF Next, ServerStep, vars, InitServer, Accept, AcceptFails, HandlerReturns, Recv,
         OtherMethod, Get, SendStatus, StatusLines, Killed, Tell, ReadBlock, Send, SendFails,
         ClientChanges, FileChanges
  <2>2. CASE RecvEnd
    <3>1. out_request = stream.len /\ (stage' = "send_400" => out_request = 0)
      BY <2>2 DEF RecvEnd, ReadEnds
    <3>2. stage' = "send_400" => stream.len \notin 1..MAX_REQUEST_SIZE
      BY <3>1, WebAssumption
    <3> QED BY <3>1, <3>2
  <2>3. CASE RecvFails BY <2>3 DEF RecvFails, ReadEnds
  <2>4. CASE RecvDone
    <3>1. /\ HeadComplete \/ ~(out_request < MAX_REQUEST_SIZE)
          /\ stage' = (IF out_request > MAX_REQUEST_SIZE THEN "send_400" ELSE "parse")
      BY <2>4 DEF RecvDone, ReadEnds, ReadOn
    <3>2. stage' = "send_400" => stream.len \notin 1..MAX_REQUEST_SIZE
      BY <2>0, <3>1, WebAssumption
    <3>3. stage' = "parse" => HeadComplete \/ out_request = MAX_REQUEST_SIZE
      BY <2>0, <3>1, WebAssumption
    <3> QED BY <3>2, <3>3
  <2> QED BY <2>1, <2>2, <2>3, <2>4
<1> HIDE DEF Step
<1>2. Spec => [][Step]_vars BY <1>1, Invariance, PTL DEF Spec
<1> QED BY <1>2 DEF Step, SizeDecides
-----------------------------------------------------------------------------
(***************************************************************************)
(* make_safe_path, on every URL.  Height and Balanced say how the balance  *)
(* of names and ".." counts the names on the stack.                        *)
(***************************************************************************)
\* One more place in an interval.
LEMMA OneMorePlace ==
  ASSUME NEW S, NEW d \in Nat, NEW n \in Nat, d <= n
  PROVE  /\ IsFiniteSet(S \cap (d + 1)..n) /\ IsFiniteSet(S \cap (d + 1)..(n + 1))
         /\ Cardinality(S \cap (d + 1)..n) \in Nat
         /\ Cardinality(S \cap (d + 1)..(n + 1)) =
              Cardinality(S \cap (d + 1)..n) + In(n + 1 \in S)
<1> DEFINE T == S \cap (d + 1)..n
           T1 == S \cap (d + 1)..(n + 1)
<1>1. IsFiniteSet((d + 1)..n) BY FS_Interval
<1>2. IsFiniteSet(T) BY <1>1, FS_Subset
<1>3. T1 \ {n + 1} = T \ {n + 1} /\ n + 1 \notin T /\ (n + 1 \in T1 <=> n + 1 \in S)
  <2>1. (d + 1)..(n + 1) = ((d + 1)..n) \cup {n + 1} OBVIOUS
  <2>2. n + 1 \notin (d + 1)..n OBVIOUS
  <2> QED BY <2>1, <2>2
<1> HIDE DEF T, T1
<1>4. /\ IsFiniteSet(T1) /\ Cardinality(T) \in Nat /\ Cardinality(T1) \in Nat
      /\ Cardinality(T1) + In(n + 1 \in T) = Cardinality(T) + In(n + 1 \in T1)
  BY <1>2, <1>3, OneElement
<1>5. Cardinality(T1) = Cardinality(T) + In(n + 1 \in S)
  BY <1>3, <1>4 DEF In
<1> QED BY <1>2, <1>4, <1>5 DEF T, T1

\* A segment adds its piece to every balance, and there is nothing to balance in an
\* empty interval.
LEMMA BalanceStep ==
  ASSUME NEW names, NEW ups, NEW d \in Nat, NEW n \in Nat, d <= n
  PROVE  /\ Balance(names, ups, d, d) = 0
         /\ Balance(names, ups, d, n) \in Int
         /\ n + 1 \notin names /\ n + 1 \notin ups =>
              Balance(names, ups, d, n + 1) = Balance(names, ups, d, n)
         /\ n + 1 \in names /\ n + 1 \notin ups =>
              Balance(names, ups, d, n + 1) = Balance(names, ups, d, n) + 1
         /\ n + 1 \notin names /\ n + 1 \in ups =>
              Balance(names, ups, d, n + 1) = Balance(names, ups, d, n) - 1
<1>1. (d + 1)..d = {} OBVIOUS
<1>2. Cardinality({}) = 0 BY FS_EmptySet
<1>3. names \cap (d + 1)..d = {} /\ ups \cap (d + 1)..d = {} BY <1>1
<1>4. Balance(names, ups, d, d) = 0
  <2>1. Balance(names, ups, d, d) = Cardinality({}) - Cardinality({}) BY <1>3 DEF Balance
  <2> QED BY <1>2, <2>1
<1>5. /\ Cardinality(names \cap (d + 1)..n) \in Nat
      /\ Cardinality(names \cap (d + 1)..(n + 1)) =
              Cardinality(names \cap (d + 1)..n) + In(n + 1 \in names)
  BY OneMorePlace
<1>6. /\ Cardinality(ups \cap (d + 1)..n) \in Nat
      /\ Cardinality(ups \cap (d + 1)..(n + 1)) =
              Cardinality(ups \cap (d + 1)..n) + In(n + 1 \in ups)
  BY OneMorePlace
<1>7. /\ In(n + 1 \in names) \in Nat /\ In(n + 1 \in ups) \in Nat
      /\ n + 1 \in names => In(n + 1 \in names) = 1
      /\ n + 1 \notin names => In(n + 1 \in names) = 0
      /\ n + 1 \in ups => In(n + 1 \in ups) = 1
      /\ n + 1 \notin ups => In(n + 1 \in ups) = 0
  BY DEF In
<1> DEFINE a == In(n + 1 \in names)
           b == In(n + 1 \in ups)
<1>8. /\ Balance(names, ups, d, n) \in Int
      /\ Balance(names, ups, d, n + 1) = Balance(names, ups, d, n) + a - b
  <2> HIDE DEF a, b
  <2> QED BY <1>5, <1>6, <1>7 DEF Balance, a, b
<1> QED BY <1>4, <1>7, <1>8

\* The names after k on the stack are those by which the balance exceeds zero.
Height(K, k, n) == Cardinality(K \cap (k + 1)..n)

Balanced(names, ups, n) ==
  \A k \in Kept(names, ups, n) \cup {1} :
    Balance(names, ups, k, n) = Height(Kept(names, ups, n), k, n)

\* A place with neither a name nor a "..".
LEMMA KeptAside ==
  ASSUME NEW names \in SUBSET Nat, NEW ups, NEW n \in Nat \ {0}, \A k \in names : k >= 2,
         n + 1 \notin names, n + 1 \notin ups
  PROVE  /\ Kept(names, ups, n + 1) = Kept(names, ups, n)
         /\ Legal(names, ups, n + 1) <=> Legal(names, ups, n)
         /\ Balanced(names, ups, n) => Balanced(names, ups, n + 1)
<1> DEFINE B(d, e) == Balance(names, ups, d, e)
           K == Kept(names, ups, n)
           K1 == Kept(names, ups, n + 1)
<1>1. ASSUME NEW d \in Nat, d <= n PROVE B(d, n + 1) = B(d, n) /\ B(d, n) \in Int
  BY <1>1, BalanceStep
<1> HIDE DEF B
<1>2. K1 = K
  <2>1. ASSUME NEW k \in K1 PROVE k \in K
    <3>1. k \in names /\ k \in Nat /\ k <= n + 1 /\ \A e \in k..(n + 1) : B(k, e) >= 0
      BY DEF Kept, B
    <3>2. k <= n BY <3>1
    <3>3. \A e \in k..n : e \in k..(n + 1) BY <3>1
    <3> QED BY <3>1, <3>2, <3>3 DEF Kept, B
  <2>2. ASSUME NEW k \in K PROVE k \in K1
    <3>1. k \in names /\ k \in Nat /\ k <= n /\ \A e \in k..n : B(k, e) >= 0
      BY DEF Kept, B
    <3>2. B(k, n + 1) >= 0 BY <1>1, <3>1
    <3>3. \A e \in k..(n + 1) : e = n + 1 \/ e \in k..n BY <3>1
    <3>4. \A e \in k..(n + 1) : B(k, e) >= 0 BY <3>1, <3>2, <3>3
    <3>5. k <= n + 1 BY <3>1
    <3> QED BY <3>1, <3>4, <3>5 DEF Kept, B
  <2> QED BY <2>1, <2>2
<1>3. Legal(names, ups, n + 1) <=> Legal(names, ups, n)
  <2>1. 1..(n + 1) = (1..n) \cup {n + 1} BY DEF Legal
  <2>2. B(1, n + 1) = B(1, n) /\ n \in 1..n BY <1>1
  <2> QED BY <2>1, <2>2 DEF Legal, B
<1>4. ASSUME Balanced(names, ups, n) PROVE Balanced(names, ups, n + 1)
  <2> SUFFICES ASSUME NEW k \in K \cup {1} PROVE B(k, n + 1) = Height(K, k, n + 1)
    BY <1>2 DEF Balanced, B
  <2>1. k \in Nat /\ k <= n BY DEF Kept
  <2>2. B(k, n) = Height(K, k, n) BY <1>4 DEF Balanced, B
  <2>3. n + 1 \notin K BY DEF Kept
  <2>4. Height(K, k, n + 1) = Height(K, k, n) BY <2>1, <2>3, OneMorePlace DEF Height, In
  <2> QED BY <1>1, <2>1, <2>2, <2>4
<1> QED BY <1>2, <1>3, <1>4

\* A name goes on the stack.
LEMMA KeptName ==
  ASSUME NEW names \in SUBSET Nat, NEW ups, NEW n \in Nat \ {0}, \A k \in names : k >= 2,
         n + 1 \in names, n + 1 \notin ups
  PROVE  /\ Kept(names, ups, n + 1) = Kept(names, ups, n) \cup {n + 1}
         /\ Legal(names, ups, n + 1) <=> Legal(names, ups, n)
         /\ Balanced(names, ups, n) => Balanced(names, ups, n + 1)
<1> DEFINE B(d, e) == Balance(names, ups, d, e)
           K == Kept(names, ups, n)
           K1 == Kept(names, ups, n + 1)
<1>1. ASSUME NEW d \in Nat, d <= n PROVE B(d, n + 1) = B(d, n) + 1 /\ B(d, n) \in Int
  <2>1. n \in Nat /\ d \in Nat /\ d <= n BY <1>1
  <2> HIDE DEF K, K1
  <2>2. Balance(names, ups, d, n) \in Int BY ONLY <2>1, BalanceStep
  <2>3. Balance(names, ups, d, n + 1) = Balance(names, ups, d, n) + 1
    BY ONLY <2>1, n + 1 \in names, n + 1 \notin ups, BalanceStep
  <2> QED BY <2>2, <2>3
<1>0. B(n + 1, n + 1) = 0 BY BalanceStep
<1> HIDE DEF B
<1>2. K1 = K \cup {n + 1}
  <2>1. ASSUME NEW k \in K1, k # n + 1 PROVE k \in K
    <3>1. k \in names /\ k \in Nat /\ k <= n + 1 /\ \A e \in k..(n + 1) : B(k, e) >= 0
      BY DEF Kept, B
    <3>2. k <= n BY <2>1, <3>1
    <3>3. \A e \in k..n : e \in k..(n + 1) BY <3>1
    <3> QED BY <3>1, <3>2, <3>3 DEF Kept, B
  <2>2. ASSUME NEW k \in K PROVE k \in K1
    <3>1. k \in names /\ k \in Nat /\ k <= n /\ \A e \in k..n : B(k, e) >= 0
      BY DEF Kept, B
    <3>0. B(k, n) >= 0 BY <3>1
    <3>2. B(k, n + 1) >= 0 BY <1>1, <3>0, <3>1
    <3>3. \A e \in k..(n + 1) : e = n + 1 \/ e \in k..n BY <3>1
    <3>4. \A e \in k..(n + 1) : B(k, e) >= 0 BY <3>1, <3>2, <3>3
    <3>5. k <= n + 1 BY <3>1
    <3> QED BY <3>1, <3>4, <3>5 DEF Kept, B
  <2>3. n + 1 \in K1
    <3>1. \A e \in (n + 1)..(n + 1) : e = n + 1 OBVIOUS
    <3>2. \A e \in (n + 1)..(n + 1) : B(n + 1, e) >= 0 BY <1>0, <3>1
    <3> QED BY <3>2 DEF Kept, B
  <2> QED BY <2>1, <2>2, <2>3
<1>3. Legal(names, ups, n + 1) <=> Legal(names, ups, n)
  <2>1. 1..(n + 1) = (1..n) \cup {n + 1} OBVIOUS
  <2>2. n \in 1..n OBVIOUS
  <2>3. B(1, n) >= 0 => B(1, n + 1) >= 0 BY <1>1
  <2> QED BY <2>1, <2>2, <2>3 DEF Legal, B
<1>4. ASSUME Balanced(names, ups, n) PROVE Balanced(names, ups, n + 1)
  <2> SUFFICES ASSUME NEW k \in K1 \cup {1} PROVE B(k, n + 1) = Height(K1, k, n + 1)
    BY DEF Balanced, B
  <2>1. CASE k = n + 1
    <3>1. (n + 1 + 1)..(n + 1) = {} OBVIOUS
    <3>2. Height(K1, k, n + 1) = 0 BY <2>1, <3>1, FS_EmptySet DEF Height
    <3> QED BY <1>0, <2>1, <3>2
  <2>2. CASE k # n + 1
    <3>1. k \in K \cup {1} BY <1>2, <2>2
    <3>2. k \in Nat /\ k <= n BY <3>1 DEF Kept
    <3>3. B(k, n) = Height(K, k, n) BY <1>4, <3>1 DEF Balanced, B
    <3>4. Height(K1, k, n + 1) = Height(K1, k, n) + 1
      BY <1>2, <3>2, OneMorePlace DEF Height, In
    <3>5. K1 \cap (k + 1)..n = K \cap (k + 1)..n
      <4>1. n + 1 \notin (k + 1)..n BY <3>2
      <4> QED BY <1>2, <4>1
    <3>6. Height(K1, k, n) = Height(K, k, n) BY <3>5 DEF Height
    <3> QED BY <1>1, <3>2, <3>3, <3>4, <3>6
  <2> QED BY <2>1, <2>2
<1> QED BY <1>2, <1>3, <1>4

\* A place up to n with names of K after it is not the last one of K.
LEMMA HeightZero ==
  ASSUME NEW K \in SUBSET Nat, NEW k \in Nat, NEW n \in Nat, \A l \in K : l <= n
  PROVE  /\ Height(K, k, n) \in Nat
         /\ Height(K, k, n) = 0 <=> \A l \in K : l <= k
<1> DEFINE T == K \cap (k + 1)..n
<1>1. IsFiniteSet((k + 1)..n) BY FS_Interval
<1>2. IsFiniteSet(T) BY <1>1, FS_Subset
<1>3. Cardinality(T) \in Nat /\ (Cardinality(T) = 0 <=> T = {})
  BY <1>2, FS_CardinalityType, FS_EmptySet
<1>4. T = {} <=> \A l \in K : l <= k
  <2>1. \A l \in K : l \in T <=> ~(l <= k) OBVIOUS
  <2> QED BY <2>1
<1> QED BY <1>3, <1>4 DEF Height

\* A set of places up to n that is not empty has a last one.
LEMMA LastPlace ==
  ASSUME NEW K \in SUBSET Nat, NEW n \in Nat, \A l \in K : l <= n, K # {}
  PROVE  \E t \in K : \A l \in K : l <= t
<1> DEFINE D == {n - l : l \in K}
<1>1. D \in SUBSET Nat /\ D # {}
  <2>1. \A l \in K : n - l \in Nat OBVIOUS
  <2> QED BY <2>1
<1>2. PICK d \in D : \A e \in D : d <= e BY <1>1, LeastElement
<1>3. PICK t \in K : d = n - t OBVIOUS
<1>4. \A l \in K : n - t <= n - l BY <1>2, <1>3
<1> QED BY <1>4

\* A ".." takes the last name off the stack; with none on it, it leads above the root.
LEMMA KeptUp ==
  ASSUME NEW names \in SUBSET Nat, NEW ups, NEW n \in Nat \ {0}, \A k \in names : k >= 2,
         n + 1 \notin names, n + 1 \in ups, Legal(names, ups, n), Balanced(names, ups, n)
  PROVE  /\ Legal(names, ups, n + 1) <=> Kept(names, ups, n) # {}
         /\ \A t \in Kept(names, ups, n) : (\A l \in Kept(names, ups, n) : l <= t) =>
              /\ Kept(names, ups, n + 1) = Kept(names, ups, n) \ {t}
              /\ Balanced(names, ups, n + 1)
<1> DEFINE B(d, e) == Balance(names, ups, d, e)
           K == Kept(names, ups, n)
           K1 == Kept(names, ups, n + 1)
<1>1. ASSUME NEW d \in Nat, d <= n PROVE B(d, n + 1) = B(d, n) - 1 /\ B(d, n) \in Int
  BY <1>1, BalanceStep
<1> HIDE DEF B
<1>2. \A k \in K \cup {1} : k \in Nat /\ k <= n /\ B(k, n) = Height(K, k, n)
  BY DEF Kept, Balanced, B
<1>3. K \in SUBSET Nat /\ (\A l \in K : l <= n /\ l >= 2) BY DEF Kept
<1>4. ASSUME NEW k \in K \cup {1} PROVE B(k, n + 1) >= 0 <=> \E l \in K : l > k
  <2>1. B(k, n + 1) = Height(K, k, n) - 1 BY <1>1, <1>2
  <2>2. Height(K, k, n) \in Nat /\ (Height(K, k, n) = 0 <=> \A l \in K : l <= k)
    BY <1>2, <1>3, HeightZero
  <2>3. (\A l \in K : l <= k) <=> ~\E l \in K : l > k BY <1>2, <1>3
  <2> QED BY <2>1, <2>2, <2>3
<1>5. Legal(names, ups, n + 1) <=> K # {}
  <2>1. 1..(n + 1) = (1..n) \cup {n + 1} OBVIOUS
  <2>2. Legal(names, ups, n + 1) <=> B(1, n + 1) >= 0 BY <2>1 DEF Legal, B
  <2>3. \A l \in K : l > 1 BY <1>3
  <2> QED BY <1>4, <2>2, <2>3
<1>6. ASSUME NEW t \in K, \A l \in K : l <= t PROVE K1 = K \ {t} /\ Balanced(names, ups, n + 1)
  <2>1. \A k \in K : k # t <=> \E l \in K : l > k BY <1>3, <1>6
  <2>2. ASSUME NEW k \in K1 PROVE k \in K /\ k # t
    <3>1. k \in names /\ k \in Nat /\ k <= n + 1 /\ \A e \in k..(n + 1) : B(k, e) >= 0
      BY DEF Kept, B
    <3>2. k <= n BY <3>1
    <3>3. \A e \in k..n : e \in k..(n + 1) BY <3>1
    <3>4. k \in K BY <3>1, <3>2, <3>3 DEF Kept, B
    <3>5. B(k, n + 1) >= 0 BY <3>1
    <3> QED BY <1>4, <2>1, <3>4, <3>5
  <2>3. ASSUME NEW k \in K, k # t PROVE k \in K1
    <3>1. k \in names /\ k \in Nat /\ k <= n /\ \A e \in k..n : B(k, e) >= 0
      BY DEF Kept, B
    <3>2. B(k, n + 1) >= 0 BY <1>4, <2>1, <2>3
    <3>3. \A e \in k..(n + 1) : e = n + 1 \/ e \in k..n BY <3>1
    <3>4. \A e \in k..(n + 1) : B(k, e) >= 0 BY <3>1, <3>2, <3>3
    <3>5. k <= n + 1 BY <3>1
    <3> QED BY <3>1, <3>4, <3>5 DEF Kept, B
  <2>4. K1 = K \ {t} BY <2>2, <2>3
  <2>5. ASSUME NEW k \in K1 \cup {1} PROVE B(k, n + 1) = Height(K1, k, n + 1)
    <3>1. k \in K \cup {1} /\ k # t BY <1>3, <2>4
    <3>2. k \in Nat /\ k <= n /\ k < t /\ t \in Nat /\ t <= n
      <4>1. k \in Nat /\ k <= n /\ t \in Nat /\ t <= n /\ t >= 2 BY <1>2, <1>3, <3>1
      <4>2. k = 1 \/ k <= t BY <1>6, <3>1
      <4> QED BY <3>1, <4>1, <4>2
    <3> DEFINE T == K \cap (k + 1)..n
               T1 == K1 \cap (k + 1)..(n + 1)
    <3>3. t \in T /\ t \notin T1 BY <2>4, <3>2
    <3>4. T1 = T \ {t}
      <4>1. n + 1 \notin K1 BY <1>3, <2>4
      <4>2. (k + 1)..(n + 1) = ((k + 1)..n) \cup {n + 1} BY <3>2
      <4> QED BY <2>4, <4>1, <4>2
    <3>5. IsFiniteSet((k + 1)..n) BY <3>2, FS_Interval
    <3>6. IsFiniteSet(T) BY <3>5, FS_Subset
    <3> HIDE DEF T, T1
    <3>7. Cardinality(T1) = Cardinality(T) - 1 BY <3>3, <3>4, <3>6, FS_RemoveElement
    <3>8. Height(K, k, n) = Cardinality(T) /\ Height(K1, k, n + 1) = Cardinality(T1)
      BY DEF Height, T, T1
    <3> QED BY <1>1, <1>2, <3>1, <3>7, <3>8
  <2> QED BY <2>4, <2>5 DEF Balanced, B
<1> QED BY <1>5, <1>6

\* What is above the root stays above the root.
LEMMA LegalBefore ==
  ASSUME NEW names, NEW ups, NEW n \in Nat, Legal(names, ups, n + 1)
  PROVE  Legal(names, ups, n)
  BY DEF Legal

-----------------------------------------------------------------------------
(***************************************************************************)
(* The stack as the list of the names that are kept.                       *)
(***************************************************************************)
\* What a URL and a decoded path are made of.
Pieces == STRING \cup {"/", ".", "NUL", "index.html"}

\* How many places of K there are up to k.
Rank(K, k) == Cardinality(K \cap 1..k)

\* parts holds the segments that end at the places of K, in the order of the places.
IsList(path, parts, K) ==
  /\ parts \in Seq(Seq(Pieces))
  /\ Len(parts) = Cardinality(K)
  /\ \A k \in K : Rank(K, k) \in 1..Len(parts) /\ parts[Rank(K, k)] = Segment(path, k)
  /\ \A m \in 1..Len(parts) : \E k \in K : Rank(K, k) = m

\* Nothing is listed for no place.
LEMMA EmptyList ==
  ASSUME NEW path
  PROVE  IsList(path, <<>>, {})
<1>1. Cardinality({}) = 0 BY FS_EmptySet
<1>2. <<>> \in Seq(Seq(Pieces)) /\ Len(<<>>) = 0 OBVIOUS
<1>3. \A m \in 1..0 : FALSE OBVIOUS
<1> QED BY <1>1, <1>2, <1>3 DEF IsList

\* A new last place appends its segment.
LEMMA PushList ==
  ASSUME NEW path, NEW parts, NEW K \in SUBSET Nat, NEW t \in Nat \ {0}, NEW seg \in Seq(Pieces),
         IsFiniteSet(K), \A k \in K : 1 <= k /\ k < t, IsList(path, parts, K),
         seg = Segment(path, t)
  PROVE  IsList(path, Append(parts, seg), K \cup {t})
<1> DEFINE K1 == K \cup {t}
           p1 == Append(parts, seg)
<1>1. t \notin K OBVIOUS
<1>2. Cardinality(K) \in Nat /\ Cardinality(K1) = Cardinality(K) + 1
  BY <1>1, FS_AddElement, FS_CardinalityType
<1>3. parts \in Seq(Seq(Pieces)) /\ Len(parts) = Cardinality(K) BY DEF IsList
<1>4. /\ p1 \in Seq(Seq(Pieces)) /\ Len(p1) = Len(parts) + 1 /\ p1[Len(parts) + 1] = seg
      /\ \A m \in 1..Len(parts) : p1[m] = parts[m]
  BY <1>3
<1>5. Rank(K1, t) = Len(parts) + 1
  <2>0. \A k \in K1 : k \in 1..t OBVIOUS
  <2>1. K1 \cap 1..t = K1 BY <2>0
  <2> QED BY <1>2, <1>3, <2>1 DEF Rank
<1>6. ASSUME NEW k \in K
      PROVE  Rank(K1, k) = Rank(K, k)
  <2>1. t \notin 1..k OBVIOUS
  <2>2. K1 \cap 1..k = K \cap 1..k BY <2>1
  <2> QED BY <2>2 DEF Rank
<1> HIDE DEF p1
<1>7. ASSUME NEW k \in K1
      PROVE  Rank(K1, k) \in 1..Len(p1) /\ p1[Rank(K1, k)] = Segment(path, k)
  <2>1. CASE k = t
    <3>1. Len(parts) + 1 \in 1..(Len(parts) + 1) BY <1>2, <1>3
    <3>2. Rank(K1, k) = Len(parts) + 1 BY <1>5, <2>1
    <3>3. p1[Len(parts) + 1] = Segment(path, k) BY <1>4, <2>1
    <3> HIDE DEF K1
    <3> QED BY <1>4, <3>1, <3>2, <3>3
  <2>2. CASE k \in K
    <3>1. Rank(K, k) \in 1..Len(parts) /\ parts[Rank(K, k)] = Segment(path, k)
      BY <2>2 DEF IsList
    <3>2. Rank(K1, k) = Rank(K, k) BY <1>6, <2>2
    <3>3. Rank(K, k) \in 1..(Len(parts) + 1) BY <1>2, <1>3, <3>1
    <3>4. p1[Rank(K, k)] = Segment(path, k) BY <1>4, <3>1
    <3> HIDE DEF K1
    <3> QED BY <1>4, <3>2, <3>3, <3>4
  <2> QED BY <2>1, <2>2
<1>8. ASSUME NEW m \in 1..Len(p1) PROVE \E k \in K1 : Rank(K1, k) = m
  <2>1. CASE m = Len(parts) + 1 BY <1>5, <2>1
  <2>2. CASE m # Len(parts) + 1
    <3>1. m \in 1..Len(parts) BY <1>2, <1>3, <1>4, <2>2
    <3>2. PICK k \in K : Rank(K, k) = m BY <3>1 DEF IsList
    <3> QED BY <1>6, <3>2
  <2> QED BY <2>1, <2>2
<1>9. IsList(path, p1, K1) BY <1>2, <1>3, <1>4, <1>7, <1>8 DEF IsList
<1> QED BY <1>9 DEF p1

\* Without its last place, a list is without its last segment.
LEMMA PopList ==
  ASSUME NEW path, NEW parts, NEW K \in SUBSET Nat, NEW t \in K,
         IsFiniteSet(K), \A k \in K : 1 <= k /\ k <= t, IsList(path, parts, K)
  PROVE  parts # <<>> /\ IsList(path, Front(parts), K \ {t})
<1> DEFINE K1 == K \ {t}
           p1 == Front(parts)
<1>1. IsFiniteSet(K1) /\ Cardinality(K) \in Nat /\ Cardinality(K1) = Cardinality(K) - 1
  BY FS_RemoveElement, FS_CardinalityType
<1>0. Cardinality(K1) \in Nat BY <1>1, FS_CardinalityType
<1>2. parts \in Seq(Seq(Pieces)) /\ Len(parts) = Cardinality(K) BY DEF IsList
<1>3. Len(parts) >= 1 BY <1>0, <1>1, <1>2
<1>4. /\ p1 \in Seq(Seq(Pieces)) /\ Len(p1) = Len(parts) - 1
      /\ \A m \in 1..(Len(parts) - 1) : p1[m] = parts[m]
  BY <1>2, <1>3 DEF Front
<1>5. Rank(K, t) = Len(parts)
  <2>0. \A k \in K : k \in 1..t OBVIOUS
  <2>1. K \cap 1..t = K BY <2>0
  <2> QED BY <1>2, <2>1 DEF Rank
<1>6. ASSUME NEW k \in K1
      PROVE  Rank(K1, k) = Rank(K, k) /\ Rank(K1, k) \in 1..(Len(parts) - 1)
  <2>1. t \notin 1..k /\ k \in K BY <1>6
  <2>2. K1 \cap 1..k = K \cap 1..k BY <2>1
  <2>3. Rank(K1, k) = Rank(K, k) BY <2>2 DEF Rank
  <2>4. Rank(K, k) \in 1..Len(parts) BY <2>1 DEF IsList
  <2>5. Cardinality(K1 \cap 1..k) <= Cardinality(K1)
    <3>1. K1 \cap 1..k \in SUBSET K1 OBVIOUS
    <3> QED BY <1>1, <3>1, FS_Subset
  <2>6. Rank(K, k) <= Len(parts) - 1 BY <1>1, <1>2, <2>3, <2>5 DEF Rank
  <2>7. Rank(K, k) \in 1..(Len(parts) - 1) BY <1>1, <1>2, <2>4, <2>6
  <2> QED BY <2>3, <2>7
<1> HIDE DEF p1
<1>7. ASSUME NEW k \in K1
      PROVE  Rank(K1, k) \in 1..Len(p1) /\ p1[Rank(K1, k)] = Segment(path, k)
  <2>1. parts[Rank(K, k)] = Segment(path, k) BY <1>7 DEF IsList
  <2> QED BY <1>4, <1>6, <2>1
<1>8. ASSUME NEW m \in 1..Len(p1) PROVE \E k \in K1 : Rank(K1, k) = m
  <2>1. m \in 1..Len(parts) /\ m # Len(parts) BY <1>1, <1>2, <1>4
  <2>2. PICK k \in K : Rank(K, k) = m BY <2>1 DEF IsList
  <2>3. k # t BY <1>5, <2>1, <2>2
  <2> QED BY <1>6, <2>2, <2>3
<1>9. IsList(path, p1, K1) BY <1>1, <1>2, <1>4, <1>7, <1>8 DEF IsList
<1> QED BY <1>2, <1>3, <1>9 DEF p1

\* The segments in the order of their ranks, as Reference states it.
Listing(path, K) ==
  [m \in 1..Cardinality(K) |-> Segment(path, CHOOSE k \in K : Cardinality(K \cap 1..k) = m)]

\* A list is just that.
LEMMA ListIsReference ==
  ASSUME NEW path, NEW parts, NEW K, IsList(path, parts, K)
  PROVE  parts = Listing(path, K)
<1> DEFINE Nth(m) == CHOOSE k \in K : Cardinality(K \cap 1..k) = m
<1>1. parts \in Seq(Seq(Pieces)) /\ Len(parts) = Cardinality(K) BY DEF IsList
<1>2. ASSUME NEW m \in 1..Cardinality(K) PROVE parts[m] = Segment(path, Nth(m))
  <2>1. \E k \in K : Cardinality(K \cap 1..k) = m BY <1>1 DEF IsList, Rank
  <2>2. Nth(m) \in K /\ Cardinality(K \cap 1..Nth(m)) = m BY <2>1
  <2>3. Nth(m) \in K /\ Rank(K, Nth(m)) = m BY <2>2 DEF Rank
  <2> HIDE DEF Nth
  <2> QED BY <2>3 DEF IsList
<1>3. parts = [m \in 1..Cardinality(K) |-> parts[m]] BY <1>1
<1> HIDE DEF Nth
<1>4. parts = [m \in 1..Cardinality(K) |-> Segment(path, Nth(m))] BY <1>2, <1>3
<1> QED BY <1>4 DEF Nth, Listing

-----------------------------------------------------------------------------
(***************************************************************************)
(* The loop over the pieces.                                               *)
(***************************************************************************)
\* What the loop makes of one more piece.
ScanStep(path, acc, n) == IF n <= 1 THEN Begin ELSE NextPiece(acc, Piece(path, n))

\* The loop over the first n pieces.
ScanPart(path, g, n) == g = [m \in 0..n |-> ScanStep(path, g[m - 1], m)]

\* There is one for any number of pieces.
LEMMA ScanPartExists ==
  ASSUME NEW path, NEW n \in Nat
  PROVE  \E g : ScanPart(path, g, n)
<1> DEFINE Bad == {k \in Nat : ~\E g : ScanPart(path, g, k)}
<1> SUFFICES ASSUME Bad # {} PROVE FALSE
  OBVIOUS
<1>1. PICK k \in Bad : \A l \in Bad : k <= l BY LeastElement
<1>2. k # 0
  <2> DEFINE g == [m \in 0..0 |-> Begin]
  <2>1. ScanPart(path, g, 0)
    <3>1. g = [m \in 0..0 |-> ScanStep(path, g[m - 1], m)] BY DEF ScanStep
    <3> QED BY <3>1 DEF ScanPart
  <2> QED BY <2>1
<1>3. k - 1 \in Nat /\ k - 1 \notin Bad /\ k \in Nat BY <1>1, <1>2
<1>4. PICK g : ScanPart(path, g, k - 1) BY <1>3
<1> DEFINE h == [m \in 0..k |-> IF m = k THEN ScanStep(path, g[k - 1], k) ELSE g[m]]
<1>5. \A m \in 0..(k - 1) : g[m] = ScanStep(path, g[m - 1], m)
  BY <1>4 DEF ScanPart
<1>6. ASSUME NEW m \in 0..k PROVE h[m] = ScanStep(path, h[m - 1], m)
  <2>1. CASE m = k
    <3>1. k - 1 \in 0..k /\ k - 1 # k BY <1>3
    <3>2. h[k - 1] = g[k - 1] BY <3>1
    <3>3. h[k] = ScanStep(path, g[k - 1], k) BY <1>3
    <3> HIDE DEF h
    <3> QED BY <1>2, <2>1, <3>2, <3>3
  <2>2. CASE m # k
    <3>1. m \in 0..(k - 1) /\ (m # 0 => m - 1 \in 0..k /\ m - 1 # k) BY <1>3, <2>2
    <3>2. h[m] = g[m] /\ (m # 0 => h[m - 1] = g[m - 1]) BY <2>2, <3>1
    <3> HIDE DEF h
    <3>3. m <= 1 \/ m # 0 BY <3>1
    <3> QED BY <1>5, <3>1, <3>2, <3>3 DEF ScanStep
  <2> QED BY <2>1, <2>2
<1>7. h = [m \in 0..k |-> h[m]] OBVIOUS
<1> HIDE DEF h
<1>8. ScanPart(path, h, k) BY <1>6, <1>7 DEF ScanPart
<1> QED BY <1>8

\* Two of them agree on the pieces that both have.
LEMMA ScanPartsAgree ==
  ASSUME NEW path, NEW n \in Nat, NEW k \in Nat, NEW g, NEW h,
         ScanPart(path, g, n), ScanPart(path, h, k), NEW m \in Nat, m <= n, m <= k
  PROVE  g[m] = h[m]
<1> DEFINE Bad == {l \in Nat : l <= n /\ l <= k /\ g[l] # h[l]}
<1> SUFFICES ASSUME Bad # {} PROVE FALSE
  OBVIOUS
<1>1. PICK l \in Bad : \A o \in Bad : l <= o BY LeastElement
<1>2. l \in 0..n /\ l \in 0..k OBVIOUS
<1>3. g[l] = ScanStep(path, g[l - 1], l) /\ h[l] = ScanStep(path, h[l - 1], l)
  BY <1>2 DEF ScanPart
<1>4. l # 0 BY <1>3 DEF ScanStep
<1>5. l - 1 \notin Bad /\ l - 1 \in Nat /\ l - 1 <= n /\ l - 1 <= k BY <1>1, <1>4
<1> QED BY <1>3, <1>5

\* Scan is what its recursive definition says.
LEMMA ScanFact ==
  ASSUME NEW path
  PROVE  /\ Scan(path)[1] = Begin
         /\ \A n \in Nat \ {0} : Scan(path)[n + 1] = NextPiece(Scan(path)[n], Piece(path, n + 1))
<1> DEFINE P(n) == CHOOSE g : ScanPart(path, g, n)
           f == [n \in Nat |-> P(n)[n]]
<1>1. \A n \in Nat : ScanPart(path, P(n), n) BY ScanPartExists
<1> HIDE DEF P
<1>2. ASSUME NEW n \in Nat PROVE f[n] = ScanStep(path, f[n - 1], n)
  <2>1. n \in 0..n /\ f[n] = P(n)[n] OBVIOUS
  <2>2. P(n)[n] = ScanStep(path, P(n)[n - 1], n) BY <1>1, <2>1 DEF ScanPart
  <2>3. ASSUME n # 0 PROVE f[n - 1] = P(n)[n - 1]
    <3>1. n - 1 \in Nat /\ n - 1 <= n /\ n - 1 <= n - 1 BY <2>3
    <3>2. ScanPart(path, P(n), n) /\ ScanPart(path, P(n - 1), n - 1) BY <1>1, <3>1
    <3>3. P(n - 1)[n - 1] = P(n)[n - 1] BY <3>1, <3>2, ScanPartsAgree
    <3> QED BY <3>1, <3>3
  <2>4. n <= 1 \/ n # 0 OBVIOUS
  <2> HIDE DEF f
  <2> QED BY <2>1, <2>2, <2>3, <2>4 DEF ScanStep
<1>3. f = [n \in Nat |-> f[n]] OBVIOUS
<1> HIDE DEF f
<1>4. f = [n \in Nat |-> ScanStep(path, f[n - 1], n)] BY <1>2, <1>3
<1>5. Scan(path) = CHOOSE g : g = [n \in Nat |-> ScanStep(path, g[n - 1], n)]
  BY DEF Scan, ScanStep
<1>6. Scan(path) = [n \in Nat |-> ScanStep(path, Scan(path)[n - 1], n)]
  BY <1>4, <1>5
<1> HIDE DEF Scan
<1>7. Scan(path)[1] = Begin BY <1>6 DEF ScanStep
<1>8. ASSUME NEW n \in Nat \ {0}
      PROVE  Scan(path)[n + 1] = NextPiece(Scan(path)[n], Piece(path, n + 1))
  <2>1. n + 1 \in Nat /\ ~(n + 1 <= 1) /\ n + 1 - 1 = n OBVIOUS
  <2>2. Scan(path)[n + 1] = ScanStep(path, Scan(path)[n + 1 - 1], n + 1) BY <1>6, <2>1
  <2> QED BY <2>1, <2>2 DEF ScanStep
<1> QED BY <1>7, <1>8

\* The segment between two slashes that have none between them.
LEMMA SegmentFact ==
  ASSUME NEW path \in Seq(Pieces), NEW e \in Nat, NEW s \in 1..(e - 1), path[s] = "/",
         \A k \in (s + 1)..(e - 1) : path[k] # "/"
  PROVE  Segment(path, e) = SubSeq(path, s + 1, e - 1)
<1> DEFINE P(r) == path[r] = "/" /\ \A k \in (r + 1)..(e - 1) : path[k] # "/"
           c == CHOOSE r \in 1..(e - 1) : P(r)
<1>1. c \in 1..(e - 1) /\ P(c) OBVIOUS
<1>2. Segment(path, e) = SubSeq(path, c + 1, e - 1) BY DEF Segment
<1> HIDE DEF c
<1>3. c = s
  <2>1. ~(c < s)
    <3>1. c < s => s \in (c + 1)..(e - 1) BY <1>1
    <3> QED BY <1>1, <3>1
  <2>2. ~(s < c)
    <3>1. s < c => c \in (s + 1)..(e - 1) BY <1>1
    <3> QED BY <1>1, <3>1
  <2> QED BY <1>1, <2>1, <2>2
<1> QED BY <1>2, <1>3

\* What the loop holds between two iterations.
Accs == [parts : Seq(Seq(Pieces)), seg : Seq(Pieces), legal : BOOLEAN]

\* seg is what follows the last slash up to n.
OpenSegment(path, seg, n) ==
  \E s \in 1..n : /\ path[s] = "/" /\ \A k \in (s + 1)..n : path[k] # "/"
                  /\ seg = SubSeq(path, s + 1, n)

\* The loop's invariant: the stack holds the names that are not cancelled.
Stacked(path, acc, n) ==
  /\ acc \in Accs
  /\ acc.legal <=> Legal(Names(path), Ups(path), n)
  /\ acc.legal => /\ Balanced(Names(path), Ups(path), n)
                  /\ IsList(path, acc.parts, Kept(Names(path), Ups(path), n))
                  /\ n <= Len(path) => OpenSegment(path, acc.seg, n)

\* The places of a path.
LEMMA Places ==
  ASSUME NEW path \in Seq(Pieces), NEW n \in Nat
  PROVE  /\ Names(path) \in SUBSET Nat /\ \A k \in Names(path) : k >= 2
         /\ Kept(Names(path), Ups(path), n) \in SUBSET Nat
         /\ \A k \in Kept(Names(path), Ups(path), n) : 2 <= k /\ k <= n
         /\ IsFiniteSet(Kept(Names(path), Ups(path), n))
<1> DEFINE K == Kept(Names(path), Ups(path), n)
<1>1. Len(path) \in Nat OBVIOUS
<1>2. Names(path) \in SUBSET Nat /\ \A k \in Names(path) : k >= 2 BY <1>1 DEF Names, Ends
<1>3. K \in SUBSET Nat /\ (\A k \in K : 2 <= k /\ k <= n) BY <1>2 DEF Kept
<1>4. K \subseteq 2..n BY <1>3
<1>5. IsFiniteSet(2..n) BY FS_Interval
<1> QED BY <1>2, <1>3, <1>4, <1>5, FS_Subset

\* The loop starts behind the first slash.
LEMMA StackedBegin ==
  ASSUME NEW path \in Seq(Pieces), path # <<>>, path[1] = "/"
  PROVE  Stacked(path, Begin, 1)
<1> DEFINE names == Names(path)
           ups == Ups(path)
<1>1. Kept(names, ups, 1) = {}
  <2>1. \A k \in Kept(names, ups, 1) : k \in Nat /\ 2 <= k /\ k <= 1 BY Places
  <2> QED BY <2>1
<1>2. Balance(names, ups, 1, 1) = 0 BY BalanceStep
<1>3. Legal(names, ups, 1)
  <2>1. \A e \in 1..1 : e = 1 OBVIOUS
  <2> HIDE DEF names, ups
  <2> QED BY <1>2, <2>1 DEF Legal
<1>4. Balanced(names, ups, 1)
  <2>1. {} \cap (1 + 1)..1 = {} OBVIOUS
  <2>2. Height({}, 1, 1) = 0 BY <2>1, FS_EmptySet DEF Height
  <2> HIDE DEF names, ups
  <2> QED BY <1>1, <1>2, <2>2 DEF Balanced
<1>5. IsList(path, <<>>, Kept(names, ups, 1)) BY <1>1, EmptyList
<1>6. OpenSegment(path, <<>>, 1)
  <2>1. 1 \in 1..1 /\ (\A k \in (1 + 1)..1 : FALSE) /\ SubSeq(path, 1 + 1, 1) = <<>> OBVIOUS
  <2> QED BY <2>1 DEF OpenSegment
<1>7. Begin \in Accs /\ Begin.legal /\ Begin.parts = <<>> /\ Begin.seg = <<>> BY DEF Begin, Accs
<1> QED BY <1>3, <1>4, <1>5, <1>6, <1>7 DEF Stacked

\* An ignored segment is not "..".
LEMMA NotBoth ==
  ASSUME NEW seg
  PROVE  ~(Ignored(seg) /\ DotDot(seg))
<1>1. Len(<<>>) = 0 /\ Len(<<".">>) = 1 /\ Len(<<"..">>) = 1 /\ Len(<<".", ".">>) = 2 OBVIOUS
<1>2. <<".">>[1] = "." /\ <<"..">>[1] = ".." /\ "." # ".." OBVIOUS
<1>3. <<".">> # <<"..">> BY <1>2
<1> QED BY <1>1, <1>3 DEF Ignored, DotDot

\* A piece of a segment.
LEMMA StackedPiece ==
  ASSUME NEW path \in Seq(Pieces), NEW n \in 1..Len(path), NEW acc, Stacked(path, acc, n),
         acc.legal, Piece(path, n + 1) # "/"
  PROVE  Stacked(path, NextPiece(acc, Piece(path, n + 1)), n + 1)
<1> DEFINE names == Names(path)
           ups == Ups(path)
           a1 == NextPiece(acc, Piece(path, n + 1))
<1>1. n + 1 <= Len(path) /\ Piece(path, n + 1) = path[n + 1] /\ n \in Nat \ {0} BY DEF Piece
<1>2. n + 1 \notin names /\ n + 1 \notin ups BY DEF Names, Ups, Ends
<1>3. acc \in Accs /\ Legal(names, ups, n) /\ Balanced(names, ups, n)
      /\ IsList(path, acc.parts, Kept(names, ups, n)) /\ OpenSegment(path, acc.seg, n)
  BY DEF Stacked
<1>4. names \in SUBSET Nat /\ \A k \in names : k >= 2 BY Places
<1>5. PICK s \in 1..n : /\ path[s] = "/" /\ \A k \in (s + 1)..n : path[k] # "/"
                        /\ acc.seg = SubSeq(path, s + 1, n)
  BY <1>3 DEF OpenSegment
<1>6. path[n + 1] \in Pieces BY <1>1
<1>7. a1 \in Accs /\ a1.legal /\ a1.parts = acc.parts /\ a1.seg = Append(acc.seg, path[n + 1])
  <2>1. acc.seg \in Seq(Pieces) /\ acc.parts \in Seq(Seq(Pieces)) BY <1>3 DEF Accs
  <2>2. Append(acc.seg, path[n + 1]) \in Seq(Pieces) BY <1>6, <2>1
  <2> DEFINE t == Append(acc.seg, path[n + 1])
  <2>3. t \in Seq(Pieces) /\ a1 = [acc EXCEPT !.seg = t] BY <1>1, <2>2 DEF NextPiece
  <2> HIDE DEF a1, t
  <2>4. a1 \in Accs /\ a1.legal = acc.legal /\ a1.parts = acc.parts /\ a1.seg = t
    BY <1>3, <2>3 DEF Accs
  <2> QED BY <2>4 DEF t
<1>8. Append(acc.seg, path[n + 1]) = SubSeq(path, s + 1, n + 1)
  BY <1>1, <1>5
<1>9. OpenSegment(path, a1.seg, n + 1)
  <2>1. \A k \in (s + 1)..(n + 1) : k \in (s + 1)..n \/ k = n + 1 OBVIOUS
  <2>2. path[n + 1] # "/" BY <1>1
  <2>3. s \in 1..(n + 1) OBVIOUS
  <2> QED BY <1>5, <1>7, <1>8, <2>1, <2>2, <2>3 DEF OpenSegment
<1> HIDE DEF names, ups, a1
<1>10. /\ Kept(names, ups, n + 1) = Kept(names, ups, n)
       /\ Legal(names, ups, n + 1) /\ Balanced(names, ups, n + 1)
  BY <1>1, <1>2, <1>3, <1>4, KeptAside
<1>11. Stacked(path, a1, n + 1)
  BY <1>3, <1>7, <1>9, <1>10 DEF Stacked, names, ups
<1> QED BY <1>11 DEF a1

\* The end of a segment.
LEMMA StackedEnd ==
  ASSUME NEW path \in Seq(Pieces), NEW n \in 1..Len(path), NEW acc, Stacked(path, acc, n),
         acc.legal, Piece(path, n + 1) = "/"
  PROVE  Stacked(path, EndSegment(acc), n + 1)
<1> DEFINE names == Names(path)
           ups == Ups(path)
           K == Kept(names, ups, n)
           a1 == EndSegment(acc)
<1>1. acc \in Accs /\ Legal(names, ups, n) /\ Balanced(names, ups, n)
      /\ IsList(path, acc.parts, K) /\ OpenSegment(path, acc.seg, n)
  BY DEF Stacked
<1>2. names \in SUBSET Nat /\ \A k \in names : k >= 2 BY Places
<1>3. K \in SUBSET Nat /\ IsFiniteSet(K) /\ \A k \in K : 2 <= k /\ k <= n BY Places
<1>4. acc.seg = Segment(path, n + 1)
  <2>1. PICK s \in 1..n : /\ path[s] = "/" /\ \A k \in (s + 1)..n : path[k] # "/"
                          /\ acc.seg = SubSeq(path, s + 1, n)
    BY <1>1 DEF OpenSegment
  <2>2. n + 1 \in Nat /\ n + 1 - 1 = n OBVIOUS
  <2> QED BY <2>1, <2>2, SegmentFact
<1>5. /\ n + 1 \in Ends(path)
      /\ n + 1 \in ups <=> DotDot(acc.seg)
      /\ n + 1 \in names <=> ~Ignored(acc.seg) /\ ~DotDot(acc.seg)
  <2>1. n + 1 \in Ends(path) BY DEF Ends
  <2> QED BY <1>4, <2>1 DEF Names, Ups
<1>6. ASSUME NEW seg, seg = <<>> PROVE n + 1 <= Len(path) => OpenSegment(path, seg, n + 1)
  <2>1. n + 1 \in 1..(n + 1) /\ (\A k \in (n + 1 + 1)..(n + 1) : FALSE)
        /\ SubSeq(path, n + 1 + 1, n + 1) = <<>>
    OBVIOUS
  <2>2. n + 1 <= Len(path) => path[n + 1] = "/" BY DEF Piece
  <2> QED BY <1>6, <2>1, <2>2 DEF OpenSegment
<1>7. n \in Nat \ {0} OBVIOUS
<1>8. ~(Ignored(acc.seg) /\ DotDot(acc.seg)) BY NotBoth
<1>9. /\ acc.parts \in Seq(Seq(Pieces)) /\ acc.seg \in Seq(Pieces) /\ acc.legal = TRUE
      /\ <<>> \in Seq(Pieces)
  BY <1>1 DEF Accs
<1>14. ASSUME DotDot(acc.seg)
       PROVE  /\ Legal(names, ups, n + 1) <=> K # {}
              /\ \A t \in K : (\A l \in K : l <= t) =>
                   Kept(names, ups, n + 1) = K \ {t} /\ Balanced(names, ups, n + 1)
  <2>1. n + 1 \notin names /\ n + 1 \in ups BY <1>5, <1>14
  <2> HIDE DEF names, ups
  <2> QED BY <1>1, <1>2, <1>7, <2>1, KeptUp, Zenon
<1> HIDE DEF names, ups, K
<1>10. CASE Ignored(acc.seg)
  <2>1. a1 \in Accs /\ a1.legal /\ a1.parts = acc.parts /\ a1.seg = <<>>
    <3>1. a1 = [acc EXCEPT !.seg = <<>>] BY <1>8, <1>10 DEF EndSegment
    <3> HIDE DEF a1
    <3> QED BY <1>1, <1>9, <3>1 DEF Accs
  <2>2. n + 1 \notin names /\ n + 1 \notin ups BY <1>5, <1>8, <1>10
  <2>3. /\ Kept(names, ups, n + 1) = K
        /\ Legal(names, ups, n + 1) /\ Balanced(names, ups, n + 1)
    BY <1>1, <1>2, <1>7, <2>2, KeptAside DEF K
  <2> QED BY <1>1, <1>6, <2>1, <2>3 DEF Stacked, names, ups
<1>11. CASE DotDot(acc.seg) /\ acc.parts = <<>>
  <2>1. a1 \in Accs /\ ~a1.legal
    <3>1. a1 = [acc EXCEPT !.legal = FALSE] BY <1>8, <1>11 DEF EndSegment
    <3> HIDE DEF a1
    <3> QED BY <1>1, <3>1 DEF Accs
  <2>2. n + 1 \notin names /\ n + 1 \in ups BY <1>5, <1>11
  <2>3. K = {}
    <3>1. Cardinality(K) = 0 BY <1>1, <1>11 DEF IsList
    <3> QED BY <1>3, <3>1, FS_EmptySet
  <2>4. ~Legal(names, ups, n + 1) BY <1>11, <1>14, <2>3
  <2> QED BY <2>1, <2>4 DEF Stacked, names, ups
<1>12. CASE DotDot(acc.seg) /\ acc.parts # <<>>
  <2>1. K # {}
    <3>1. Len(acc.parts) # 0 BY <1>9, <1>12
    <3> QED BY <1>1, <3>1, FS_EmptySet DEF IsList
  <2>2. PICK t \in K : \A l \in K : l <= t BY <1>3, <1>7, <2>1, LastPlace
  <2>3. n + 1 \notin names /\ n + 1 \in ups BY <1>5, <1>12
  <2>4. /\ Legal(names, ups, n + 1) /\ Balanced(names, ups, n + 1)
        /\ Kept(names, ups, n + 1) = K \ {t}
    BY <1>12, <1>14, <2>1, <2>2
  <2>5. \A k \in K : 1 <= k /\ k <= t BY <1>3, <2>2
  <2>6. IsList(path, Front(acc.parts), K \ {t}) BY <1>1, <1>3, <2>2, <2>5, PopList
  <2>7. a1 = [acc EXCEPT !.seg = <<>>, !.parts = Front(@)]
    BY <1>8, <1>12 DEF EndSegment
  <2>8. Front(acc.parts) \in Seq(Seq(Pieces)) BY <2>6 DEF IsList
  <2>9. a1 \in Accs /\ a1.legal /\ a1.parts = Front(acc.parts) /\ a1.seg = <<>>
    <3> DEFINE p == Front(acc.parts)
    <3>1. p \in Seq(Seq(Pieces)) /\ a1 = [acc EXCEPT !.seg = <<>>, !.parts = p] BY <2>7, <2>8
    <3> HIDE DEF a1, p
    <3>2. a1 \in Accs /\ a1.legal /\ a1.parts = p /\ a1.seg = <<>>
      BY <1>1, <1>9, <3>1 DEF Accs
    <3> QED BY <3>2 DEF p
  <2> QED BY <1>6, <2>4, <2>6, <2>9 DEF Stacked, names, ups
<1>13. CASE ~Ignored(acc.seg) /\ ~DotDot(acc.seg)
  <2>1. a1 = [acc EXCEPT !.seg = <<>>, !.parts = Append(@, acc.seg)]
    BY <1>13 DEF EndSegment
  <2>2. Append(acc.parts, acc.seg) \in Seq(Seq(Pieces)) BY <1>9
  <2>3. a1 \in Accs /\ a1.legal /\ a1.parts = Append(acc.parts, acc.seg) /\ a1.seg = <<>>
    <3> DEFINE p == Append(acc.parts, acc.seg)
    <3>1. p \in Seq(Seq(Pieces)) /\ a1 = [acc EXCEPT !.seg = <<>>, !.parts = p] BY <2>1, <2>2
    <3> HIDE DEF a1, p
    <3>2. a1 \in Accs /\ a1.legal /\ a1.parts = p /\ a1.seg = <<>>
      BY <1>1, <1>9, <3>1 DEF Accs
    <3> QED BY <3>2 DEF p
  <2>4. n + 1 \in names /\ n + 1 \notin ups BY <1>5, <1>13
  <2>5. /\ Legal(names, ups, n + 1) /\ Balanced(names, ups, n + 1)
        /\ Kept(names, ups, n + 1) = K \cup {n + 1}
    BY <1>1, <1>2, <1>7, <2>4, KeptName DEF K
  <2>6. n + 1 \in Nat \ {0} /\ \A k \in K : 1 <= k /\ k < n + 1 BY <1>3, <1>7
  <2>7. IsList(path, Append(acc.parts, acc.seg), K \cup {n + 1})
    BY <1>1, <1>3, <1>4, <1>9, <2>6, PushList
  <2> QED BY <1>6, <2>3, <2>5, <2>7 DEF Stacked, names, ups
<1> QED BY <1>10, <1>11, <1>12, <1>13

\* The loop keeps it up to the end of the path.
LEMMA ScanStacked ==
  ASSUME NEW path \in Seq(Pieces), path # <<>>, path[1] = "/", NEW n \in 1..(Len(path) + 1)
  PROVE  Stacked(path, Scan(path)[n], n)
<1> DEFINE Bad == {k \in Nat : 1 <= k /\ k <= Len(path) + 1 /\ ~Stacked(path, Scan(path)[k], k)}
<1> SUFFICES ASSUME Bad # {} PROVE FALSE
  OBVIOUS
<1>1. PICK k \in Bad : \A l \in Bad : k <= l BY LeastElement
<1>2. k # 1 BY ScanFact, StackedBegin
<1> DEFINE m == k - 1
           a == Scan(path)[m]
<1>3. m \in 1..Len(path) /\ m \in Nat \ {0} /\ k = m + 1 /\ m \notin Bad /\ m <= Len(path) + 1
  BY <1>1, <1>2
<1>4. Stacked(path, a, m) BY <1>3
<1>5. Scan(path)[k] = NextPiece(a, Piece(path, m + 1))
  <2> HIDE DEF m
  <2> QED BY <1>3, ScanFact
<1>6. ~Stacked(path, Scan(path)[k], k) OBVIOUS
<1> HIDE DEF m, a, Bad
<1>7. CASE ~a.legal
  <2>1. ~Legal(Names(path), Ups(path), m + 1) BY <1>3, <1>4, <1>7, LegalBefore DEF Stacked
  <2>2. Scan(path)[k] = a BY <1>5, <1>7 DEF NextPiece
  <2> QED BY <1>3, <1>4, <1>6, <1>7, <2>1, <2>2 DEF Stacked
<1>8. CASE a.legal /\ Piece(path, m + 1) = "/"
  <2>1. Scan(path)[k] = EndSegment(a) BY <1>5, <1>8 DEF NextPiece
  <2> QED BY <1>3, <1>4, <1>6, <1>8, <2>1, StackedEnd
<1>9. CASE a.legal /\ Piece(path, m + 1) # "/"
  <2>1. Stacked(path, NextPiece(a, Piece(path, m + 1)), m + 1)
    BY <1>3, <1>4, <1>9, StackedPiece
  <2> QED BY <1>3, <1>5, <1>6, <2>1
<1> QED BY <1>7, <1>8, <1>9

\* What make_safe_path normalises is a sequence of pieces.
LEMMA DecodedPath ==
  ASSUME NEW url_path \in Seq(Pieces)
  PROVE  url_decode(CutQuery(url_path)) \in Seq(Pieces)
<1> DEFINE s == CutQuery(url_path)
           q == SelectInSeq(url_path, LAMBDA c : c = "?")
<1>1. s \in Seq(Pieces)
  <2> DEFINE I == {i \in 1..Len(url_path) : url_path[i] = "?"}
  <2>1. q = IF I # {} THEN Min(I) ELSE 0 BY DEF SelectInSeq
  <2>2. CASE I = {}
    <3>1. s = url_path BY <2>1, <2>2 DEF CutQuery
    <3> QED BY <3>1
  <2>3. CASE I # {}
    <3>1. I \in SUBSET Nat OBVIOUS
    <3>2. PICK l \in I : \A i \in I : l <= i BY <2>3, <3>1, LeastElement
    <3>3. Min(I) \in I BY <3>2 DEF Min
    <3> DEFINE r == Min(I)
    <3>4. r \in 1..Len(url_path) BY <3>3
    <3>5. q = r BY <2>1, <2>3
    <3> HIDE DEF r
    <3>6. s = SubSeq(url_path, 1, r - 1) BY <3>4, <3>5 DEF CutQuery
    <3> QED BY <3>4, <3>6
  <2> QED BY <2>2, <2>3
<1> HIDE DEF s
<1>2. url_decode(s) \in [1..Len(s) -> Pieces]
  <2>1. DOMAIN s = 1..Len(s) /\ \A i \in 1..Len(s) : s[i] \in Pieces BY <1>1
  <2>2. url_decode(s) = [i \in 1..Len(s) |-> url_decode(s)[i]] BY <2>1 DEF url_decode
  <2>3. ASSUME NEW i \in 1..Len(s) PROVE url_decode(s)[i] \in Pieces
    <3>1. "%2f" # "%2e" /\ "%2f" # "%00" /\ "%2e" # "%00" OBVIOUS
    <3>2. CASE s[i] = "%2f"
      <4>1. url_decode(s)[i] = "/" BY <2>1, <3>1, <3>2 DEF url_decode
      <4> QED BY <4>1 DEF Pieces
    <3>3. CASE s[i] = "%2e"
      <4>1. url_decode(s)[i] = "." BY <2>1, <3>1, <3>3 DEF url_decode
      <4> QED BY <4>1 DEF Pieces
    <3>4. CASE s[i] = "%00"
      <4>1. url_decode(s)[i] = "NUL" BY <2>1, <3>1, <3>4 DEF url_decode
      <4> QED BY <4>1 DEF Pieces
    <3>5. CASE s[i] \notin {"%2f", "%2e", "%00"} BY <2>1, <3>5 DEF url_decode
    <3> QED BY <3>2, <3>3, <3>4, <3>5
  <2> QED BY <2>2, <2>3
<1>3. Len(s) \in Nat BY <1>1
<1> QED BY <1>2, <1>3 DEF s

\* make_safe_path does what it is meant to do, on every URL.
LEMMA SafePathFact ==
  ASSUME NEW url_path \in Seq(Pieces)
  PROVE  make_safe_path(url_path) = Reference(url_path)
<1> DEFINE path == url_decode(CutQuery(url_path))
           last == Len(path) + 1
           done == Scan(path)[last]
           kept == Kept(Names(path), Ups(path), last)
<1>1. path \in Seq(Pieces) BY DecodedPath
<1>2. CASE path = <<>> \/ path[1] # "/" BY <1>2 DEF make_safe_path, Reference
<1>3. CASE path # <<>> /\ path[1] = "/"
  <2> HIDE DEF path
  <2>1. last \in 1..(Len(path) + 1) BY <1>1
  <2>2. Stacked(path, done, last) BY <1>1, <1>3, <2>1, ScanStacked
  <2>3. make_safe_path(url_path) = IF ~done.legal THEN Empty
                              ELSE IF done.parts = <<>> THEN <<IndexHtml>> ELSE done.parts
    BY <1>3 DEF make_safe_path, path
  <2>4. Reference(url_path) =
          IF ~Legal(Names(path), Ups(path), last) THEN Empty
          ELSE IF kept = {} THEN <<IndexHtml>>
          ELSE Listing(path, kept)
    BY <1>3 DEF Reference, Listing, path
  <2>5. last \in Nat /\ IsFiniteSet(kept)
    <3>1. last \in Nat BY <1>1
    <3> QED BY <1>1, <3>1, Places
  <2>6. done.legal <=> Legal(Names(path), Ups(path), last) BY <2>2 DEF Stacked
  <2>7. done.legal => IsList(path, done.parts, kept) BY <2>2 DEF Stacked
  <2> HIDE DEF last, done, kept
  <2>8. CASE ~done.legal BY <2>3, <2>4, <2>6, <2>8
  <2>9. CASE done.legal
    <3>1. done.parts = Listing(path, kept) BY <2>7, <2>9, ListIsReference
    <3>2. done.parts \in Seq(Seq(Pieces)) /\ Len(done.parts) = Cardinality(kept)
      BY <2>7, <2>9 DEF IsList
    <3>3. done.parts = <<>> <=> Len(done.parts) = 0 BY <3>2
    <3>4. kept = {} <=> Cardinality(kept) = 0 BY <2>5, FS_EmptySet
    <3> QED BY <2>3, <2>4, <2>6, <2>9, <3>1, <3>2, <3>3, <3>4
  <2> QED BY <2>8, <2>9
<1> QED BY <1>2, <1>3

\* What make_safe_path leaves on its stack are segments without a slash, none of them
\* empty and none of dots alone.
LEMMA NameSegment ==
  ASSUME NEW path \in Seq(Pieces), path # <<>>, path[1] = "/", NEW k \in Names(path)
  PROVE  IsName(Segment(path, k))
<1>1. ~Ignored(Segment(path, k)) /\ ~DotDot(Segment(path, k))
  BY DEF Names, Ups
<1>2. k \in 2..(Len(path) + 1) BY DEF Names, Ends
<1> DEFINE S == {s \in 1..(k - 1) : path[s] = "/"}
<1>3. S \in SUBSET Nat /\ S # {} /\ \A l \in S : l <= k - 1
  <2>1. 1 \in S BY <1>2
  <2> QED BY <1>2, <2>1
<1>4. PICK s \in S : \A l \in S : l <= s
  <2>1. k - 1 \in Nat BY <1>2
  <2> HIDE DEF S
  <2> QED BY <1>3, <2>1, LastPlace
<1>5. \A l \in (s + 1)..(k - 1) : path[l] # "/"
  <2> SUFFICES ASSUME NEW l \in (s + 1)..(k - 1), path[l] = "/" PROVE FALSE
    OBVIOUS
  <2>1. l \in S BY <1>2
  <2>2. l <= s BY <1>4, <2>1
  <2> QED BY <2>2
<1>6. Segment(path, k) = SubSeq(path, s + 1, k - 1) BY <1>2, <1>5, SegmentFact
<1>7. ASSUME NEW i \in DOMAIN SubSeq(path, s + 1, k - 1)
      PROVE  SubSeq(path, s + 1, k - 1)[i] # "/"
  <2>1. s \in Nat /\ k \in Nat /\ s \in 1..(k - 1) /\ k - 1 <= Len(path) BY <1>2
  <2>2. DOMAIN SubSeq(path, s + 1, k - 1) = 1..(k - 1 - s)
    BY <2>1
  <2>3. i \in 1..(k - 1 - s) BY <2>2
  <2>4. SubSeq(path, s + 1, k - 1)[i] = path[s + i] BY <2>1, <2>3
  <2>5. s + i \in (s + 1)..(k - 1) BY <2>1, <2>3
  <2> QED BY <1>5, <2>4, <2>5
<1> QED BY <1>1, <1>6, <1>7 DEF Ignored, DotDot, IsName

\* A path whose segments are all names.
NamesOnly(segs) == segs \in Seq(Seq(Pieces)) /\ \A n \in DOMAIN segs : IsName(segs[n])

\* That is what make_safe_path returns, for every URL.
LEMMA SafePathNames ==
  ASSUME NEW url_path \in Seq(Pieces)
  PROVE  NamesOnly(make_safe_path(url_path))
<1> DEFINE path == url_decode(CutQuery(url_path))
           last == Len(path) + 1
           done == Scan(path)[last]
           kept == Kept(Names(path), Ups(path), last)
<1>0. NamesOnly(Empty)
  <2>1. <<>> \in Seq(Seq(Pieces)) /\ DOMAIN <<>> = {} OBVIOUS
  <2> QED BY <2>1 DEF NamesOnly, Empty
<1>1. NamesOnly(<<IndexHtml>>)
  <2>1. DOMAIN <<IndexHtml>> = 1..1 /\ <<IndexHtml>>[1] = IndexHtml OBVIOUS
  <2>2. DOMAIN IndexHtml = 1..1 /\ IndexHtml[1] = "index.html" /\ Len(IndexHtml) = 1
    BY DEF IndexHtml
  <2>3. IndexHtml \notin {<<>>, <<".">>, <<"..">>, <<".", ".">>}
    <3>1. Len(<<>>) = 0 /\ Len(<<".", ".">>) = 2 OBVIOUS
    <3>2. <<".">>[1] = "." /\ <<"..">>[1] = ".." OBVIOUS
    <3>3. "." # "index.html" /\ ".." # "index.html" OBVIOUS
    <3>4. IndexHtml # <<>> BY <2>2, <3>1
    <3>5. IndexHtml # <<".", ".">> BY <2>2, <3>1
    <3>6. IndexHtml # <<".">> BY <2>2, <3>2, <3>3
    <3>7. IndexHtml # <<"..">> BY <2>2, <3>2, <3>3
    <3> QED BY <3>4, <3>5, <3>6, <3>7
  <2>4. \A i \in 1..1 : i = 1 OBVIOUS
  <2>5. "index.html" \in Pieces BY DEF Pieces
  <2>6. IndexHtml \in Seq(Pieces) BY <2>5 DEF IndexHtml
  <2>7. IsName(IndexHtml) BY <2>2, <2>3, <2>4 DEF IsName
  <2> HIDE DEF IndexHtml
  <2> QED BY <2>1, <2>4, <2>6, <2>7 DEF NamesOnly
<1>2. path \in Seq(Pieces) BY DecodedPath
<1>3. CASE path = <<>> \/ path[1] # "/"
  BY <1>0, <1>3 DEF make_safe_path
<1>4. CASE path # <<>> /\ path[1] = "/"
  <2> HIDE DEF path
  <2>1. last \in 1..(Len(path) + 1) BY <1>2
  <2>2. Stacked(path, done, last) BY <1>2, <1>4, <2>1, ScanStacked
  <2>3. make_safe_path(url_path) = IF ~done.legal THEN Empty
                                   ELSE IF done.parts = <<>> THEN <<IndexHtml>> ELSE done.parts
    BY <1>4 DEF make_safe_path, path
  <2>4. ASSUME done.legal PROVE NamesOnly(done.parts)
    <3>1. IsList(path, done.parts, kept) BY <2>2, <2>4 DEF Stacked
    <3>2. kept \subseteq Names(path) BY DEF Kept
    <3> HIDE DEF done, kept
    <3>3. done.parts \in Seq(Seq(Pieces)) /\ DOMAIN done.parts = 1..Len(done.parts)
      BY <3>1 DEF IsList
    <3>4. \A n \in 1..Len(done.parts) : \E k \in Names(path) : done.parts[n] = Segment(path, k)
      BY <3>1, <3>2 DEF IsList
    <3> SUFFICES ASSUME NEW n \in DOMAIN done.parts
                 PROVE  IsName(done.parts[n])
      BY <3>3 DEF NamesOnly
    <3>5. PICK k \in Names(path) : done.parts[n] = Segment(path, k) BY <3>3, <3>4
    <3> QED BY <1>2, <1>4, <3>5, NameSegment
  <2> HIDE DEF done
  <2> QED BY <1>0, <1>1, <2>3, <2>4
<1> QED BY <1>3, <1>4

\* What is opened of such a path, up to the first NUL, is names and one segment that
\* may have been cut.
LEMMA OpenedNames ==
  ASSUME NEW segs, NamesOnly(segs)
  PROVE  \A n \in DOMAIN Opened(segs) :
           IsName(Opened(segs)[n]) \/ (n = Len(Opened(segs)) /\ Cut(segs) # {})
<1>0. /\ segs \in Seq(Seq(Pieces)) /\ DOMAIN segs = 1..Len(segs) /\ Len(segs) \in Nat
      /\ \A n \in 1..Len(segs) : IsName(segs[n])
  BY DEF NamesOnly
<1>1. CASE Cut(segs) = {}
  <2>1. Opened(segs) = segs BY <1>1 DEF Opened
  <2> QED BY <1>0, <2>1
<1>2. CASE Cut(segs) # {}
  <2> DEFINE c == Min(Cut(segs))
             seg == segs[c]
             I == {i \in 1..Len(seg) : seg[i] = "NUL"}
             i0 == Min(I)
             front == SubSeq(segs, 1, c - 1)
             tail == SubSeq(seg, 1, i0 - 1)
  <2>1. c \in Cut(segs)
    <3>1. Cut(segs) \in SUBSET Nat BY <1>0 DEF Cut
    <3>2. PICK l \in Cut(segs) : \A k \in Cut(segs) : l <= k BY <1>2, <3>1, LeastElement
    <3> QED BY <3>2 DEF Min
  <2> HIDE DEF c
  <2>2. c \in 1..Len(segs) /\ seg \in Seq(Pieces) /\ I # {}
    <3>1. c \in 1..Len(segs) BY <1>0, <2>1 DEF Cut
    <3>2. seg \in Seq(Pieces) BY <1>0, <3>1
    <3>3. \E i \in DOMAIN seg : seg[i] = "NUL" BY <2>1 DEF Cut
    <3> HIDE DEF seg
    <3> QED BY <3>1, <3>2, <3>3
  <2>3. i0 \in I
    <3>1. I \in SUBSET Nat OBVIOUS
    <3>2. PICK l \in I : \A i \in I : l <= i BY <2>2, <3>1, LeastElement
    <3> QED BY <3>2 DEF Min
  <2>4. SelectInSeq(seg, LAMBDA x : x = "NUL") = i0 BY <2>2 DEF SelectInSeq
  <2>5. Opened(segs) = Append(front, tail) BY <1>2, <2>4 DEF Opened, c
  <2>6. i0 \in 1..Len(seg) BY <2>3
  <2> HIDE DEF seg, I, i0
  <2>7. tail \in Seq(Pieces) BY <2>2, <2>6
  <2>8. /\ front \in Seq(Seq(Pieces)) /\ Len(front) = c - 1
        /\ \A n \in 1..(c - 1) : front[n] = segs[n]
    BY <1>0, <2>2
  <2> HIDE DEF tail, front
  <2>9. /\ DOMAIN Append(front, tail) = 1..c /\ Len(Append(front, tail)) = c
        /\ \A n \in 1..(c - 1) : Append(front, tail)[n] = front[n]
    BY <2>2, <2>7, <2>8
  <2> SUFFICES ASSUME NEW n \in 1..c, n # c PROVE IsName(Append(front, tail)[n])
    BY <1>2, <2>5, <2>9
  <2>10. n \in 1..(c - 1) /\ n \in 1..Len(segs) BY <2>2
  <2>11. Append(front, tail)[n] = segs[n] BY <2>8, <2>9, <2>10
  <2> QED BY <1>0, <2>10, <2>11
<1> QED BY <1>1, <1>2

-----------------------------------------------------------------------------
\* The path that the handler holds is that of the URL it holds.
TargetInv == safe_path = Reference(url) /\ NamesOnly(safe_path)

\* The URLs are sequences of pieces.
LEMMA UrlPieces ==
  ASSUME NEW u \in Urls
  PROVE  u \in Seq(Pieces)
<1>1. u \in Seq(STRING) BY WebAssumption
<1>2. Len(u) \in Nat /\ u \in [1..Len(u) -> STRING] BY <1>1
<1>3. STRING \subseteq Pieces BY DEF Pieces
<1>4. u \in [1..Len(u) -> Pieces] BY <1>2, <1>3
<1> QED BY <1>2, <1>4

\* A handler without a URL holds no path.
LEMMA NoTarget ==
  ASSUME NEW u, NEW p, u = <<>>, p = Empty
  PROVE  p = Reference(u) /\ NamesOnly(p)
<1>1. SelectInSeq(<<>>, LAMBDA c : c = "?") = 0
  <2>1. {i \in 1..Len(<<>>) : <<>>[i] = "?"} = {} OBVIOUS
  <2> QED BY <2>1 DEF SelectInSeq
<1>2. CutQuery(<<>>) = <<>> BY <1>1 DEF CutQuery
<1>3. url_decode(<<>>) = <<>> BY DEF url_decode
<1>4. Reference(<<>>) = Empty BY <1>2, <1>3 DEF Reference
<1>5. <<>> \in Seq(Seq(Pieces)) /\ DOMAIN <<>> = {} OBVIOUS
<1> QED BY <1>4, <1>5 DEF NamesOnly, Empty

\* Each step keeps it: Get takes a URL, and the answer forgets it.
LEMMA NextTarget == TargetInv /\ [Next]_vars => TargetInv'
<1> SUFFICES ASSUME TargetInv, [Next]_vars PROVE TargetInv'
  OBVIOUS
<1>1. CASE UNCHANGED target BY <1>1 DEF TargetInv, target
<1>2. CASE ForgetTarget BY <1>2, NoTarget DEF ForgetTarget, TargetInv
<1>3. ASSUME NEW u \in Urls, Get(u) PROVE TargetInv'
  <2>1. url' = u /\ safe_path' = make_safe_path(u) BY <1>3 DEF Get
  <2>2. u \in Seq(Pieces) BY UrlPieces
  <2>3. make_safe_path(u) = Reference(u) /\ NamesOnly(make_safe_path(u))
    BY <2>2, SafePathFact, SafePathNames
  <2> QED BY <2>1, <2>3 DEF TargetInv
<1>4. UNCHANGED target \/ ForgetTarget \/ \E u \in Urls : Get(u)
  BY DEF Next, ServerStep, vars, InitServer, Accept, AcceptFails, HandlerReturns, Recv,
         RecvEnd, RecvFails, RecvDone, ReadEnds, OtherMethod, SendStatus, Killed, Tell,
         ReadBlock, Send, SendFails, ClientChanges, FileChanges
<1> QED BY <1>1, <1>2, <1>3, <1>4

\* The path of the URL, in every state.
LEMMA TargetInvariance == Spec => []TargetInv
<1>1. Init => TargetInv BY NoTarget DEF Init, TargetInv
<1> QED BY <1>1, NextTarget, PTL DEF Spec

\* make_safe_path returns the normal form of every URL: the names that no ".." cancels,
\* in their order, and nothing if a ".." leads above the root.  A NUL is a character of
\* the string like any other.
THEOREM PathsCorrect == Spec => []PathsAreNormal
<1>1. TargetInv => PathsAreNormal BY DEF TargetInv, PathsAreNormal
<1> QED BY <1>1, TargetInvariance, PTL

\* Whatever the URL, the path that the handler opens goes down name by name, but for the
\* segment that a NUL cuts, which is its last.
THEOREM OpenedPaths == Spec => []OnlyACutLeadsUp
<1>1. TargetInv => OnlyACutLeadsUp BY OpenedNames DEF TargetInv, OnlyACutLeadsUp
<1> QED BY <1>1, TargetInvariance, PTL
=============================================================================
