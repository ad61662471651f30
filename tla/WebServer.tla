----------------------------- MODULE WebServer -----------------------------
(***************************************************************************)
(* easyServer_v1: TcpServer::run, which serves one connection after the    *)
(* other, and WebHandler::handler.                                         *)
(*                                                                         *)
(* stage is the place in handler (or "accept" between two connections).    *)
(* Requests, files and bodies are numbers of bytes; the request line is    *)
(* chosen when it is parsed.  The client may leave at any time, and the    *)
(* file may be changed by others while it is sent.                         *)
(***************************************************************************)
EXTENDS SafePath, FiniteSets

CONSTANTS
  Urls,              \* the URLs that clients ask for
  Pages,             \* the paths of the files below doc_root
  MAX_REQUEST_SIZE,
  RecvSize,          \* sizeof(tmp)
  SEND_BUF_SIZE,
  MaxStream,         \* bound: the bytes a client sends
  MaxFile,           \* bound: the length of a file
  MaxConnections     \* bound: the connections accepted

ASSUME WebAssumption ==
  /\ Urls \subseteq Seq(STRING)
  /\ MAX_REQUEST_SIZE \in Nat \ {0}
  /\ RecvSize \in Nat \ {0}
  /\ SEND_BUF_SIZE \in Nat \ {0}
  /\ MaxStream \in Nat /\ MaxFile \in Nat /\ MaxConnections \in Nat

VARIABLES
  stage,
  open,      \* number of descriptors accept has returned and nobody closed
  stream,    \* [len, head]: what the client sends, and where its CRLF CRLF ends
  out_request,  \* bytes read so far
  url, safe_path,
  answers,   \* the status lines sent on this connection
  fsize,     \* the Content-Length
  file,      \* [len, pos, eof]: the open file and the ifstream on it
  left,      \* what send_all has still to send of the block
  sent,      \* bytes of the body sent
  client,    \* "here", "idle" (it neither sends nor takes) or "gone"
  changed,   \* the file was changed while it was sent
  failed     \* send_all has failed

request == <<stream, out_request>>
target == <<url, safe_path>>
body == <<fsize, file, left, sent>>
vars == <<stage, open, request, target, answers, body, client, changed, failed>>

NoStream == [len |-> 0, head |-> 0]
NoFile == [len |-> 0, pos |-> 0, eof |-> FALSE]

Init ==
  /\ stage = "init"
  /\ open = 0
  /\ stream = NoStream
  /\ out_request = 0
  /\ url = <<>> /\ safe_path = Empty
  /\ answers = <<>>
  /\ fsize = 0 /\ file = NoFile /\ left = 0 /\ sent = 0
  /\ client = "here"
  /\ changed = FALSE /\ failed = FALSE

-----------------------------------------------------------------------------
(***************************************************************************)
(* TcpServer.                                                              *)
(***************************************************************************)
\* socket, bind and listen.  main calls run also when one of them has failed.
InitServer ==
  /\ stage = "init"
  /\ stage' \in {"accept", "unbound"}
  /\ UNCHANGED <<open, request, target, answers, body, client, changed, failed>>

\* tcpsv_accept; head = 0 stands for a request without CRLF CRLF.
Accept ==
  /\ stage = "accept"
  /\ open < MaxConnections
  /\ open' = open + 1
  /\ \E n \in 0..MaxStream, h \in 0..MaxStream :
       h <= n /\ stream' = [len |-> n, head |-> h]
  /\ out_request' = 0
  /\ answers' = <<>>
  /\ fsize' = 0 /\ file' = NoFile /\ left' = 0 /\ sent' = 0
  /\ client' = "here" /\ changed' = FALSE /\ failed' = FALSE
  /\ stage' = "recv"
  /\ UNCHANGED target

\* accept returns an error: the exception ends run, and main.
AcceptFails ==
  /\ stage \in {"accept", "unbound"}
  /\ stage' = "ended"
  /\ UNCHANGED <<open, request, target, answers, body, client, changed, failed>>

\* handler returns; run does not close connfd and accepts the next connection.
HandlerReturns ==
  /\ stage = "return"
  /\ stage' = "accept"
  /\ UNCHANGED <<open, request, target, answers, body, client, changed, failed>>

-----------------------------------------------------------------------------
(***************************************************************************)
(* read_request.                                                           *)
(***************************************************************************)
HeadComplete == stream.head # 0 /\ out_request >= stream.head

\* Mutant: read_request without its limit.
ReadOnUnlimited == ~HeadComplete

\* The condition of the while loop.
ReadOn == ~HeadComplete /\ out_request < MAX_REQUEST_SIZE

\* recv returns n bytes.
Recv ==
  /\ stage = "recv" /\ ReadOn /\ client # "idle"
  /\ \E n \in 1..RecvSize :
       /\ out_request + n <= stream.len
       /\ out_request' = out_request + n
  /\ UNCHANGED <<stage, open, stream, target, answers, body, client, changed, failed>>

\* read_request returns; nothing but its answer is used from here on.
ReadEnds(next) ==
  /\ stage' = next
  /\ stream' = NoStream /\ out_request' = 0
  /\ UNCHANGED <<open, target, answers, body, client, changed, failed>>

\* recv returns 0: the client has sent all it had and closed its side.
RecvEnd ==
  /\ stage = "recv" /\ ReadOn /\ client # "idle"
  /\ out_request = stream.len
  /\ ReadEnds(IF out_request = 0 THEN "send_400" ELSE "parse")

\* recv returns an error.
RecvFails ==
  /\ stage = "recv" /\ ReadOn
  /\ client = "gone"
  /\ ReadEnds("send_400")

\* Mutant: >= instead of > in the last test of the size.
RecvDoneAtLimit ==
  /\ stage = "recv" /\ ~ReadOn
  /\ ReadEnds(IF out_request >= MAX_REQUEST_SIZE THEN "send_400" ELSE "parse")

\* The loop ends at its condition; the size is tested once more.
RecvDone ==
  /\ stage = "recv" /\ ~ReadOn
  /\ ReadEnds(IF out_request > MAX_REQUEST_SIZE THEN "send_400" ELSE "parse")

-----------------------------------------------------------------------------
(***************************************************************************)
(* The request line.                                                       *)
(***************************************************************************)
OtherMethod ==
  /\ stage = "parse"
  /\ stage' = "send_501"
  /\ UNCHANGED <<open, request, target, answers, body, client, changed, failed>>

Get(u) ==
  /\ stage = "parse"
  /\ url' = u
  /\ safe_path' = make_safe_path(u)
  /\ stage' = IF safe_path' = Empty THEN "send_400"
              ELSE IF Opened(safe_path') \in Pages THEN "tell" ELSE "send_404"
  /\ UNCHANGED <<open, request, answers, body, client, changed, failed>>

-----------------------------------------------------------------------------
(***************************************************************************)
(* Sending.  To a client that has left, send may still succeed, or fail,   *)
(* or raise SIGPIPE, which nobody handles.                                 *)
(***************************************************************************)
StatusLines == {"send_400", "send_404", "send_501", "send_200"}

\* Mutant: the return after send_501 is missing, and the file is sent all the same.
AfterStatusFallsThrough(st) ==
  CASE st = "send_501" -> "tell" [] st = "send_200" -> "read" [] OTHER -> "return"

\* What follows the status line: the error pages end the handler.
AfterStatus(st) == IF st = "send_200" THEN "read" ELSE "return"

\* The path is not used any more.
ForgetTarget == url' = <<>> /\ safe_path' = Empty

\* send_response_headers ignores whether send_all succeeds.
SendStatus ==
  /\ stage \in StatusLines
  /\ answers' = Append(answers, stage)
  /\ failed' \in (IF client = "gone" THEN {failed, TRUE} ELSE {failed})
  /\ stage' = AfterStatus(stage)
  /\ ForgetTarget
  /\ UNCHANGED <<open, request, body, client, changed>>

Killed ==
  /\ stage \in StatusLines \cup {"send"}
  /\ client = "gone"
  /\ stage' = "killed"
  /\ UNCHANGED <<open, request, target, answers, body, client, changed, failed>>

\* seekg to the end, tellg, seekg back.
Tell ==
  /\ stage = "tell"
  /\ \E n \in 0..MaxFile :
       /\ file' = [len |-> n, pos |-> 0, eof |-> FALSE]
       /\ fsize' = n
  /\ stage' = "send_200"
  /\ ForgetTarget
  /\ UNCHANGED <<open, request, answers, left, sent, client, changed, failed>>

\* Mutant: an empty read does not end the loop.
ReadBlockNoBreak ==
  /\ stage = "read"
  /\ LET rest == IF file.len > file.pos THEN file.len - file.pos ELSE 0
         r == IF rest < SEND_BUF_SIZE THEN rest ELSE SEND_BUF_SIZE
     IN  /\ file' = [file EXCEPT !.pos = @ + r, !.eof = r < SEND_BUF_SIZE]
         /\ left' = r
         /\ stage' = IF r > 0 THEN "send" ELSE "read"
  /\ UNCHANGED <<open, request, target, answers, fsize, sent, client, changed, failed>>

\* ifs.read and gcount: up to a buffer of bytes, with eof if there were fewer.
ReadBlock ==
  /\ stage = "read"
  /\ LET rest == IF file.len > file.pos THEN file.len - file.pos ELSE 0
         r == IF rest < SEND_BUF_SIZE THEN rest ELSE SEND_BUF_SIZE
     IN  /\ file' = [file EXCEPT !.pos = @ + r, !.eof = r < SEND_BUF_SIZE]
         /\ left' = r
         /\ stage' = IF r > 0 THEN "send" ELSE "return"
  /\ UNCHANGED <<open, request, target, answers, fsize, sent, client, changed, failed>>

\* Mutant: send_all that sends once and takes the rest for sent.
SendOnce ==
  /\ stage = "send" /\ client # "idle"
  /\ \E n \in 1..left : sent' = sent + n
  /\ left' = 0
  /\ stage' = IF file.eof THEN "return" ELSE "read"
  /\ UNCHANGED <<open, request, target, answers, fsize, file, client, changed, failed>>

\* One send of send_all: any number of the bytes left.
Send ==
  /\ stage = "send" /\ client # "idle"
  /\ \E n \in 1..left : sent' = sent + n /\ left' = left - n
  /\ stage' = IF left' > 0 THEN "send" ELSE IF file.eof THEN "return" ELSE "read"
  /\ UNCHANGED <<open, request, target, answers, fsize, file, client, changed, failed>>

\* send returns an error: send_all returns false and the loop is left.
SendFails ==
  /\ stage = "send"
  /\ client = "gone"
  /\ failed' = TRUE
  /\ stage' = "return"
  /\ UNCHANGED <<open, request, target, answers, body, client, changed>>

-----------------------------------------------------------------------------
(***************************************************************************)
(* The environment.                                                        *)
(***************************************************************************)
ClientChanges ==
  /\ stage \notin {"init", "unbound", "accept", "ended", "killed", "return"}
  /\ \/ client = "here" /\ client' \in {"idle", "gone"}
     \/ client = "idle" /\ client' = "gone"
  /\ UNCHANGED <<stage, open, request, target, answers, body, changed, failed>>

FileChanges ==
  /\ stage \in {"send_200", "read", "send"}
  /\ ~changed /\ changed' = TRUE
  /\ \E n \in 0..MaxFile : file' = [file EXCEPT !.len = n]
  /\ UNCHANGED <<stage, open, request, target, answers, fsize, left, sent, client, failed>>

-----------------------------------------------------------------------------
ServerStep ==
  \/ HandlerReturns
  \/ Recv \/ RecvEnd \/ RecvFails \/ RecvDone
  \/ OtherMethod \/ \E u \in Urls : Get(u)
  \/ SendStatus \/ Killed \/ Tell \/ ReadBlock \/ Send \/ SendFails

Next ==
  \/ InitServer \/ Accept \/ AcceptFails
  \/ ServerStep \/ ClientChanges \/ FileChanges

\* The server's thread runs whenever a call of its returns.
Spec == Init /\ [][Next]_vars /\ WF_vars(ServerStep)

-----------------------------------------------------------------------------
(***************************************************************************)
(* Properties.                                                             *)
(***************************************************************************)
Stages == {"init", "unbound", "accept", "ended", "killed", "recv", "parse", "tell", "read", "send",
           "return"} \cup StatusLines

\* The values of the handler's variables; the request buffer never holds a whole
\* recv more than the limit.
TypeOK ==
  /\ stage \in Stages
  /\ open \in Nat
  /\ stream \in [len : Nat, head : Nat]
  /\ out_request \in 0..(MAX_REQUEST_SIZE + RecvSize - 1)
  /\ answers \in Seq(StatusLines)
  /\ fsize \in Nat /\ sent \in Nat
  /\ file \in [len : Nat, pos : Nat, eof : BOOLEAN]
  /\ left \in 0..SEND_BUF_SIZE
  /\ client \in {"here", "idle", "gone"}
  /\ changed \in BOOLEAN /\ failed \in BOOLEAN

\* read_request, whatever pieces recv delivers: a request is refused only if the
\* client left, or sent nothing, or more than the limit; and what is taken for a
\* request is a whole head, or all that was sent, or as much as the limit allows.
SizeDecides ==
  [][stage = "recv" =>
       /\ stage' = "send_400" =>
            client = "gone" \/ stream.len \notin 1..MAX_REQUEST_SIZE
       /\ stage' = "parse" =>
            HeadComplete \/ out_request \in {stream.len, MAX_REQUEST_SIZE}]_vars

\* webhandler.h on make_safe_path: it normalises the path, and returns the empty
\* string for one that is illegal or leads out of doc_root.  That is what the string
\* is, whether its dots and slashes were escaped in the URL or not.
PathsAreNormal == safe_path = Reference(url)

\* A segment that leads to something in the directory before it.
IsName(seg) ==
  /\ seg \notin {<<>>, <<".">>, <<"..">>, <<".", ".">>}
  /\ \A i \in DOMAIN seg : seg[i] # "/"

\* The path that is opened goes down from doc_root name by name.  Only where a NUL cuts
\* it may its last segment be something else, so that no file above doc_root is opened:
\* what such a path leads to is at most the directory that holds doc_root.
OnlyACutLeadsUp ==
  LET path == Opened(safe_path)
  IN  \A n \in DOMAIN path : IsName(path[n]) \/ (n = Len(path) /\ Cut(safe_path) # {})

\* What webhandler.h says, of the path that is opened: no part of it leads above doc_root.
StaysBelowRoot ==
  LET path == Opened(safe_path)
  IN  \A n \in DOMAIN path : Cardinality({k \in 1..n : DotDot(path[k])})
                                <= Cardinality({k \in 1..n : IsName(path[k])})

\* handler answers every connection it returns from with exactly one status line.
OneAnswer == stage = "return" => Len(answers) = 1

\* The body of a 200 answer is as long as its Content-Length says, whatever the
\* sizes of the sends, unless the file was changed or the client has left; and it
\* is never longer if the file was not changed.
Framed ==
  ~changed => /\ sent <= fsize
              /\ stage = "return" /\ answers = <<"send_200">> /\ ~failed => sent = fsize

\* One thread and no timeout: nothing but a client that stalls keeps the server from
\* its next accept.  It gets there whatever the sizes of request, file, recv and send.
OnlyClientsHoldUp == stage = "recv" ~> stage \in {"accept", "killed"} \/ client = "idle"
=============================================================================
