------------------------------ MODULE SafePath ------------------------------
(***************************************************************************)
(* WebHandler::make_safe_path and url_decode of easyServer_v1.             *)
(*                                                                         *)
(* A URL is a sequence of pieces: "/", ".", "..", "?", the NUL character,  *)
(* escapes, and any others, which are ordinary characters of a name.  An   *)
(* escape is a "%" with the two characters after it, whatever they are:    *)
(* "%2f", "%2e", "%00", which stands for all that strtol reads as 0, those *)
(* without a hexadecimal digit too, and others, again ordinary characters. *)
(* A "%" with less than two characters after it decodes to nothing, and    *)
(* is no piece.  Pieces without a "/" between them make up one segment.    *)
(***************************************************************************)
EXTENDS Integers, Sequences, SequencesExt

\* What make_safe_path returns for an illegal URL: the empty string.  It is no
\* path, as every path has at least one segment.
Empty == <<>>

IndexHtml == <<"index.html">>

-----------------------------------------------------------------------------
\* path.resize(path.find('?'))
CutQuery(url) ==
  LET q == SelectInSeq(url, LAMBDA c : c = "?")
  IN  IF q = 0 THEN url ELSE SubSeq(url, 1, q - 1)

url_decode(s) ==
  [i \in DOMAIN s |-> CASE s[i] = "%2f" -> "/"
                        [] s[i] = "%2e" -> "."
                        [] s[i] = "%00" -> "NUL"
                        [] OTHER        -> s[i]]

Ignored(seg) == seg \in {<<>>, <<".">>}

\* Mutant: dots that are not sent as one piece make a name.
DotDotAsSent(seg) == seg = <<"..">>

DotDot(seg) == seg \in {<<"..">>, <<".", ".">>}

\* Mutant: ".." above the root is skipped instead of being illegal.
EndSegmentLenient(acc) ==
  CASE Ignored(acc.seg) -> [acc EXCEPT !.seg = <<>>]
    [] DotDot(acc.seg)  ->
         [acc EXCEPT !.seg = <<>>, !.parts = IF @ = <<>> THEN @ ELSE Front(@)]
    [] OTHER            -> [acc EXCEPT !.seg = <<>>, !.parts = Append(@, acc.seg)]

\* The body of the loop, once the segment's end is found.
EndSegment(acc) ==
  CASE Ignored(acc.seg) -> [acc EXCEPT !.seg = <<>>]
    [] DotDot(acc.seg)  ->
         IF acc.parts = <<>> THEN [acc EXCEPT !.legal = FALSE]
         ELSE [acc EXCEPT !.seg = <<>>, !.parts = Front(@)]
    [] OTHER            -> [acc EXCEPT !.seg = <<>>, !.parts = Append(@, acc.seg)]

\* One more piece; nothing matters after the return of the empty string.
NextPiece(acc, c) ==
  IF ~acc.legal THEN acc
  ELSE IF c = "/" THEN EndSegment(acc)
  ELSE [acc EXCEPT !.seg = Append(@, c)]

Begin == [parts |-> <<>>, seg |-> <<>>, legal |-> TRUE]

\* The end of a path ends its last segment, as a slash does.
Piece(path, n) == IF n > Len(path) THEN "/" ELSE path[n]

\* The loop: what has become of the pieces up to n.  The first one is skipped.
Scan(path) ==
  LET scan[n \in Nat] == IF n <= 1 THEN Begin ELSE NextPiece(scan[n - 1], Piece(path, n))
  IN  scan

\* The path below doc_root, as the sequence of its segments.
make_safe_path(url) ==
  LET path == url_decode(CutQuery(url))
      done == Scan(path)[Len(path) + 1]
  IN  IF path = <<>> \/ path[1] # "/" THEN Empty
      ELSE IF ~done.legal THEN Empty
      ELSE IF done.parts = <<>> THEN <<IndexHtml>>
      ELSE done.parts

\* The segments with a NUL in them.
Cut(segs) == {n \in DOMAIN segs : \E i \in DOMAIN segs[n] : segs[n][i] = "NUL"}

\* The path that ifstream opens is a C string: it ends before the first NUL.
Opened(segs) ==
  LET n == Min(Cut(segs))
      i == SelectInSeq(segs[n], LAMBDA c : c = "NUL")
  IN  IF Cut(segs) = {} THEN segs
      ELSE Append(SubSeq(segs, 1, n - 1), SubSeq(segs[n], 1, i - 1))

-----------------------------------------------------------------------------
(***************************************************************************)
(* The reference, without a loop: segments by the positions of the         *)
(* slashes, and ".." as a closing bracket that cancels a name.             *)
(***************************************************************************)
\* Where the segments of a path end.
Ends(path) == {e \in 2..(Len(path) + 1) : Piece(path, e) = "/"}

\* The segment that ends at e.
Segment(path, e) ==
  LET s == CHOOSE s \in 1..(e - 1) :
             path[s] = "/" /\ \A k \in (s + 1)..(e - 1) : path[k] # "/"
  IN  SubSeq(path, s + 1, e - 1)

Ups(path)   == {e \in Ends(path) : DotDot(Segment(path, e))}
Names(path) == {e \in Ends(path) : ~Ignored(Segment(path, e))} \ Ups(path)

\* How many more names than ".." end after place d and up to e.
Balance(names, ups, d, e) ==
  Cardinality(names \cap (d + 1)..e) - Cardinality(ups \cap (d + 1)..e)

\* The names up to n that no ".." up to n cancels.
Kept(names, ups, n) ==
  {k \in names : k <= n /\ \A e \in k..n : Balance(names, ups, k, e) >= 0}

\* No ".." up to n leads above the root.
Legal(names, ups, n) == \A e \in 1..n : Balance(names, ups, 1, e) >= 0

Reference(url) ==
  LET path == url_decode(CutQuery(url))
      last == Len(path) + 1
      kept == Kept(Names(path), Ups(path), last)
      Nth(n) == CHOOSE k \in kept : Cardinality(kept \cap 1..k) = n
  IN  IF path = <<>> \/ path[1] # "/" THEN Empty
      ELSE IF ~Legal(Names(path), Ups(path), last) THEN Empty
      ELSE IF kept = {} THEN <<IndexHtml>>
      ELSE [n \in 1..Cardinality(kept) |-> Segment(path, Nth(n))]
=============================================================================
