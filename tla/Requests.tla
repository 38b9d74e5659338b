------------------------------ MODULE Requests ------------------------------
(***************************************************************************)
(* Server::accept (modules/std/fcgi/server.cc): the parameters of a query  *)
(* string and the cookies of a header, as maps of names to values.  A map  *)
(* is the set of its pairs; insert keeps the pair that is there.           *)
(***************************************************************************)
EXTENDS Strings

Eq  == 3     \* =
Amp == 4     \* &
Sep == 5     \* the blank or the semicolon between cookies

\* std::string::substr, external; Npos as a count is the rest.
SubStr(s, pos, count) == SubSeq(s, pos + 1, IF count > Len(s) - pos THEN Len(s) ELSE pos + count)

\* The pairs of a list that come to be in a map.
Inserted(list) == {list[i] : i \in {i \in DOMAIN list : \A j \in 1 .. i - 1 : list[j][1] # list[i][1]}}

\* `next', a position, is also the number of characters that are taken.
RECURSIVE ChunksFrom(_, _, _)
ChunksFrom(v, last, next) ==
  <<SubStr(v, last, next)>> \o IF next = Npos THEN <<>> ELSE ChunksFrom(v, next + 1, StdFind(v, <<Amp>>, next + 1))

\* Without `=' the chunk is name and value both; before a name it is no mark.
Pair(chunk) ==
  LET split == StdFind(chunk, <<Eq>>, 0)
  IN CASE split = 0    -> <<chunk, <<>>>>
       [] split = Npos -> <<chunk, chunk>>
       [] OTHER        -> <<SubStr(chunk, 0, split), SubStr(chunk, split + 1, Len(chunk))>>

\* A query that begins with `&' is put to the environment whole.
QueryParams(v) ==
  LET next == StdFind(v, <<Amp>>, 0)
      chunks == SelectSeq(ChunksFrom(v, 0, next), LAMBDA c : c # <<>>)
  IN IF next = 0 THEN {} ELSE Inserted([i \in DOMAIN chunks |-> Pair(chunks[i])])

\* The loop over a cookie header: a name grows until `=', the data after it.
RECURSIVE CookiesFrom(_, _, _, _)
CookiesFrom(v, name, data, inv) ==
  LET done == IF name # <<>> /\ data # <<>> THEN <<<<name, data>>>> ELSE <<>>
  IN CASE v = <<>>       -> done
       [] Head(v) = Eq   -> CookiesFrom(Tail(v), name, data, TRUE)
       [] Head(v) = Sep  -> done \o CookiesFrom(Tail(v), <<>>, <<>>, FALSE)
       [] inv            -> CookiesFrom(Tail(v), name, Append(data, Head(v)), TRUE)
       [] OTHER          -> CookiesFrom(Tail(v), Append(name, Head(v)), data, FALSE)

Cookies(v) == Inserted(CookiesFrom(v, <<>>, <<>>, FALSE))

Accepted(field, v) == Answer(Parts(IF field = "query" THEN QueryParams(v) ELSE Cookies(v)))

=============================================================================
