----------------------------- MODULE KeyStream -----------------------------
(***************************************************************************)
(* What read() of the keyboard promises: the keys form one stream, reads   *)
(* are served one after the other in the order in which they were made,    *)
(* and each gets a contiguous run of the stream.                           *)
(***************************************************************************)
EXTENDS Naturals, Sequences, SequencesExt

CONSTANTS Reader, Key, Count    \* tasks, characters, lengths of a read

VARIABLES pending,   \* keys typed and not yet read
          reqs,      \* reads not yet complete: <<reader, keys still to get>>
          got        \* got[p]: what the last read of p has got so far

streamVars == <<pending, reqs, got>>

Init == pending = <<>> /\ reqs = <<>> /\ got = [p \in Reader |-> <<>>]

Type ==
  /\ \E c \in Key : pending' = Append(pending, c)
  /\ UNCHANGED <<reqs, got>>

\* Reader p gets n keys towards the `want' keys it needs, starting from what
\* it has; only a read that got everything leaves the queue of requests.
Take(p, want, has, n, rest) ==
  /\ n <= Len(pending)
  /\ got' = [got EXCEPT ![p] = has \o SubSeq(pending, 1, n)]
  /\ pending' = SubSeq(pending, n + 1, Len(pending))
  /\ reqs' = IF n = want THEN rest ELSE <<<<p, want - n>>>> \o rest

\* A read that finds nobody before it may get keys at once.
Request ==
  \E p \in Reader, c \in Count :
    /\ \A i \in 1 .. Len(reqs) : reqs[i][1] # p
    /\ IF reqs = <<>>
       THEN \E n \in 0 .. c : Take(p, c, <<>>, n, <<>>)
       ELSE /\ reqs' = Append(reqs, <<p, c>>)
            /\ got' = [got EXCEPT ![p] = <<>>]
            /\ UNCHANGED pending

\* Only the oldest read is served.
Serve ==
  /\ reqs # <<>>
  /\ LET p == Head(reqs)[1]
         want == Head(reqs)[2]
     IN \E n \in 0 .. want : Take(p, want, got[p], n, Tail(reqs))

Next == Type \/ Request \/ Serve

Spec == Init /\ [][Next]_streamVars
=============================================================================
