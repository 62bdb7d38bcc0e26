-------------------------- MODULE CementingLedgers --------------------------
EXTENDS CementedLedger

CONSTANTS
    Lengths,    \* the lengths of the account chains considered
    Receives    \* the numbers of receives considered

(***************************************************************************)
(* All the ledgers with chains of the given lengths: which blocks receive, *)
(* and which send each of them receives.  A send is received once, a       *)
(* receive is no send, an account other than genesis opens with a receive, *)
(* and nothing depends on itself.                                          *)
(***************************************************************************)
blocks(length) == {b \in Account \X (1..4) : b[2] <= length[b[1]]}

direct(source, b) ==
    (IF b[2] > 1 THEN {<<b[1], b[2] - 1>>} ELSE {}) \cup
    (IF source[b] # None THEN {source[b]} ELSE {})

closure(source) ==
    LET step[n \in 0..8] ==
            IF n = 0 THEN [b \in DOMAIN source |-> direct(source, b)]
            ELSE LET d == step[n - 1]
                 IN [b \in DOMAIN source |-> d[b] \cup UNION {d[c] : c \in d[b]}]
    IN step[3]

sources(length) ==
    LET all == blocks(length)
        opens == {open_block(a) : a \in Account \ {genesis}}
        matchings == UNION {{f \in [R -> all \ (R \cup {open_block(genesis)})] : \A b, c \in R : f[b] = f[c] => b = c} :
                              R \in {R \in SUBSET all : opens \subseteq R /\ open_block(genesis) \notin R
                                                         /\ Cardinality(R) \in Receives}}
    IN {f \in {[b \in all |-> IF b \in DOMAIN m THEN m[b] ELSE None] : m \in matchings} :
            \A b \in all : b \notin closure(f)[b]}

of(length, source) ==
    [length |-> length, source |-> source,
     dependencies |-> [b \in DOMAIN source |-> {b} \cup closure(source)[b]]]

\* The accounts send to each other in turn: to cement the last block three receives have
\* to be stacked, one more than a circular buffer of two holds.
ping_pong ==
    LET source == (<<2, 1>> :> <<1, 2>>) @@ (<<1, 3>> :> <<2, 2>>) @@ (<<2, 3>> :> <<1, 4>>)
    IN of(<<4, 3>>, source @@ [b \in blocks(<<4, 3>>) |-> None])

MCLedgers == {ping_pong} \cup UNION {{of(length, f) : f \in sources(length)} : length \in Lengths}
=============================================================================
