----------------------------- MODULE TokenSemantics -----------------------------
(***************************************************************************)
(* The token-exact semantics of fissionspec/semantics.py: speculative      *)
(* rejection sampling over exact rational distributions, and a decoding    *)
(* session that may take the next proposal from an eager cache of          *)
(* continuations, one for every verifier outcome.                          *)
(*                                                                         *)
(* A model maps context suffixes to rows of integer weights.  The draws of *)
(* the draft are a function of their address (round, index), whichever     *)
(* branch asks; the verifier's draws are used once and are chosen freely.  *)
(***************************************************************************)
EXTENDS Integers, Sequences, FiniteSets, FiniteSetsExt, SequencesExt, TLC

CONSTANTS
    Vocabulary,    \* the tokens are 1..Vocabulary
    Pairs,         \* [target, draft], each a function from suffixes to rows
    Prompts, MaxNewTokens, SpeculationLength,
    DrawRange      \* a multiple of the totals of the rows of a draft

VARIABLE session

Tokens == 1..Vocabulary
Row == [Tokens -> Nat]
Total(row) == MapThenSumSet(LAMBDA x : row[x], Tokens)

ValidModel(model) ==
    /\ <<>> \in DOMAIN model
    /\ \A c \in DOMAIN model : c \in Seq(Tokens) /\ model[c] \in Row /\ \E x \in Tokens : model[c][x] > 0

\* Assumed of the constants.
SemanticsConstants ==
    /\ Vocabulary \in Nat \ {0} /\ MaxNewTokens \in Nat /\ SpeculationLength \in Nat \ {0}
    /\ \A p \in Pairs : ValidModel(p.target) /\ ValidModel(p.draft)
    /\ \A p \in Pairs, c \in UNION {DOMAIN q.draft : q \in Pairs} :
          c \in DOMAIN p.draft => DrawRange % Total(p.draft[c]) = 0
    /\ Prompts \subseteq Seq(Tokens)

----------------------------------------------------------------------------
(* Exact fractions, in lowest terms.                                       *)

gcd[p \in Nat \X Nat] == IF p[2] = 0 THEN p[1] ELSE gcd[<<p[2], p[1] % p[2]>>]
Fraction(n, d) == <<n \div gcd[<<n, d>>], d \div gcd[<<n, d>>]>>
Zero == <<0, 1>>
One == <<1, 1>>
Plus(a, b) == Fraction(a[1] * b[2] + b[1] * a[2], a[2] * b[2])
Minus(a, b) == Fraction(a[1] * b[2] - b[1] * a[2], a[2] * b[2])
Times(a, b) == Fraction(a[1] * b[1], a[2] * b[2])
Quotient(a, b) == Fraction(a[1] * b[2], a[2] * b[1])
Above(a, b) == a[1] * b[2] > b[1] * a[2]
Sum(S, value(_)) == MapThenFoldSet(Plus, Zero, value, LAMBDA T : CHOOSE x \in T : TRUE, S)

----------------------------------------------------------------------------
(* Models.                                                                 *)

\* The row of the longest context that ends the prefix.
Weights(model, prefix) ==
    model[CHOOSE c \in DOMAIN model :
             /\ IsSuffix(c, prefix)
             /\ \A d \in DOMAIN model : IsSuffix(d, prefix) => Len(d) <= Len(c)]

Distribution(model, prefix) ==
    LET row == Weights(model, prefix) IN [x \in Tokens |-> Fraction(row[x], Total(row))]

Support(row) == {x \in Tokens : row[x] # Zero}

\* One more token of an autoregressive block.
Extended(model, context, partial) ==
    [s \in UNION {{Append(t, x) : x \in Support(Distribution(model, context \o t))} : t \in DOMAIN partial} |->
        Times(partial[Front(s)], Distribution(model, context \o Front(s))[Last(s)])]

\* The distribution of a block of tokens drawn from a model: of a proposal if
\* the model is the draft, of the output without speculation if the target.
RECURSIVE Blocks(_, _, _)
Blocks(model, context, length) ==
    IF length = 0 THEN <<>> :> One ELSE Extended(model, context, Blocks(model, context, length - 1))

----------------------------------------------------------------------------
(* Verification of one proposal.  An outcome is [accepted, token].         *)

\* Every candidate the target allows is accepted (OraclesExact).
WrongAcceptance(pair, context, proposal, i) ==
    IF Above(Distribution(pair.target, context \o SubSeq(proposal, 1, i - 1))[proposal[i]], Zero) THEN One ELSE Zero

AtMostOne(p, q) == IF Above(p, q) THEN One ELSE Quotient(p, q)

Acceptance(pair, context, proposal, i) ==
    LET prefix == context \o SubSeq(proposal, 1, i - 1)
    IN  AtMostOne(Distribution(pair.target, prefix)[proposal[i]],
                  Distribution(pair.draft, prefix)[proposal[i]])

PositivePart(p, q) == [x \in Tokens |-> IF Above(p[x], q[x]) THEN Minus(p[x], q[x]) ELSE Zero]

Scaled(row, total) == [x \in Tokens |-> IF total = Zero THEN Zero ELSE Quotient(row[x], total)]
Normalised(row) == Scaled(row, Sum(Tokens, LAMBDA x : row[x]))

\* The positive part of target minus draft, normalised.
Residual(pair, prefix) ==
    Normalised(PositivePart(Distribution(pair.target, prefix), Distribution(pair.draft, prefix)))

Emitted(proposal, o) == Append(SubSeq(proposal, 1, o.accepted), o.token)

\* The chance that the first i candidates are accepted.
AcceptedChances(pair, context, proposal) ==
    LET accepted[i \in 0..Len(proposal)] ==
            IF i = 0 THEN One ELSE Times(accepted[i - 1], Acceptance(pair, context, proposal, i))
    IN  accepted

\* The chance that exactly the first i are, and the row of the token after them.
Exactly(accepted, last) ==
    [i \in 0..last |-> IF i = last THEN accepted[i] ELSE Minus(accepted[i], accepted[i + 1])]
Final(pair, context, proposal, i) ==
    IF i = Len(proposal) THEN Distribution(pair.target, context \o proposal)
    ELSE Residual(pair, context \o SubSeq(proposal, 1, i))

Possible(chance) == [o \in {o \in DOMAIN chance : chance[o] # Zero} |-> chance[o]]

Joint(mass, row) == IF mass = Zero THEN Zero ELSE Times(mass, row)

\* The exact distribution of the outcomes of a proposal.
VerificationOutcomes(pair, context, proposal) ==
    LET mass == Exactly(AcceptedChances(pair, context, proposal), Len(proposal))
        outcomes == {[accepted |-> i, token |-> x] : i \in 0..Len(proposal), x \in Tokens}
    IN  Possible([o \in outcomes |->
                     Joint(mass[o.accepted], Final(pair, context, proposal, o.accepted)[o.token])])

Width(remaining) == Min({SpeculationLength, remaining - 1})

\* What one round and the rest of the output after it give together.
Combined(proposals, outcomes, tails) ==
    LET runs      == UNION {UNION {{<<p, o, t>> : t \in DOMAIN tails[Emitted(p, o)]} : o \in DOMAIN outcomes[p]} :
                               p \in DOMAIN proposals}
        emitted   == [r \in runs |-> Emitted(r[1], r[2])]
        output    == [r \in runs |-> emitted[r] \o r[3]]
        mass      == [r \in runs |-> Times(proposals[r[1]], Times(outcomes[r[1]][r[2]], tails[emitted[r]][r[3]]))]
    IN  [s \in {output[r] : r \in runs} |-> Sum({r \in runs : output[r] = s}, LAMBDA r : mass[r])]

\* The distribution of complete speculative outputs, round by round.
RECURSIVE SpeculativeSequences(_, _, _)
SpeculativeSequences(pair, committed, remaining) ==
    LET proposals == Blocks(pair.draft, committed, Width(remaining))
        outcomes  == [p \in DOMAIN proposals |-> VerificationOutcomes(pair, committed, p)]
        tails     == [e \in UNION {{Emitted(p, o) : o \in DOMAIN outcomes[p]} : p \in DOMAIN proposals} |->
                         SpeculativeSequences(pair, committed \o e, remaining - Len(e))]
    IN  IF remaining <= 1 THEN Blocks(pair.target, committed, remaining)
        ELSE Combined(proposals, outcomes, tails)

----------------------------------------------------------------------------
(* Temperature zero; a tie goes to the lowest token.                       *)

Argmax(row) == CHOOSE x \in Tokens : \A y \in Tokens : ~Above(row[y], row[x]) /\ (row[y] = row[x] => x <= y)

RECURSIVE Greedy(_, _, _)
Greedy(model, context, length) ==
    IF length = 0 THEN <<>>
    ELSE LET x == Argmax(Distribution(model, context)) IN <<x>> \o Greedy(model, Append(context, x), length - 1)

RECURSIVE GreedySpeculative(_, _, _)
GreedySpeculative(pair, context, remaining) ==
    LET proposal == Greedy(pair.draft, context, Width(remaining))
        Best(i)  == Argmax(Distribution(pair.target, context \o SubSeq(proposal, 1, i)))
        accepted == Min({i \in 0..Len(proposal) : i < Len(proposal) => proposal[i + 1] # Best(i)})
        emitted  == Append(SubSeq(proposal, 1, accepted), Best(accepted))
    IN  IF remaining <= 1 THEN Greedy(pair.target, context, remaining)
        ELSE emitted \o GreedySpeculative(pair, context \o emitted, remaining - Len(emitted))

----------------------------------------------------------------------------
(* Sampling: a draw below the total of a row falls to one token.           *)

CategoricalToken(row, draw) ==
    CHOOSE x \in Tokens : LET upto(k) == MapThenSumSet(LAMBDA y : row[y], 1..k)
                          IN  upto(x - 1) <= draw /\ draw < upto(x)

\* draws[i] is the draw of index i; a row of another total scales it down.
RECURSIVE SampleDraftProposal(_, _, _, _)
SampleDraftProposal(draft, prefix, width, draws) ==
    IF width <= 0 THEN <<>>
    ELSE LET head == SampleDraftProposal(draft, prefix, width - 1, draws)
             row  == Weights(draft, prefix \o head)
         IN  Append(head, CategoricalToken(row, draws[width] % Total(row)))

----------------------------------------------------------------------------
(* The session.                                                            *)

DrawTables == [1..SpeculationLength -> 0..(DrawRange - 1)]
DrawsOf(round) == IF round \in DOMAIN session.draws THEN {session.draws[round]} ELSE DrawTables

Remaining == MaxNewTokens - (Len(session.tokens) - session.prompt)
Nothing == [tokens |-> <<>>, proposal |-> <<>>]
Missed == [tokens |-> <<>>, proposal |-> <<0>>]

Init ==
    \E pair \in Pairs, prompt \in Prompts :
        session = [pair |-> pair, tokens |-> prompt, prompt |-> Len(prompt), round |-> 0, proposal |-> <<>>,
                   draws |-> <<>>, prepared |-> <<>>, hit |-> Nothing, error |-> "none"]

Running == session.error = "none" /\ Remaining > 0
Fail(error) == session' = [session EXCEPT !.error = error]

\* The eager cache: the next proposal for every outcome this one can have.
Continuations(s, draws, left) ==
    LET outcomes == DOMAIN VerificationOutcomes(s.pair, s.tokens, s.proposal)
        Committed(o) == s.tokens \o Emitted(s.proposal, o)
    IN  [o \in outcomes |->
            [tokens   |-> Committed(o),
             proposal |-> SampleDraftProposal(s.pair.draft, Committed(o),
                                              Width(left - Len(Emitted(s.proposal, o))), draws)]]

Prepare ==
    /\ Running /\ session.proposal # <<>> /\ session.prepared = <<>>
    /\ \E draws \in DrawsOf(session.round + 1) :
          session' = [session EXCEPT !.prepared = Continuations(session, draws, Remaining),
                                     !.draws = (session.round + 1) :> draws]

\* advance_session drafts its own proposal.
Draft ==
    /\ Running /\ Remaining > 1 /\ session.proposal = <<>>
    /\ \E draws \in DrawsOf(session.round) :
          session' = [session EXCEPT !.proposal = SampleDraftProposal(session.pair.draft, session.tokens,
                                                                      Width(Remaining), draws),
                                     !.hit = Nothing, !.draws = <<>>]

\* Or takes a prepared one, which must have the width of the round.
UsePrepared ==
    /\ Running /\ Remaining > 1 /\ session.proposal = <<>> /\ session.hit \notin {Nothing, Missed}
    /\ IF Len(session.hit.proposal) # Width(Remaining) THEN Fail("wrong width")
       ELSE session' = [session EXCEPT !.proposal = session.hit.proposal, !.hit = Nothing, !.draws = <<>>]

\* Commit what the round emitted, and look its outcome up in the cache.
Commit(emitted, hit) ==
    session' = [session EXCEPT !.tokens = @ \o emitted, !.round = @ + 1, !.proposal = <<>>,
                               !.prepared = <<>>, !.hit = hit]

Lookup(o) ==
    IF session.prepared = <<>> THEN Nothing
    ELSE IF o \in DOMAIN session.prepared THEN session.prepared[o] ELSE Missed

Settle(o) == Commit(Emitted(session.proposal, o), Lookup(o))

Chance(i) == Acceptance(session.pair, session.tokens, session.proposal, i)
Checked(i) == session.tokens \o SubSeq(session.proposal, 1, i)

\* speculative_step: the first candidate that is not accepted is corrected.
Reject ==
    /\ Running
    /\ \E i \in 0..(Len(session.proposal) - 1) :
          /\ \A k \in 1..i : Chance(k) # Zero
          /\ Chance(i + 1) # One
          /\ LET residual == Residual(session.pair, Checked(i))
             IN  IF Support(residual) = {} THEN Fail("no residual")
                 ELSE \E x \in Support(residual) : Settle([accepted |-> i, token |-> x])

\* Or all are accepted, and a bonus token is drawn from the target.
AcceptAll ==
    /\ Running /\ session.proposal # <<>>
    /\ \A k \in DOMAIN session.proposal : Chance(k) # Zero
    /\ \E x \in Support(Distribution(session.pair.target, Checked(Len(session.proposal)))) :
          Settle([accepted |-> Len(session.proposal), token |-> x])

\* The last token is drawn from the target.
DirectTarget ==
    /\ Running /\ Remaining = 1 /\ session.proposal = <<>>
    /\ \E x \in Support(Distribution(session.pair.target, session.tokens)) : Commit(<<x>>, Nothing)

Next == Draft \/ UsePrepared \/ Prepare \/ Reject \/ AcceptAll \/ DirectTarget

Spec == Init /\ [][Next]_session

----------------------------------------------------------------------------
(* Properties.                                                             *)

\* At every committed prefix speculation draws the rest of the output from the
\* distribution of the target alone, at temperature zero its very tokens, and
\* the outcomes of a proposal have mass one.
SpeculationExact ==
    /\ session.proposal = <<>> =>
          /\ SpeculativeSequences(session.pair, session.tokens, Remaining)
                = Blocks(session.pair.target, session.tokens, Remaining)
          /\ GreedySpeculative(session.pair, session.tokens, Remaining)
                = Greedy(session.pair.target, session.tokens, Remaining)
    /\ session.proposal # <<>> =>
          LET outcomes == VerificationOutcomes(session.pair, session.tokens, session.proposal)
          IN  Sum(DOMAIN outcomes, LAMBDA o : outcomes[o]) = One

\* A cached continuation is of the state the session is in and holds the
\* proposal the session would have drafted itself; every outcome that happens
\* was prepared, and no session fails or grows past its limit.
ContinuationsFaithful ==
    /\ session.error = "none" /\ Remaining >= 0 /\ session.hit # Missed
    /\ session.hit # Nothing =>
          /\ session.hit.tokens = session.tokens
          /\ \A draws \in DrawsOf(session.round) :
                session.hit.proposal =
                    SampleDraftProposal(session.pair.draft, session.tokens, Width(Remaining), draws)

=============================================================================
