-------------------------- MODULE MCBatchExpansion --------------------------
(* Requests and settings for TLC: seeds around both ends of a short range. *)
EXTENDS BatchExpansion

Prompts == {<<>>, <<"brick">>, <<"brick", "brick">>, <<"brick", "moss">>, <<"blank">>,
            <<"brick", "too long">>, <<"brick", "moss", "rust">>}

Stems == {<<"t", "_", "w">>, <<"_">>}

Seeds == {None, 0, 1, 5, 7, 9, 12}

SequentialRequests ==
    {[prompts |-> p, mode |-> "sequential", variations |-> v, seed |-> None,
      start |-> s, end |-> e, name |-> <<"t", "_", "w">>] :
        p \in Prompts, v \in 0..4, s \in Seeds, e \in Seeds}

OtherRequests ==
    {[prompts |-> p, mode |-> m, variations |-> v, seed |-> s,
      start |-> None, end |-> None, name |-> n] :
        p \in Prompts, m \in {"fixed", "random", "shuffled"}, v \in 0..4,
        s \in Seeds, n \in Stems}

AllRequests == SequentialRequests \cup OtherRequests

\* A roomy service, and one with few jobs, names as long as a suffix or
\* shorter, and a seed range that does not start at 0.
AllSettings ==
    {[minSeed |-> 0, maxSeed |-> 12, maxJobs |-> 24, maxPrompts |-> 3,
      maxVariations |-> 3, maxLength |-> 14],
     [minSeed |-> 1, maxSeed |-> 9, maxJobs |-> 6, maxPrompts |-> 2,
      maxVariations |-> 4, maxLength |-> 11],
     [minSeed |-> 0, maxSeed |-> 2, maxJobs |-> 6, maxPrompts |-> 2,
      maxVariations |-> 4, maxLength |-> 4]}

=============================================================================
