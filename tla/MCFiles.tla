-------------------------------- MODULE MCFiles --------------------------------
(***************************************************************************)
(* What a process finds in its files, after a crash too.  The cache and    *)
(* the portfolio share no state, so a behaviour is that of one of the two, *)
(* with the other left at its start.                                       *)
(*   cache: two keys over tiers that hold one each, so that evictions and  *)
(*     trimming happen at once; times to live of nought and one, so that   *)
(*     an entry can expire in memory, or in both tiers;                    *)
(*   paper: two tickers, three trades, two capitals to be configured with; *)
(*     a twentieth of the capital is reserved, half of it the most an      *)
(*     order may take.                                                     *)
(***************************************************************************)
EXTENDS ResponseCache, Paper, TLC

CONSTANTS t1, t2, cli, k1, k2

VARIABLE part

AllInCli == [t \in Thread |-> cli]

ThreadAndKeySymmetry == Permutations(Thread) \cup Permutations(Key)

MCReserve == [c \in Capitals |-> c \div 20]
MCMaxPosition == [c \in Capitals |-> c \div 2]

FilesInit ==
  /\ part \in {"cache", "paper"}
  /\ Init /\ PaperInit
  /\ part # "paper" => \A c \in Capitals : book.capital <= c

FilesNext ==
  \/ part = "cache" /\ Next /\ UNCHANGED <<part, paperVars>>
  \/ part = "paper" /\ PaperNext /\ UNCHANGED <<part, vars>>

FilesSpec == FilesInit /\ [][FilesNext]_<<part, vars, paperVars>>
=============================================================================
