----------------------------- MODULE MCLhParts -----------------------------
(***************************************************************************)
(* The parts of linux-host, each on its own: a behaviour is one of the     *)
(* part that its first state picks, and the others rest.                   *)
(***************************************************************************)
EXTENDS LhMt, LhApiMac, LhLock, LhFifo

VARIABLE part

lhvars == <<part, mtvars, macvars, lockvars, fifovars>>

Parts == {"mt", "mac", "lock", "fifo"}

If(p, S, rest) == IF part = p THEN S ELSE rest

\* A message sent as it is, one sent as a single block, one of two blocks,
\* one whose last block is full and one of three blocks.
MCSizes == {2, 5, 12, 16, 20}

\* Counts inside messages, and what a message may be longer or shorter by.
MCCounts == {0, 2}
MCSlack  == 2
MCRequests == Requests(MCCounts)

MCInit ==
    /\ part \in Parts
    /\ MtInit(If("mt", MCSizes, {2}))
    /\ MacInit /\ (part # "mac" => ~macChksum)
    /\ LockInit /\ (part # "lock" => named = {})
    /\ FifoInit(If("fifo", {"app", "fd"}, {"app"}), If("fifo", {"app", "fd"}, {"app"}))

\* What threads that share an identity do to the mutex is not followed.
MCLockNext == Distinct /\ LockNext

MCNext ==
    /\ UNCHANGED part
    /\ \/ part = "mt"   /\ MtNext     /\ UNCHANGED <<macvars, lockvars, fifovars>>
       \/ part = "mac"  /\ MacNext(MCCounts, MCSlack, MCRequests)
                        /\ UNCHANGED <<mtvars, lockvars, fifovars>>
       \/ part = "lock" /\ MCLockNext /\ UNCHANGED <<mtvars, macvars, fifovars>>
       \/ part = "fifo" /\ FifoNext   /\ UNCHANGED <<mtvars, macvars, lockvars>>

MCSpec == MCInit /\ [][MCNext]_lhvars /\ MtFairness
=============================================================================
