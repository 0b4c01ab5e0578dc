------------------------------ MODULE MCStock -------------------------------
(* Small instances of StockLedger.  The actions are listed one by one so that  *)
(* TLC counts each of them; the others take a backup, a reset, a release, a   *)
(* quantity of two or a failure that the bounds of stock_live leave out, and   *)
(* are counted in the runs of MCConnector.                                  *)
EXTENDS StockLedger, TLC
CONSTANTS i1, i2

LiveNext ==
  \/ \E d \in {-1, 1} : InStore(d)
  \/ StatusFlips
  \/ \E i \in Items, t \in 1..MaxQty : BeginReduce(i, t)
  \/ \E i \in Items : Cancel(i)
  \/ \E i \in Items : Move(i)
  \/ \E i \in Items : WriteMeta(i)
  \/ \E i \in Items : Sync(i)
  \/ \E i \in Items : ItemRecomputes(i)
  \/ \E i \in Items : Drain(i)
  \/ \E i \in Items : Send(i)
  \/ \E i \in Items : AckArrives(i)
  \/ \E i \in Items : AckRecomputes(i)
  \/ \E i \in Items : CoreRecords(i)
  \/ \E i \in Items : CoreGivesBack(i)
  \/ StartPull \/ ApplyPull \/ DropPull
  \/ \E r \in 1..Len(log) : Push(r)
  \/ JobReads \/ JobCommits \/ Maintain \/ JobGivesUp

MCLiveSpec == Init /\ [][LiveNext]_vars /\ Fairness
=============================================================================
