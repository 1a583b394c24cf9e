\* Two workers, three tasks, and a destructor that may run at any time.
SPECIFICATION Spec
CONSTANTS
  w1 = w1
  w2 = w2
  t1 = t1
  t2 = t2
  t3 = t3
  Workers = {w1, w2}
  Tasks = {t1, t2, t3}
INVARIANTS
  TypeOK
  EachInOnePlace
  NoLostWakeup
PROPERTY ImplementsExecutor
CHECK_DEADLOCK FALSE
