CONSTANTS
  Thread = {t1, t2, t3}
  NoThread = NoThread
  Item = {a, b}
  NoItem = NoItem
  MaxLength = 2
SPECIFICATION Spec
INVARIANTS QueueTypeOK NeverTakeFromEmpty FlagTruthful
PROPERTY Linearizable
