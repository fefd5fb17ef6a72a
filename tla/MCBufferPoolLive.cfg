SPECIFICATION LiveSpec
CONSTANTS
  Threads = {t1, t2, t3}
  BufferCount = 1
  BlockMaxCount = 2
  MaxHeld = 1
  NoThread = NoThread
  Free = Free
  Unmade = Unmade
  MaxRents = 2
PROPERTY EveryRentReturns
