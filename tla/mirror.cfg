CONSTANTS
  f1 = f1 b1 = b1 t1 = t1 n1 = n1 n2 = n2 n3 = n3 auto = auto manual = manual
  Tellers = {t1}
  FightIds = {f1}
  BetIds = {b1}
  Collectors = {1, 2}
  Names = {n1, n2, n3}
  Timer = auto
  Others = {manual}
  MaxWrites = 4
  MaxFaults = 1
SPECIFICATION NightSpec
INVARIANTS TypeOK
PROPERTIES MirrorNeverGoesBack IsBackup MirrorCatchesUp
CHECK_DEADLOCK FALSE
