SPECIFICATION SpecBoth
CONSTANTS
  N = 2
  View = 0
  Other = 1
  Guards = {g1}
  Pickups <- OneArmour
  Rifles = {g1}
  HealthMax = 2
  ArmourMax = 1
  ArmourAdd = 2
  SpawnTicks = 2
  AutoTicks = 3
  PistolMag = 1
  RifleMag = 2
  SpareStart = 0
  AmmoAdd = 3
  NoticeTicks = 1
  Cooldown = 2
  TimeLimits = {2}
  PointLimits = {1}
INVARIANTS SameWorld
CHECK_DEADLOCK FALSE
