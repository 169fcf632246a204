CONSTANTS
  Progs = {1, 2}
  Setpoints = {19, 21}
  Levels = {3}
  Temps = {18}
  Times = {455}
SPECIFICATION Spec
INVARIANTS
  ControlsObeyed
