SPECIFICATION Spec
CONSTANTS
  riddle = riddle
  pwn = pwn
  Challenges = {riddle, pwn}
  Dynamic = {pwn}
  Windows = {w1, w2}
  MaxCalls = 2
  MaxPanels = 1
  Failure = Failure
  Bare = Bare
  Nothing = Nothing
INVARIANTS GlowsAsConfirmed ControlsReturn
PROPERTY SpinnerEnds
