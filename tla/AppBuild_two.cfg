SPECIFICATION BuildSpec
CONSTANTS
  Starts = {s1, s2}
  Archives = {a1, a2, a3}
  Sums = {v1, v2}
INVARIANT RunDirKept
