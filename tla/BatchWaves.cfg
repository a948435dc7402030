\* Two waves of a cheap and a dear cell, resumed, or narrowed to a unit
\* and forced.
SPECIFICATION Spec
CONSTANTS
  o10 = o10  a10 = a10
  Cells = {o10, a10}
  Units = {1, 2}
  Price <- TwoPrices
  BatchStop = 3
  BatchCap = 9
  Workers = 2
  Retries = 1
  Requests <- WavesAsked
  MaxWaves = 2
INVARIANT BatchIsSound
CHECK_DEADLOCK FALSE
