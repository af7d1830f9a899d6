SPECIFICATION Spec
CONSTANTS
  Width = 3
  MaxSize = 4
PROPERTY GoesBackByDistance
